--------------------------- MODULE MCActiveObjects ---------------------------
(***************************************************************************)
(* An instance of ActiveObjects for TLC.                                   *)
(***************************************************************************)
EXTENDS ActiveObjects, TLC

CONSTANTS i1, i2, s1, s2, a1, a2, w1, w2
===============================================================================
