----------------------------- MODULE MCPOAManager -----------------------------
(***************************************************************************)
(* An instance of POAManager for TLC.                                      *)
(***************************************************************************)
EXTENDS POAManager, TLC

CONSTANTS p1, p2, a1, a2, r1, r2
===============================================================================
