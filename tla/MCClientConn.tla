---------------------------- MODULE MCClientConn ----------------------------
(***************************************************************************)
(* Instances of ClientConn for TLC.                                        *)
(***************************************************************************)
EXTENDS ClientConn, TLC

CONSTANTS q1, q2, c1, c2, o1
=============================================================================
