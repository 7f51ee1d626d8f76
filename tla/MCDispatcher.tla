---------------------------- MODULE MCDispatcher ----------------------------
(***************************************************************************)
(* An instance of Dispatcher for TLC: a connection that reads and writes,  *)
(* another object that reads from a descriptor of the same number, and a   *)
(* timer of each.                                                          *)
(***************************************************************************)
EXTENDS Dispatcher

CONSTANTS a, b, ta, tb

MCWatch == {[cb |-> a, ev |-> "Read", fd |-> 1], [cb |-> b, ev |-> "Read", fd |-> 1],
            [cb |-> a, ev |-> "Write", fd |-> 1]}
MCOwner == [t \in Timer |-> IF t = ta THEN a ELSE b]
=============================================================================
