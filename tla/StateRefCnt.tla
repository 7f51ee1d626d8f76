----------------------------- MODULE StateRefCnt -----------------------------
(***************************************************************************)
(* MICOMT::StateRefCnt (include/mico/os-thread.h), the state controlled    *)
(* reference count a connection is built on.  Its methods run under        *)
(* _mutex; state_change() is the only one that gives the mutex up, in its  *)
(* wait for the count to be 0, so it is two operators.                     *)
(***************************************************************************)
EXTENDS Naturals

Initial == 0
Active == 1
InitShutdown == 2
Shutdown == 3
Terminated == 4
ExecState == 0..4

StateRefCnt(max) == [current : ExecState, new : ExecState, active : 0..max]

Fresh == [current |-> Initial, new |-> Initial, active |-> 0]

\* active_ref() returns TRUE: the test it makes, not the rule it documents
ActiveRefOK(s) == s.current = s.new \/ s.current = Active

active_ref(s) == [s EXCEPT !.active = @ + 1]

active_deref(s) == [s EXCEPT !.active = @ - 1]

\* state_change(t) up to the wait; it does nothing when MayChange is FALSE
MayChange(s, t) == t > s.current
BeginChange(s, t) == [s EXCEPT !.new = t]

\* and after it
ChangeEffective(s) == s.active = 0
EndChange(s) == [s EXCEPT !.current = IF s.new > @ THEN s.new ELSE @]

\* init_shutdown() returns TRUE when ShutdownOK
ShutdownOK(s) == s.new = Active
init_shutdown(s) == [s EXCEPT !.current = InitShutdown, !.new = InitShutdown]
=============================================================================
