------------------------------ MODULE Invocation ------------------------------
(***************************************************************************)
(* What an ORB promises those who call remote objects: a call is executed  *)
(* at most once, whatever becomes of the connections it travels on, it has *)
(* one outcome, and the outcome "reply" means that it was executed.        *)
(***************************************************************************)
CONSTANT Call

VARIABLES
  status,    \* unsent, pending, answered, returned, gone (cancelled)
  outcome,   \* none, reply, or the exception that is raised
  executed   \* how often a server has executed each call

vars == <<status, outcome, executed>>

Init ==
  /\ status = [q \in Call |-> "unsent"]
  /\ outcome = [q \in Call |-> "none"]
  /\ executed = [q \in Call |-> 0]

Set(q, s) == status' = [status EXCEPT ![q] = s]

Begin(q) == status[q] = "unsent" /\ Set(q, "pending") /\ UNCHANGED <<outcome, executed>>

Execute(q) ==
  /\ status[q] # "unsent" /\ executed[q] = 0
  /\ executed' = [executed EXCEPT ![q] = 1]
  /\ UNCHANGED <<status, outcome>>

Answer(q) ==
  /\ status[q] = "pending"
  /\ Set(q, "answered")
  /\ \E o \in {"reply", "TRANSIENT", "COMM_FAILURE", "TIMEOUT"} :
       /\ o = "reply" => executed[q] = 1
       /\ outcome' = [outcome EXCEPT ![q] = o]
  /\ UNCHANGED executed

Return(q) == status[q] = "answered" /\ Set(q, "returned") /\ UNCHANGED <<outcome, executed>>

\* a oneway returns without an answer
SendOnly(q) == status[q] = "pending" /\ Set(q, "returned") /\ UNCHANGED <<outcome, executed>>

GiveUp(q) ==
  /\ status[q] \in {"pending", "answered"}
  /\ Set(q, "gone")
  /\ UNCHANGED <<outcome, executed>>

Next == \E q \in Call : \/ Begin(q) \/ Execute(q) \/ Answer(q)
                        \/ Return(q) \/ SendOnly(q) \/ GiveUp(q)

Spec == Init /\ [][Next]_vars
===============================================================================
