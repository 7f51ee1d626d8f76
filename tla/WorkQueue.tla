----------------------------- MODULE WorkQueue ------------------------------
(***************************************************************************)
(* What a thread pool promises the threads that give it messages: each     *)
(* message taken on is taken up at most once, at most Max of them are in   *)
(* process at a time, and none is lost before the pool is shut down.       *)
(***************************************************************************)
EXTENDS Naturals, FiniteSets

CONSTANTS Msg, Max
VARIABLES sent, running, done, lost, shutdown_

wqvars == <<sent, running, done, lost, shutdown_>>

Init ==
    /\ sent = {} /\ running = {} /\ done = {} /\ lost = {}
    /\ shutdown_ = FALSE

pending == sent \ (running \cup done \cup lost)

Submit(m) ==
    /\ ~shutdown_
    /\ m \notin sent
    /\ sent' = sent \cup {m}
    /\ UNCHANGED <<running, done, lost, shutdown_>>

Start(m) ==
    /\ m \in pending
    /\ Cardinality(running) < Max
    /\ running' = running \cup {m}
    /\ UNCHANGED <<sent, done, lost, shutdown_>>

Finish(m) ==
    /\ m \in running
    /\ running' = running \ {m}
    /\ done' = done \cup {m}
    /\ UNCHANGED <<sent, lost, shutdown_>>

Lose(m) ==
    /\ shutdown_
    /\ m \in pending \cup running
    /\ running' = running \ {m}
    /\ lost' = lost \cup {m}
    /\ UNCHANGED <<sent, done, shutdown_>>

Shutdown ==
    /\ shutdown_' = TRUE
    /\ UNCHANGED <<sent, running, done, lost>>

Next ==
    \/ \E m \in Msg : Submit(m) \/ Start(m) \/ Finish(m) \/ Lose(m)
    \/ Shutdown

Spec == Init /\ [][Next]_wqvars
=============================================================================
