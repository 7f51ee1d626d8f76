------------------------------ MODULE EventLoop ------------------------------
(***************************************************************************)
(* What a CORBA::Dispatcher promises the objects that register with it:    *)
(* a callback is made for what is registered at that moment and for        *)
(* nothing else, a timer is called when its time is over, never before,    *)
(* and timers whose time is over are called in the order of their times.   *)
(* Callbacks may register, remove and run the dispatcher again.            *)
(***************************************************************************)
EXTENDS Integers, Sequences, Functions

CONSTANTS
  Cb,       \* callback objects
  Watch,    \* file events: callback, kind of event, file descriptor
  Timer,    \* timers
  Owner,    \* the callback of each timer
  Timeout   \* the times they are set to

VARIABLES
  watched,  \* registered file events
  due,      \* the time left to each timer that is set
  calls     \* the callbacks being made, the innermost last

Init == watched = {} /\ due = <<>> /\ calls = <<>>

Register(w) == watched' = watched \cup {w} /\ UNCHANGED <<due, calls>>

SetTimer(t, n) ==
  /\ t \notin DOMAIN due
  /\ due' = [u \in DOMAIN due \cup {t} |-> IF u = t THEN n ELSE due[u]]
  /\ UNCHANGED <<watched, calls>>

\* remove(cb, e) for some kinds of events
Remove(cb, kinds) ==
  /\ watched' = {w \in watched : w.cb # cb \/ w.ev \notin kinds}
  /\ due' = IF "Timer" \in kinds THEN Restrict(due, {t \in DOMAIN due : Owner[t] # cb})
                                 ELSE due
  /\ UNCHANGED calls

CallFile(w) ==
  /\ w \in watched
  /\ calls' = Append(calls, w)
  /\ UNCHANGED <<watched, due>>

CallTimer(t) ==
  /\ t \in DOMAIN due /\ due[t] <= 0 /\ \A u \in DOMAIN due : due[t] <= due[u]
  /\ due' = Restrict(due, DOMAIN due \ {t})
  /\ calls' = Append(calls, t)
  /\ UNCHANGED watched

Return ==
  /\ calls # <<>>
  /\ calls' = SubSeq(calls, 1, Len(calls) - 1)
  /\ UNCHANGED <<watched, due>>

Tick == due' = [t \in DOMAIN due |-> due[t] - 1] /\ UNCHANGED <<watched, calls>>

Kinds == {{"Read"}, {"Write"}, {"Timer"}, {"Read", "Write", "Timer"}}

Next ==
  \/ \E w \in Watch : Register(w) \/ CallFile(w)
  \/ \E t \in Timer : CallTimer(t) \/ \E n \in Timeout : SetTimer(t, n)
  \/ \E cb \in Cb, kinds \in Kinds : Remove(cb, kinds)
  \/ Return \/ Tick

Spec == Init /\ [][Next]_<<watched, due, calls>>
=============================================================================
