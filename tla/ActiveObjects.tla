---------------------------- MODULE ActiveObjects ----------------------------
(***************************************************************************)
(* The Active Object Map of a POA with the RETAIN policy (ObjectMap and    *)
(* POA_impl in orb/poa_impl.cc): objects are activated and deactivated by  *)
(* threads of the application while workers of the ORB pool execute        *)
(* requests for them, all under ObjectActivationLock except the up-calls.  *)
(*                                                                         *)
(* A deactivated object stays in the map until the last request for it has *)
(* ended; who wants to activate it again waits for that on a condition of  *)
(* the record.  ObjectActivationLock is recursive, and a worker that       *)
(* incarnates an object waits with the lock held twice, so that the wait   *)
(* releases it only once: see Dispatch.                                    *)
(*                                                                         *)
(* Each step is a section under the lock.  Servant managers that call the  *)
(* POA back, default servants, and direct calls of collocated stubs        *)
(* (preinvoke) are not modelled.                                           *)
(***************************************************************************)
EXTENDS Naturals, FiniteSets

CONSTANTS
  Id, Servant, NoServant,
  App,         \* threads of the application
  Worker,      \* threads that execute requests
  NoThread, NoId

ASSUME ConstantsAssumption ==
  /\ App \cap Worker = {} /\ NoThread \notin App \cup Worker
  /\ NoId \notin Id /\ NoServant \notin Servant
  /\ IsFiniteSet(Worker)

Thread == App \cup Worker

VARIABLES
  activator,   \* USE_SERVANT_MANAGER, else USE_ACTIVE_OBJECT_MAP_ONLY
  unique,      \* UNIQUE_ID, else MULTIPLE_ID
  phase,       \* the record of each object: none, active, leaving (active = FALSE)
  serv,        \* its servant
  cnt,         \* its invoke_cnt
  lock,        \* the thread that waits with ObjectActivationLock held
  closed,      \* etherealize() or destroy() has emptied the map
  pc,          \* idle, arrived, upcall, waiting, woken, stuck
  target,      \* the object of what each thread does
  with,        \* the servant an application thread is about to activate
  orphan       \* workers whose record was deleted under them

policyVars == <<activator, unique>>
mapVars == <<phase, serv, cnt>>
vars == <<policyVars, mapVars, lock, closed, pc, target, with, orphan>>

Pc == {"idle", "arrived", "upcall", "waiting", "woken", "stuck"}

TypeOK ==
  /\ activator \in BOOLEAN /\ unique \in BOOLEAN
  /\ phase \in [Id -> {"none", "active", "leaving"}]
  /\ serv \in [Id -> Servant \cup {NoServant}]
  /\ cnt \in [Id -> Nat] /\ \A i \in Id : cnt[i] <= Cardinality(Worker)
  /\ lock \in Worker \cup {NoThread} /\ closed \in BOOLEAN
  /\ pc \in [Thread -> Pc] /\ target \in [Thread -> Id \cup {NoId}]
  /\ with \in [App -> Servant \cup {NoServant}]
  /\ orphan \subseteq Worker

Init ==
  /\ activator \in BOOLEAN /\ unique \in BOOLEAN
  /\ phase = [i \in Id |-> "none"] /\ serv = [i \in Id |-> NoServant]
  /\ cnt = [i \in Id |-> 0]
  /\ lock = NoThread /\ closed = FALSE
  /\ pc = [t \in Thread |-> "idle"] /\ target = [t \in Thread |-> NoId]
  /\ with = [a \in App |-> NoServant] /\ orphan = {}

(***************************************************************************)
(* The map.                                                                *)
(***************************************************************************)

Exists(s) == \E i \in Id : serv[i] = s

Add(i, s, n) ==
  /\ phase' = [phase EXCEPT ![i] = "active"]
  /\ serv' = [serv EXCEPT ![i] = s]
  /\ cnt' = [cnt EXCEPT ![i] = n]

Del(i) ==
  /\ phase' = [phase EXCEPT ![i] = "none"]
  /\ serv' = [serv EXCEPT ![i] = NoServant]
  /\ cnt' = [cnt EXCEPT ![i] = 0]

\* the condition of the record is broadcast: those who wait on object i go on
Signalled(i) == {a \in App : pc[a] = "waiting" /\ target[a] = i}

Go(t, l) == pc' = [pc EXCEPT ![t] = l]

\* mutant: nobody is told
Remove_Silent(i, t) ==
  /\ phase[i] # "none"
  /\ Del(i)
  /\ Go(t, "idle")

\* remove_object(), at the end of what t does
Remove(i, t) ==
  /\ phase[i] # "none"                          \* the assertion
  /\ Del(i)
  /\ pc' = [u \in Thread |-> IF u = t THEN "idle"
                             ELSE IF u \in Signalled(i) THEN "woken" ELSE pc[u]]

(***************************************************************************)
(* The application.                                                        *)
(***************************************************************************)

\* activate_object_with_id(); activate_object() is the case of a new id
ActivateNow(a, i, s) ==
  IF phase[i] = "leaving"
    THEN /\ Go(a, "waiting")
         /\ target' = [target EXCEPT ![a] = i] /\ with' = [with EXCEPT ![a] = s]
         /\ UNCHANGED mapVars
    ELSE /\ IF phase[i] = "active" \/ (unique /\ Exists(s)) THEN UNCHANGED mapVars
                                                            ELSE Add(i, s, 0)
         /\ Go(a, "idle")
         /\ target' = [target EXCEPT ![a] = NoId] /\ with' = [with EXCEPT ![a] = NoServant]

ActivateObject(a, i, s) ==
  /\ lock = NoThread /\ pc[a] = "idle"
  /\ ActivateNow(a, i, s)
  /\ UNCHANGED <<policyVars, lock, closed, orphan>>

\* the wait returns, with the lock: the object is looked for again
Reactivate(a) ==
  /\ lock = NoThread /\ pc[a] = "woken"
  /\ ActivateNow(a, target[a], with[a])
  /\ UNCHANGED <<policyVars, lock, closed, orphan>>

\* mutant: the last request is left to remove it, even if there is none
DeactivateObject_Lazy(a, i) ==
  /\ lock = NoThread /\ pc[a] = "idle" /\ phase[i] # "none"
  /\ phase' = [phase EXCEPT ![i] = "leaving"]
  /\ UNCHANGED <<policyVars, serv, cnt, lock, closed, pc, target, with, orphan>>

DeactivateObject(a, i) ==
  /\ lock = NoThread /\ pc[a] = "idle" /\ phase[i] # "none"
  /\ IF cnt[i] = 0 THEN Remove(i, a)
     ELSE /\ phase' = [phase EXCEPT ![i] = "leaving"]
          /\ UNCHANGED <<serv, cnt, pc>>
  /\ UNCHANGED <<policyVars, lock, closed, target, with, orphan>>

\* etherealize() or ObjectMap::clear(): all records go, those that requests
\* execute on and those that are waited for too, and no condition is signalled
Cleanup ==
  /\ lock = NoThread /\ ~closed
  /\ closed' = TRUE
  /\ phase' = [i \in Id |-> "none"] /\ serv' = [i \in Id |-> NoServant]
  /\ cnt' = [i \in Id |-> 0]
  /\ orphan' = {w \in Worker : pc[w] = "upcall"}
  /\ UNCHANGED <<policyVars, lock, pc, target, with>>

(***************************************************************************)
(* Requests: perform_invoke().                                             *)
(***************************************************************************)

\* local_invoke() has found the POA active, which it may no longer be
Arrive(w, i) ==
  /\ pc[w] = "idle" /\ ~closed
  /\ Go(w, "arrived") /\ target' = [target EXCEPT ![w] = i]
  /\ UNCHANGED <<policyVars, mapVars, lock, closed, with, orphan>>

\* the object is active: nobody removes it now
Found(w) ==
  LET i == target[w] IN
  /\ lock = NoThread /\ pc[w] = "arrived" /\ phase[i] = "active"
  /\ cnt' = [cnt EXCEPT ![i] = @ + 1]
  /\ Go(w, "upcall")
  /\ UNCHANGED <<policyVars, phase, serv, lock, closed, target, with, orphan>>

\* no servant, or none that may serve the object: the request fails
NotFound(w) ==
  /\ lock = NoThread /\ pc[w] = "arrived" /\ phase[target[w]] # "active"
  /\ Go(w, "idle") /\ target' = [target EXCEPT ![w] = NoId]
  /\ UNCHANGED <<policyVars, mapVars, lock, closed, with, orphan>>

\* the servant manager incarnates the object.  If the object is leaving,
\* activate_object_with_id() waits, with the lock held.
Incarnate(w, s) ==
  LET i == target[w] IN
  /\ lock = NoThread /\ pc[w] = "arrived" /\ phase[i] # "active"
  /\ activator /\ ~(unique /\ Exists(s))
  /\ IF phase[i] = "leaving"
       THEN lock' = w /\ Go(w, "stuck") /\ UNCHANGED mapVars
       ELSE Add(i, s, 1) /\ Go(w, "upcall") /\ UNCHANGED lock
  /\ UNCHANGED <<policyVars, closed, target, with, orphan>>

\* mutant: whoever ends first removes the object
Finish_First(w) ==
  LET i == target[w] IN
  /\ lock = NoThread /\ pc[w] = "upcall" /\ w \notin orphan
  /\ IF phase[i] = "leaving" THEN Remove(i, w)
     ELSE /\ cnt[i] > 0
          /\ cnt' = [cnt EXCEPT ![i] = @ - 1]
          /\ Go(w, "idle") /\ UNCHANGED <<phase, serv>>
  /\ target' = [target EXCEPT ![w] = NoId]
  /\ UNCHANGED <<policyVars, lock, closed, with, orphan>>

\* mutant: the count is given back with the last request only
Finish_KeepsCount(w) ==
  LET i == target[w] IN
  /\ lock = NoThread /\ pc[w] = "upcall" /\ w \notin orphan
  /\ IF cnt[i] = 1 /\ phase[i] = "leaving" THEN Remove(i, w)
     ELSE Go(w, "idle") /\ UNCHANGED mapVars
  /\ target' = [target EXCEPT ![w] = NoId]
  /\ UNCHANGED <<policyVars, lock, closed, with, orphan>>

\* the up-call has returned.  What becomes of a request whose record was
\* deleted is not followed.
Finish(w) ==
  LET i == target[w] IN
  /\ lock = NoThread /\ pc[w] = "upcall" /\ w \notin orphan
  /\ IF cnt[i] = 1 /\ phase[i] = "leaving" THEN Remove(i, w)
     ELSE /\ cnt[i] > 0
          /\ cnt' = [cnt EXCEPT ![i] = @ - 1]
          /\ Go(w, "idle") /\ UNCHANGED <<phase, serv>>
  /\ target' = [target EXCEPT ![w] = NoId]
  /\ UNCHANGED <<policyVars, lock, closed, with, orphan>>

(***************************************************************************)
(* The specification.                                                      *)
(***************************************************************************)

Next ==
  \/ \E a \in App : \/ \E i \in Id : \/ \E s \in Servant : ActivateObject(a, i, s)
                                     \/ DeactivateObject(a, i)
                    \/ Reactivate(a)
  \/ Cleanup
  \/ \E w \in Worker : \/ \E i \in Id : Arrive(w, i)
                       \/ Found(w) \/ NotFound(w) \/ Finish(w)
                       \/ \E s \in Servant : Incarnate(w, s)

\* threads run and up-calls return
Fairness ==
  /\ \A a \in App : WF_vars(Reactivate(a))
  /\ \A w \in Worker : WF_vars(Found(w) \/ NotFound(w)) /\ WF_vars(Finish(w))

Spec == Init /\ [][Next]_vars /\ Fairness

(***************************************************************************)
(* Properties.                                                             *)
(***************************************************************************)

Busy == [i \in Id |-> {w \in Worker \ orphan : pc[w] = "upcall" /\ target[w] = i}]

\* A record is there as long as it is needed and no longer: invoke_cnt counts
\* the requests that execute, an object that was deactivated stays only for
\* these, and those who wait to activate it again wait for no other.
RecordsExact ==
  \A i \in Id :
    /\ cnt[i] = Cardinality(Busy[i])
    /\ phase[i] = "leaving" => cnt[i] > 0
    /\ phase[i] = "none" => cnt[i] = 0
    /\ phase[i] = "none" <=> serv[i] = NoServant
    /\ Signalled(i) # {} => phase[i] = "leaving" \/ closed

I == INSTANCE Incarnation WITH Request <- Worker, busy <- Busy

\* The POA keeps what it promises, whatever the interleaving of activation,
\* deactivation and requests: one servant per object, no request after the
\* deactivation, and the servant is let go after the last request.
ImplementsIncarnation == I!Spec

\* A deactivated object goes in the end and those who wait to activate it
\* again get the lock, unless a worker waits with it or the map was emptied.
DeactivationEnds ==
  \A i \in Id :
    /\ phase[i] = "leaving" ~> (phase[i] # "leaving" \/ lock # NoThread)
    /\ \A a \in App : (pc[a] = "waiting" /\ target[a] = i) ~>
                      (pc[a] = "idle" \/ pc[a] = "woken" \/ closed \/ lock # NoThread)
===============================================================================
