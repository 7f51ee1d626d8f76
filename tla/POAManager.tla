------------------------------ MODULE POAManager ------------------------------
(***************************************************************************)
(* A POAManager and the POAs it manages (POAManager_impl and POA_impl in   *)
(* orb/poa_impl.cc): the application changes the manager's state and       *)
(* destroys POAs while workers of the ORB pool bring requests, which are   *)
(* executed, held in the POA's InvocationQueue, discarded or refused.      *)
(*                                                                         *)
(* The manager's _state, the POA's state and the queue have no lock;       *)
(* managed_lock protects the list of POAs, and destroy_lock_, a            *)
(* reader/writer lock of each POA, keeps destroy() out of the callback.    *)
(*                                                                         *)
(* The POAs have no children.  create_POA(), adapter activators, and       *)
(* requests that call the manager or destroy their POA are not modelled.   *)
(***************************************************************************)
EXTENDS Naturals, Sequences, FiniteSets

CONSTANTS
  POA,
  Persistent,   \* POAs with the PERSISTENT lifespan, the others are TRANSIENT
  Admin,        \* threads of the application
  Request,      \* requests, and the threads that bring them
  NoAdmin, NoPOA, NoReq

ASSUME ConstantsAssumption ==
  /\ Persistent \subseteq POA /\ Admin \cap Request = {} /\ IsFiniteSet(Request)
  /\ NoAdmin \notin Admin /\ NoPOA \notin POA /\ NoReq \notin Request

Thread == Admin \cup Request
State == {"HOLDING", "ACTIVE", "DISCARDING", "INACTIVE"}

VARIABLES
  mstate,      \* the manager's _state
  mlock,       \* who holds managed_lock
  managed,     \* the POAs in its list
  pstate,      \* the state of each POA
  destructed,
  registered,  \* AllPOAs: requests still find it
  dlock,       \* who holds destroy_lock_, see Callback and Destroy
  queue,       \* InvocationQueue
  answer,      \* what became of each request
  late,        \* requests held by a POA that no longer holds requests, see Push
  pc, poa,     \* where each thread is, and the POA it works on
  req,         \* the request it handles
  arg,         \* the state an application thread wants, or passes on
  left,        \* the POAs it has yet to tell
  raced        \* two threads have used a queue at once

managerVars == <<mstate, mlock, managed>>
poaVars == <<pstate, destructed, registered, dlock>>
requestVars == <<queue, answer, late>>
threadVars == <<pc, poa, req, arg, left>>
vars == <<managerVars, poaVars, requestVars, threadVars, raced>>

Pc == {"idle", "set", "lock", "tell", "callback", "drain", "flush", "remove", "end",
       "decide", "push", "run", "done"}

Types ==
  /\ mstate \in State /\ mlock \in Admin \cup {NoAdmin} /\ managed \subseteq POA
  /\ pstate \in [POA -> State]
  /\ destructed \in [POA -> BOOLEAN] /\ registered \in [POA -> BOOLEAN]
  /\ dlock \in [POA -> Admin \cup {NoAdmin}]
  /\ queue \in [POA -> Seq(Request)]
  /\ answer \in [Request -> {"none", "done", "TRANSIENT", "refused", "forward"}]
  /\ late \subseteq Request
  /\ pc \in [Thread -> Pc] /\ poa \in [Thread -> POA \cup {NoPOA}]
  /\ req \in [Thread -> Request \cup {NoReq}]
  /\ arg \in [Admin -> State] /\ left \in [Admin -> SUBSET POA]
  /\ raced \in BOOLEAN

\* types, and a queue never holds more requests than there are
TypeOK == Types /\ \A p \in POA : Len(queue[p]) <= Cardinality(Request)

Init ==
  /\ mstate = "HOLDING" /\ mlock = NoAdmin /\ managed = POA
  /\ pstate = [p \in POA |-> "HOLDING"]
  /\ destructed = [p \in POA |-> FALSE] /\ registered = [p \in POA |-> TRUE]
  /\ dlock = [p \in POA |-> NoAdmin]
  /\ queue = [p \in POA |-> <<>>] /\ answer = [r \in Request |-> "none"] /\ late = {}
  /\ pc = [t \in Thread |-> "idle"] /\ poa = [t \in Thread |-> NoPOA]
  /\ req = [t \in Thread |-> NoReq]
  /\ arg = [a \in Admin |-> "HOLDING"] /\ left = [a \in Admin |-> {}]
  /\ raced = FALSE

Go(t, l) == pc' = [pc EXCEPT ![t] = l]

BackToIdle(a) ==
  /\ Go(a, "idle")
  /\ poa' = [poa EXCEPT ![a] = NoPOA] /\ arg' = [arg EXCEPT ![a] = "HOLDING"]

(***************************************************************************)
(* local_invoke(req[t]) in poa[t]: by the thread that brings the request,  *)
(* or by one that goes through the queue.                                  *)
(***************************************************************************)

\* the request is dealt with: the thread goes on with what it does
Leave(t) ==
  /\ Go(t, IF t \in Request THEN "done" ELSE IF mlock = t THEN "drain" ELSE "flush")
  /\ req' = [req EXCEPT ![t] = NoReq]

Reply(t, what) ==
  /\ answer' = [answer EXCEPT ![req[t]] = what]
  /\ Leave(t)

\* the request is to be kept until the state of the POA changes
Holds(p) == \/ pstate[p] = "HOLDING"
            \/ pstate[p] = "INACTIVE" /\ p \in Persistent

Decide(t) ==
  LET p == poa[t] IN
  /\ pc[t] = "decide"
  /\ \/ /\ p \in Persistent /\ destructed[p] /\ Reply(t, "forward")
     \/ /\ ~(p \in Persistent /\ destructed[p])
        /\ \/ Holds(p) /\ Go(t, "push") /\ UNCHANGED <<answer, req>>
           \/ pstate[p] = "DISCARDING" /\ Reply(t, "TRANSIENT")
           \/ pstate[p] = "INACTIVE" /\ p \notin Persistent /\ Reply(t, "refused")
           \/ pstate[p] = "ACTIVE" /\ Go(t, "run") /\ UNCHANGED <<answer, req>>
  /\ UNCHANGED <<managerVars, poaVars, queue, late, poa, arg, left, raced>>

\* too late if the state has changed since, or destroy() has done with the queue
Push(t) ==
  LET p == poa[t] IN
  /\ pc[t] = "push"
  /\ queue' = [queue EXCEPT ![p] = Append(@, req[t])]
  /\ late' = IF Holds(p) /\ registered[p] THEN late ELSE late \cup {req[t]}
  /\ Leave(t)
  /\ UNCHANGED <<managerVars, poaVars, answer, poa, arg, left, raced>>

\* perform_invoke()
Run(t) ==
  /\ pc[t] = "run"
  /\ Reply(t, "done")
  /\ UNCHANGED <<managerVars, poaVars, queue, late, poa, arg, left, raced>>

\* a request for a POA that is not there is refused
Arrive(r, p) ==
  /\ pc[r] = "idle"
  /\ poa' = [poa EXCEPT ![r] = p]
  /\ IF registered[p]
       THEN Go(r, "decide") /\ req' = [req EXCEPT ![r] = r] /\ UNCHANGED answer
       ELSE Go(r, "done") /\ answer' = [answer EXCEPT ![r] = "refused"] /\ UNCHANGED req
  /\ UNCHANGED <<managerVars, poaVars, queue, late, arg, left, raced>>

(***************************************************************************)
(* POAManager_impl::change_state() and POA_impl::poa_manager_callback().   *)
(***************************************************************************)

ChangeState(a, s) ==
  /\ pc[a] = "idle" /\ mstate \notin {"INACTIVE", s}
  /\ Go(a, "set") /\ arg' = [arg EXCEPT ![a] = s]
  /\ UNCHANGED <<managerVars, poaVars, requestVars, poa, req, left, raced>>

SetState(a) ==
  /\ pc[a] = "set"
  /\ mstate' = arg[a]
  /\ Go(a, "lock")
  /\ UNCHANGED <<mlock, managed, poaVars, requestVars, poa, req, arg, left, raced>>

LockManaged(a) ==
  /\ pc[a] = "lock" /\ mlock = NoAdmin
  /\ mlock' = a /\ left' = [left EXCEPT ![a] = managed]
  /\ Go(a, "tell")
  /\ UNCHANGED <<mstate, managed, poaVars, requestVars, poa, req, arg, raced>>

\* mutant: the POAs are told the state this thread has set
Tell_Wanted(a) ==
  /\ pc[a] = "tell"
  /\ \E p \in left[a] :
       /\ poa' = [poa EXCEPT ![a] = p] /\ left' = [left EXCEPT ![a] = @ \ {p}]
       /\ Go(a, "callback")
  /\ UNCHANGED <<managerVars, poaVars, requestVars, req, arg, raced>>

\* the next POA is told _state, as it is now
Tell(a) ==
  /\ pc[a] = "tell"
  /\ \E p \in left[a] :
       /\ poa' = [poa EXCEPT ![a] = p] /\ left' = [left EXCEPT ![a] = @ \ {p}]
       /\ arg' = [arg EXCEPT ![a] = mstate]
       /\ Go(a, "callback")
  /\ UNCHANGED <<managerVars, poaVars, requestVars, req, raced>>

AllTold(a) ==
  /\ pc[a] = "tell" /\ left[a] = {}
  /\ mlock' = NoAdmin
  /\ BackToIdle(a)
  /\ UNCHANGED <<mstate, managed, poaVars, requestVars, req, left, raced>>

\* mutant of Callback: requests are left in the queue when they are to be discarded
Callback_NoDiscard(a) ==
  LET p == poa[a] IN
  /\ pc[a] = "callback" /\ dlock[p] = NoAdmin
  /\ IF destructed[p] THEN Go(a, "tell") /\ UNCHANGED <<pstate, dlock>>
     ELSE /\ pstate' = [pstate EXCEPT ![p] = arg[a]]
          /\ IF arg[a] = "ACTIVE"
               THEN dlock' = [dlock EXCEPT ![p] = a] /\ Go(a, "drain")
               ELSE UNCHANGED dlock /\ Go(a, "tell")
  /\ UNCHANGED <<managerVars, destructed, registered, requestVars, poa, req, arg, left, raced>>

\* with destroy_lock_ for reading; a POA that is being destroyed says nothing
Callback(a) ==
  LET p == poa[a] IN
  /\ pc[a] = "callback" /\ dlock[p] = NoAdmin
  /\ IF destructed[p] THEN Go(a, "tell") /\ UNCHANGED <<pstate, dlock>>
     ELSE /\ pstate' = [pstate EXCEPT ![p] = arg[a]]
          /\ IF arg[a] \in {"ACTIVE", "DISCARDING"}
               THEN dlock' = [dlock EXCEPT ![p] = a] /\ Go(a, "drain")
               ELSE UNCHANGED dlock /\ Go(a, "tell")
  /\ UNCHANGED <<managerVars, destructed, registered, requestVars, poa, req, arg, left, raced>>

\* mutant: the first request goes through local_invoke() again, but stays in the queue
TakeFirst_Keep(a) ==
  LET p == poa[a] IN
  /\ pc[a] \in {"drain", "flush"} /\ queue[p] # <<>>
  /\ req' = [req EXCEPT ![a] = Head(queue[p])]
  /\ Go(a, "decide")
  /\ UNCHANGED <<managerVars, poaVars, requestVars, poa, arg, left, raced>>

\* the first request of the queue goes through local_invoke() again
TakeFirst(a) ==
  LET p == poa[a] IN
  /\ pc[a] \in {"drain", "flush"} /\ queue[p] # <<>>
  /\ req' = [req EXCEPT ![a] = Head(queue[p])]
  /\ queue' = [queue EXCEPT ![p] = Tail(@)]
  /\ Go(a, "decide")
  /\ UNCHANGED <<managerVars, poaVars, answer, late, poa, arg, left, raced>>

Drained(a) ==
  /\ pc[a] = "drain" /\ queue[poa[a]] = <<>>
  /\ dlock' = [dlock EXCEPT ![poa[a]] = NoAdmin]
  /\ Go(a, "tell")
  /\ UNCHANGED <<managerVars, pstate, destructed, registered, requestVars, poa, req, arg,
                 left, raced>>

(***************************************************************************)
(* POA_impl::destroy().                                                    *)
(***************************************************************************)

\* with destroy_lock_ for writing
Destroy(a, p) ==
  /\ pc[a] = "idle" /\ dlock[p] = NoAdmin /\ ~destructed[p]
  /\ dlock' = [dlock EXCEPT ![p] = a]
  /\ destructed' = [destructed EXCEPT ![p] = TRUE]
  /\ poa' = [poa EXCEPT ![a] = p]
  /\ Go(a, "flush")
  /\ UNCHANGED <<managerVars, pstate, registered, requestVars, req, arg, left, raced>>

Unregister(a) ==
  /\ pc[a] = "flush" /\ queue[poa[a]] = <<>>
  /\ registered' = [registered EXCEPT ![poa[a]] = FALSE]
  /\ Go(a, "remove")
  /\ UNCHANGED <<managerVars, pstate, destructed, dlock, requestVars, poa, req, arg, left,
                 raced>>

\* del_managed_poa()
RemoveManaged(a) ==
  /\ pc[a] = "remove" /\ mlock = NoAdmin
  /\ managed' = managed \ {poa[a]}
  /\ Go(a, "end")
  /\ UNCHANGED <<mstate, mlock, poaVars, requestVars, poa, req, arg, left, raced>>

\* the objects are etherealized, see ActiveObjects
DestroyEnd(a) ==
  /\ pc[a] = "end"
  /\ dlock' = [dlock EXCEPT ![poa[a]] = NoAdmin]
  /\ BackToIdle(a)
  /\ UNCHANGED <<managerVars, pstate, destructed, registered, requestVars, req, left, raced>>

(***************************************************************************)
(* The queue is a vector without a lock: two threads that are about to use *)
(* it may do so at once, and anything may happen then.                     *)
(***************************************************************************)
UsesQueue(p) == {t \in Thread : poa[t] = p /\ pc[t] \in {"push", "drain", "flush"}}

DataRace ==
  /\ \E p \in POA : Cardinality(UsesQueue(p)) > 1
  /\ raced' = TRUE
  /\ UNCHANGED <<managerVars, poaVars, requestVars, threadVars>>

(***************************************************************************)
(* The specification.                                                      *)
(***************************************************************************)

LocalInvoke(t) == Decide(t) \/ Push(t) \/ Run(t)

Works(a) == \/ SetState(a) \/ LockManaged(a) \/ Tell(a) \/ AllTold(a) \/ Callback(a)
            \/ TakeFirst(a) \/ Drained(a)
            \/ Unregister(a) \/ RemoveManaged(a) \/ DestroyEnd(a)

Next ==
  /\ ~raced
  /\ \/ \E a \in Admin : \/ \E s \in State : ChangeState(a, s)
                         \/ \E p \in POA : Destroy(a, p)
                         \/ Works(a)
     \/ \E r \in Request, p \in POA : Arrive(r, p)
     \/ \E t \in Thread : LocalInvoke(t)
     \/ DataRace

\* threads run, with the state changes and the requests they have begun
Fairness ==
  /\ \A a \in Admin : WF_vars(~raced /\ (Works(a) \/ LocalInvoke(a)))
  /\ \A r \in Request : WF_vars(~raced /\ LocalInvoke(r))

Spec == Init /\ [][Next]_vars /\ Fairness

(***************************************************************************)
(* Properties.                                                             *)
(***************************************************************************)

Handlers(r) == {t \in Thread : req[t] = r}
Held(r) == {x \in UNION {{p} \X DOMAIN queue[p] : p \in POA} : queue[x[1]][x[2]] = r}

\* A request that has arrived and has no answer is in the hands of one thread
\* or in one queue, and one that was answered in neither: none is lost and
\* none executed twice, whatever the manager does meanwhile.
RequestInOnePlace ==
  \A r \in Request :
    Cardinality(Handlers(r)) + Cardinality(Held(r)) =
      (IF pc[r] # "idle" /\ answer[r] = "none" THEN 1 ELSE 0)

\* When no change of state is under way every POA is in the state of the
\* manager, even if two threads have changed it at once.
StatesAgree ==
  (\A a \in Admin : pc[a] = "idle") => \A p \in managed : pstate[p] = mstate

\* A POA that is active or discarding, or destroyed, has dealt with the
\* requests it held before; those it queues too late excepted.
AllServed ==
  \A r \in Request, p \in POA :
    (pc[r] # "idle" /\ poa[r] = p) ~>
      (\/ answer[r] # "none" \/ raced \/ r \in late
       \/ pstate[p] \in {"HOLDING", "INACTIVE"} /\ registered[p])
===============================================================================
