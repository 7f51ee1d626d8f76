--------------------------- MODULE POAManagerProofs ---------------------------
(***************************************************************************)
(* Proofs about POAManager for any POAs, application threads and requests: *)
(* the types, that all POAs of a manager end in its state, and that every  *)
(* request is in one place until it is answered.                           *)
(*                                                                         *)
(* StatesAgree speaks of the moments when no thread is at work.  Inv says  *)
(* why it holds then: each POA is in the manager's state, or a thread will *)
(* still tell it (Agree), because a thread that tells the POAs has         *)
(* managed_lock (Locks) and a POA that says nothing is one that destroy()  *)
(* has taken off the list (Destroyed).                                     *)
(***************************************************************************)
EXTENDS POAManager, FiniteSetTheorems, TLAPS

InPOA == {"drain", "flush", "remove", "end", "decide", "push", "run"}
Telling == {"tell", "callback", "drain"}
Destroying == {"flush", "remove", "end"}
Invoking == {"decide", "push", "run"}

\* what each thread works on
Requests ==
  \A t \in Thread :
    /\ pc[t] \in Invoking => poa[t] \in POA /\ req[t] \in Request
    /\ t \in Request => pc[t] \in Invoking \cup {"idle", "done"}

\* which locks an application thread holds
Locks ==
  \A a \in Admin :
    /\ pc[a] # "done"
    /\ pc[a] \in Telling => mlock = a
    /\ mlock = a => pc[a] \in Telling \cup Invoking
    /\ pc[a] = "callback" => poa[a] \in POA
    /\ pc[a] \in InPOA => /\ poa[a] \in POA /\ dlock[poa[a]] = a
                          /\ destructed[poa[a]] <=> mlock # a

\* a POA that is destroyed is locked until it has left the manager's list
Destroyed ==
  /\ \A p \in managed : destructed[p] => dlock[p] # NoAdmin
  /\ \A a \in Admin : pc[a] = "end" => poa[a] \notin managed

\* every POA is in the manager's state or will be told
Agree ==
  \/ \E a \in Admin : pc[a] = "lock"
  \/ /\ \A p \in managed :
          \/ pstate[p] = mstate
          \/ \E a \in Admin : /\ mlock = a
                              /\ p \in left[a] \/ (pc[a] = "callback" /\ poa[a] = p)
     /\ \A a \in Admin : pc[a] = "callback" => arg[a] = mstate

Inv == Types /\ Requests /\ Locks /\ Destroyed /\ Agree

-----------------------------------------------------------------------------
\* The invariant holds at first.
LEMMA InitInv == Init => Inv
<1> SUFFICES ASSUME Init PROVE Inv
  OBVIOUS
<1>1. Types
  <2>4. <<>> \in Seq(Request)
    OBVIOUS
  <2>5. queue \in [POA -> Seq(Request)]
    BY <2>4 DEF Init
  <2>1. /\ answer \in [Request -> {"none", "done", "TRANSIENT", "refused", "forward"}]
        /\ late \subseteq Request /\ raced \in BOOLEAN
    BY DEF Init
  <2>2. /\ mstate \in State /\ mlock \in Admin \cup {NoAdmin} /\ managed \subseteq POA
        /\ pstate \in [POA -> State]
        /\ destructed \in [POA -> BOOLEAN] /\ registered \in [POA -> BOOLEAN]
        /\ dlock \in [POA -> Admin \cup {NoAdmin}]
    BY DEF Init, State
  <2>3. /\ pc \in [Thread -> Pc] /\ poa \in [Thread -> POA \cup {NoPOA}]
        /\ req \in [Thread -> Request \cup {NoReq}]
        /\ arg \in [Admin -> State] /\ left \in [Admin -> SUBSET POA]
    BY DEF Init, State, Pc
  <2> QED
    BY <2>1, <2>2, <2>3, <2>5 DEF Types
<1>2. \A t \in Thread : pc[t] = "idle"
  BY DEF Init
<1>3. Requests
  BY <1>2 DEF Requests, Invoking
<1>4. Locks
  BY <1>2, ConstantsAssumption DEF Init, Locks, InPOA, Telling, Thread
<1>5. Destroyed
  BY <1>2 DEF Init, Destroyed, Thread
<1>6. Agree
  BY <1>2 DEF Init, Agree, Thread
<1> QED
  BY <1>1, <1>3, <1>4, <1>5, <1>6 DEF Inv

\* local_invoke() changes neither the manager nor the POAs, and a thread that
\* is done with a request goes on with what it did.
LEMMA InvokeInv ==
  ASSUME Inv, NEW t \in Thread, LocalInvoke(t)
  PROVE  Inv'
<1> USE DEF Inv
<1>1. /\ UNCHANGED <<managerVars, poaVars, poa, arg, left, raced>>
      /\ pc[t] \in Invoking /\ poa[t] \in POA /\ req[t] \in Request
  BY DEF LocalInvoke, Decide, Push, Run, Invoking, Requests
<1>2. \/ Go(t, "push") /\ req' = req
      \/ Go(t, "run") /\ req' = req
      \/ Leave(t)
  BY DEF LocalInvoke, Decide, Push, Run, Reply, Leave, Go
<1>3. /\ answer' \in [Request -> {"none", "done", "TRANSIENT", "refused", "forward"}]
      /\ queue' \in [POA -> Seq(Request)] /\ late' \subseteq Request
  <2>1. CASE Decide(t)
    BY <1>1, <2>1 DEF Decide, Reply, Types
  <2>2. CASE Push(t)
    <3>1. Append(queue[poa[t]], req[t]) \in Seq(Request)
      BY <1>1 DEF Types
    <3> QED
      BY <1>1, <2>2, <3>1 DEF Push, Types
  <2>3. CASE Run(t)
    BY <1>1, <2>3 DEF Run, Reply, Types
  <2> QED
    BY <2>1, <2>2, <2>3 DEF LocalInvoke
<1>4. /\ req' \in [Thread -> Request \cup {NoReq}]
      /\ \A u \in Thread : pc'[u] \in Invoking => req'[u] \in Request
      /\ pc' \in [Thread -> Pc]
      /\ \A u \in Thread : u # t => pc'[u] = pc[u]
      /\ t \in Request => pc'[t] \in Invoking \cup {"done"}
      /\ t \in Admin => pc'[t] \in Invoking \cup {IF mlock = t THEN "drain" ELSE "flush"}
  <2>1. /\ pc \in [Thread -> Pc] /\ req \in [Thread -> Request \cup {NoReq}]
        /\ \A u \in Thread : pc[u] \in Invoking => req[u] \in Request
        /\ Admin \cap Request = {} /\ t \in Thread
    BY ConstantsAssumption DEF Types, Requests
  <2>2. ASSUME NEW l \in Pc, Go(t, l)
        PROVE  pc' \in [Thread -> Pc] /\ \A u \in Thread : pc'[u] = IF u = t THEN l ELSE pc[u]
    BY <2>1, <2>2 DEF Go
  <2>3. CASE req' = req /\ \E l \in {"push", "run"} : Go(t, l)
    <3>1. PICK l \in {"push", "run"} : Go(t, l)
      BY <2>3
    <3>2. l \in Pc /\ l \in Invoking
      BY DEF Pc, Invoking
    <3>3. /\ pc' \in [Thread -> Pc]
          /\ \A u \in Thread : pc'[u] = IF u = t THEN l ELSE pc[u]
      BY <2>2, <3>1, <3>2
    <3> QED
      BY <1>1, <2>1, <2>3, <3>2, <3>3
  <2>4. CASE Leave(t)
    <3> DEFINE l == IF t \in Request THEN "done" ELSE IF mlock = t THEN "drain" ELSE "flush"
    <3>1. Go(t, l) /\ req' = [req EXCEPT ![t] = NoReq]
      BY <2>4 DEF Leave
    <3>2. /\ l \in Pc /\ l \notin Invoking
          /\ t \in Request => l = "done"
          /\ t \in Admin => l = IF mlock = t THEN "drain" ELSE "flush"
      BY <2>1 DEF Pc, Invoking
    <3> HIDE DEF l
    <3>3. /\ pc' \in [Thread -> Pc]
          /\ \A u \in Thread : pc'[u] = IF u = t THEN l ELSE pc[u]
      BY <2>2, <3>1, <3>2
    <3>4. /\ req' \in [Thread -> Request \cup {NoReq}]
          /\ \A u \in Thread : u # t => req'[u] = req[u]
      BY <2>1, <3>1
    <3> QED
      BY <2>1, <3>2, <3>3, <3>4
  <2> QED
    BY <1>2, <2>3, <2>4
<1>5. Types'
  BY <1>1, <1>3, <1>4 DEF Types, managerVars, poaVars
<1>6. Requests'
  BY <1>1, <1>4 DEF Requests, Types
<1>7. Locks'
  BY <1>1, <1>4 DEF Locks, Types, managerVars, poaVars, Invoking, Telling, InPOA, Thread
<1>8. Destroyed'
  BY <1>1, <1>4 DEF Destroyed, Types, managerVars, poaVars, Invoking, Thread
<1>9. Agree'
  BY <1>1, <1>4 DEF Agree, Types, managerVars, poaVars, Invoking, Thread
<1> QED
  BY <1>5, <1>6, <1>7, <1>8, <1>9

\* change_state() and the callbacks it makes
LEMMA ChangeInv ==
  ASSUME Inv, NEW a \in Admin,
         \/ \E s \in State : ChangeState(a, s)
         \/ SetState(a) \/ LockManaged(a) \/ Tell(a) \/ AllTold(a)
  PROVE  Inv'
<1> USE DEF Inv
<1>1. CASE \E s \in State : ChangeState(a, s)
  <2>1. Types' /\ Requests'
    BY <1>1, ConstantsAssumption DEF ChangeState, Go, Types, Requests, Invoking, Pc, Thread,
       managerVars, poaVars, requestVars
  <2>2. Locks' /\ Destroyed' /\ Agree'
    BY <1>1, ConstantsAssumption DEF ChangeState, Go, Types, Locks, Destroyed, Agree,
       Invoking, Telling, InPOA, Thread, managerVars, poaVars
  <2> QED
    BY <2>1, <2>2
<1>2. CASE SetState(a)
  <2>1. Types' /\ Requests'
    BY <1>2, ConstantsAssumption DEF SetState, Go, Types, Requests, Invoking, Pc, Thread,
       poaVars, requestVars
  <2>2. Locks' /\ Destroyed' /\ Agree'
    BY <1>2, ConstantsAssumption DEF SetState, Go, Types, Locks, Destroyed, Agree,
       Invoking, Telling, InPOA, Thread, poaVars
  <2> QED
    BY <2>1, <2>2
<1>3. CASE LockManaged(a)
  <2>1. Types' /\ Requests'
    BY <1>3, ConstantsAssumption DEF LockManaged, Go, Types, Requests, Invoking, Pc, Thread,
       poaVars, requestVars
  <2>2. Locks' /\ Destroyed'
    BY <1>3, ConstantsAssumption DEF LockManaged, Go, Types, Locks, Destroyed,
       Invoking, Telling, InPOA, Thread, poaVars
  <2>3. \A b \in Admin : pc'[b] # "callback"
    BY <1>3, ConstantsAssumption DEF LockManaged, Go, Types, Locks, Telling, Thread
  <2>4. \A p \in managed' : mlock' = a /\ p \in left'[a]
    BY <1>3 DEF LockManaged, Types
  <2> QED
    BY <2>1, <2>2, <2>3, <2>4 DEF Agree
<1>4. CASE Tell(a)
  <2>1. PICK p \in left[a] :
          /\ poa' = [poa EXCEPT ![a] = p] /\ left' = [left EXCEPT ![a] = @ \ {p}]
          /\ arg' = [arg EXCEPT ![a] = mstate] /\ Go(a, "callback")
          /\ pc[a] = "tell" /\ mlock = a /\ p \in POA
          /\ UNCHANGED <<managerVars, poaVars, requestVars, req, raced>>
    BY <1>4 DEF Tell, Locks, Telling, Types
  <2>2. Types' /\ Requests'
    BY <2>1, ConstantsAssumption DEF Go, Types, Requests, Invoking, Pc, Thread,
       managerVars, poaVars, requestVars
  <2>3. Locks' /\ Destroyed'
    BY <2>1, ConstantsAssumption DEF Go, Types, Locks, Destroyed,
       Invoking, Telling, InPOA, Thread, managerVars, poaVars
  <2>4. Agree'
    BY <2>1, ConstantsAssumption DEF Go, Types, Agree, Locks, Telling, Thread,
       managerVars, poaVars
  <2> QED
    BY <2>2, <2>3, <2>4
<1>5. CASE AllTold(a)
  <2>1. Types' /\ Requests'
    BY <1>5, ConstantsAssumption DEF AllTold, BackToIdle, Go, Types, Requests, Invoking, Pc,
       Thread, State, poaVars, requestVars
  <2>2. Locks' /\ Destroyed'
    BY <1>5, ConstantsAssumption DEF AllTold, BackToIdle, Go, Types, Locks, Destroyed,
       Invoking, Telling, InPOA, Thread, poaVars
  <2>3. Agree'
    <3>1. /\ pc[a] = "tell" /\ left[a] = {} /\ UNCHANGED <<mstate, managed, pstate>>
          /\ mlock = a
      BY <1>5 DEF AllTold, Locks, Telling, poaVars
    <3>2. \A b \in Admin : pc'[b] = IF b = a THEN "idle" ELSE pc[b]
      BY <1>5 DEF AllTold, BackToIdle, Go, Types, Thread
    <3>3. CASE \E b \in Admin : pc[b] = "lock"
      BY <3>1, <3>2, <3>3 DEF Agree
    <3>4. CASE ~ \E b \in Admin : pc[b] = "lock"
      <4>1. \A p \in managed : pstate[p] = mstate
        BY <3>1, <3>4 DEF Agree
      <4>2. \A b \in Admin : pc'[b] # "callback"
        BY <3>1, <3>2 DEF Locks, Telling
      <4> QED
        BY <3>1, <4>1, <4>2 DEF Agree
    <3> QED
      BY <3>3, <3>4
  <2> QED
    BY <2>1, <2>2, <2>3
<1> QED
  BY <1>1, <1>2, <1>3, <1>4, <1>5

\* poa_manager_callback() itself: the POA is told, and its requests go through
\* local_invoke() again
LEMMA CallbackInv ==
  ASSUME Inv, NEW a \in Admin, Callback(a) \/ TakeFirst(a) \/ Drained(a)
  PROVE  Inv'
<1> USE DEF Inv
<1>1. CASE Callback(a)
  <2> DEFINE p == poa[a]
  <2>1. /\ pc[a] = "callback" /\ mlock = a /\ p \in POA /\ dlock[p] = NoAdmin
        /\ pc' = [pc EXCEPT ![a] = pc'[a]]
        /\ UNCHANGED <<managerVars, destructed, registered, requestVars, poa, req, arg, left,
                       raced>>
    BY <1>1 DEF Callback, Locks, Telling, Go, Types, Thread
  <2>2. \/ destructed[p] /\ pc'[a] = "tell" /\ UNCHANGED <<pstate, dlock>>
        \/ /\ ~destructed[p] /\ pstate' = [pstate EXCEPT ![p] = arg[a]]
           /\ \/ dlock' = [dlock EXCEPT ![p] = a] /\ pc'[a] = "drain"
              \/ dlock' = dlock /\ pc'[a] = "tell"
    BY <1>1 DEF Callback, Go, Types, Thread
  <2>3. /\ pstate' \in [POA -> State] /\ dlock' \in [POA -> Admin \cup {NoAdmin}]
        /\ pc' \in [Thread -> Pc]
        /\ \A t \in Thread : pc'[t] \in Invoking => pc[t] \in Invoking
        /\ \A t \in Request : pc'[t] = pc[t]
    <3>1. pstate' \in [POA -> State] /\ dlock' \in [POA -> Admin \cup {NoAdmin}]
      <4>1. arg[a] \in State /\ p \in POA
        BY <2>1 DEF Types
      <4> HIDE DEF p
      <4> QED
        BY <4>1, <2>2 DEF Types
    <3>2. pc'[a] \in {"tell", "drain"} /\ a \notin Request
      BY <2>2, ConstantsAssumption
    <3> HIDE DEF p
    <3>3. /\ pc' \in [Thread -> Pc]
          /\ \A t \in Thread : t # a => pc'[t] = pc[t]
      BY <2>1, <3>2 DEF Types, Pc
    <3> QED
      BY <3>1, <3>2, <3>3 DEF Invoking, Thread
  <2>9. Types' /\ Requests'
    BY <2>1, <2>3 DEF Types, Requests, Thread, managerVars, requestVars
  <2>4. \A b \in Admin : b # a => pc[b] \notin Telling /\ mlock # b
    BY <2>1 DEF Locks
  <2>5. Locks'
    BY <2>1, <2>2, <2>4, ConstantsAssumption DEF Types, Locks, Telling, InPOA, Invoking,
       Thread, managerVars
  <2>6. Destroyed'
    BY <2>1, <2>2, ConstantsAssumption DEF Types, Destroyed, Thread, managerVars
  <2>7. p \in managed => ~destructed[p]
    BY <2>1 DEF Destroyed
  <2>8. Agree'
    <3>1. CASE \E b \in Admin : pc[b] = "lock"
      BY <2>1, <3>1 DEF Agree, Types, Thread
    <3>2. CASE ~ \E b \in Admin : pc[b] = "lock"
      <4>1. arg[a] = mstate
        BY <3>2, <2>1 DEF Agree
      <4>2. \A q \in managed : pstate'[q] = mstate \/ q \in left[a]
        <5>1. \A q \in managed : pstate[q] = mstate \/ q \in left[a] \/ q = p
          BY <3>2, <2>1, <2>4 DEF Agree
        <5>2. p \in managed => pstate'[p] = mstate
          BY <2>1, <2>2, <2>7, <4>1 DEF Types
        <5>3. \A q \in POA : q # p => pstate'[q] = pstate[q]
          BY <2>2 DEF Types
        <5> QED
          <6> SUFFICES ASSUME NEW q \in managed PROVE pstate'[q] = mstate \/ q \in left[a]
            OBVIOUS
          <6>1. q \in POA
            BY DEF Types
          <6> HIDE DEF p
          <6> QED
            BY <5>1, <5>2, <5>3, <6>1
      <4>3. \A b \in Admin : pc'[b] # "callback"
        BY <2>1, <2>2, <2>4 DEF Types, Telling, Thread
      <4> QED
        BY <2>1, <4>2, <4>3 DEF Agree, managerVars
    <3> QED
      BY <3>1, <3>2
  <2> QED
    BY <2>9, <2>5, <2>6, <2>8
<1>2. CASE TakeFirst(a)
  <2>1. /\ pc[a] \in {"drain", "flush"} /\ poa[a] \in POA /\ queue[poa[a]] # <<>>
        /\ req' = [req EXCEPT ![a] = Head(queue[poa[a]])]
        /\ queue' = [queue EXCEPT ![poa[a]] = Tail(@)]
        /\ Go(a, "decide")
        /\ UNCHANGED <<managerVars, poaVars, answer, late, poa, arg, left, raced>>
    BY <1>2 DEF TakeFirst, Locks, InPOA
  <2>2. Head(queue[poa[a]]) \in Request /\ Tail(queue[poa[a]]) \in Seq(Request)
    BY <2>1 DEF Types
  <2>3. Types' /\ Requests'
    BY <2>1, <2>2, ConstantsAssumption DEF Go, Types, Requests, Invoking, Pc, Thread,
       managerVars, poaVars
  <2>4. Locks' /\ Destroyed' /\ Agree'
    BY <2>1, ConstantsAssumption DEF Go, Types, Locks, Destroyed, Agree, Telling, InPOA,
       Invoking, Thread, managerVars, poaVars
  <2> QED
    BY <2>3, <2>4
<1>3. CASE Drained(a)
  <2>1. /\ pc[a] = "drain" /\ mlock = a /\ poa[a] \in POA /\ dlock[poa[a]] = a
        /\ ~destructed[poa[a]]
    BY <1>3 DEF Drained, Locks, Telling, InPOA
  <2>2. Types' /\ Requests'
    BY <1>3, ConstantsAssumption DEF Drained, Go, Types, Requests, Invoking, Pc, Thread,
       managerVars, requestVars
  <2>3. Locks'
    BY <1>3, <2>1, ConstantsAssumption DEF Drained, Go, Types, Locks, Telling, InPOA,
       Invoking, Thread, managerVars
  <2>4. Destroyed'
    BY <1>3, <2>1, ConstantsAssumption DEF Drained, Go, Types, Destroyed, Thread, managerVars
  <2>5. Agree'
    BY <1>3, <2>1, ConstantsAssumption DEF Drained, Go, Types, Agree, Thread, managerVars
  <2> QED
    BY <2>2, <2>3, <2>4, <2>5
<1> QED
  BY <1>1, <1>2, <1>3

\* destroy()
LEMMA DestroyInv ==
  ASSUME Inv, NEW a \in Admin,
         \/ \E p \in POA : Destroy(a, p)
         \/ Unregister(a) \/ RemoveManaged(a) \/ DestroyEnd(a)
  PROVE  Inv'
<1> USE DEF Inv
<1>1. CASE \E p \in POA : Destroy(a, p)
  <2>1. PICK p \in POA : Destroy(a, p)
    BY <1>1
  <2>2. mlock # a
    BY <2>1 DEF Destroy, Locks, Telling, Invoking
  <2>3. Types' /\ Requests'
    BY <2>1, ConstantsAssumption DEF Destroy, Go, Types, Requests, Invoking, Pc, Thread,
       managerVars, requestVars
  <2>4. Locks'
    BY <2>1, <2>2, ConstantsAssumption DEF Destroy, Go, Types, Locks, Telling, InPOA,
       Invoking, Thread, managerVars
  <2>5. Destroyed' /\ Agree'
    BY <2>1, ConstantsAssumption DEF Destroy, Go, Types, Destroyed, Agree, Thread, managerVars
  <2> QED
    BY <2>3, <2>4, <2>5
<1>2. CASE Unregister(a)
  <2>1. Types' /\ Requests'
    BY <1>2, ConstantsAssumption DEF Unregister, Go, Types, Requests, Locks, InPOA, Invoking,
       Pc, Thread, managerVars, requestVars
  <2>2. Locks'
    BY <1>2, ConstantsAssumption DEF Unregister, Go, Types, Locks, Telling, InPOA, Invoking,
       Thread, managerVars
  <2>3. Destroyed' /\ Agree'
    BY <1>2, ConstantsAssumption DEF Unregister, Go, Types, Destroyed, Agree, Thread,
       managerVars
  <2> QED
    BY <2>1, <2>2, <2>3
<1>3. CASE RemoveManaged(a)
  <2>1. Types' /\ Requests'
    BY <1>3, ConstantsAssumption DEF RemoveManaged, Go, Types, Requests, Invoking, Pc, Thread,
       poaVars, requestVars
  <2>2. Locks'
    BY <1>3, ConstantsAssumption DEF RemoveManaged, Go, Types, Locks, Telling, InPOA,
       Invoking, Thread, poaVars
  <2>3. Destroyed' /\ Agree'
    BY <1>3, ConstantsAssumption DEF RemoveManaged, Go, Types, Destroyed, Agree, Thread,
       poaVars
  <2> QED
    BY <2>1, <2>2, <2>3
<1>4. CASE DestroyEnd(a)
  <2>1. /\ pc[a] = "end" /\ poa[a] \in POA /\ dlock[poa[a]] = a /\ poa[a] \notin managed
    BY <1>4 DEF DestroyEnd, Locks, InPOA, Destroyed
  <2>2. Types' /\ Requests'
    BY <1>4, ConstantsAssumption DEF DestroyEnd, BackToIdle, Go, Types, Requests, Invoking,
       Pc, State, Thread, managerVars, requestVars
  <2>3. Locks'
    BY <1>4, <2>1, ConstantsAssumption DEF DestroyEnd, BackToIdle, Go, Types, Locks, Telling,
       InPOA, Invoking, Thread, managerVars
  <2>4. Destroyed'
    BY <1>4, <2>1, ConstantsAssumption DEF DestroyEnd, BackToIdle, Go, Types, Destroyed,
       Thread, managerVars
  <2>5. Agree'
    BY <1>4, ConstantsAssumption DEF DestroyEnd, BackToIdle, Go, Types, Agree, Thread,
       managerVars
  <2> QED
    BY <2>2, <2>3, <2>4, <2>5
<1> QED
  BY <1>1, <1>2, <1>3, <1>4

\* a request comes
LEMMA ArriveInv ==
  ASSUME Inv, NEW r \in Request, NEW p \in POA, Arrive(r, p)
  PROVE  Inv'
<1> USE DEF Inv
<1>1. Types' /\ Requests'
  <2>1. /\ answer' \in [Request -> {"none", "done", "TRANSIENT", "refused", "forward"}]
        /\ req' \in [Thread -> Request \cup {NoReq}] /\ pc' \in [Thread -> Pc]
        /\ poa' \in [Thread -> POA \cup {NoPOA}]
    BY DEF Arrive, Go, Types, Pc, Thread
  <2>2. /\ \A t \in Thread : t # r => UNCHANGED <<pc[t], req[t], poa[t]>>
        /\ poa'[r] = p /\ \/ pc'[r] = "decide" /\ req'[r] = r
                          \/ pc'[r] = "done"
    BY DEF Arrive, Go, Types, Thread
  <2>3. Types'
    BY <2>1 DEF Arrive, Types, managerVars, poaVars
  <2> QED
    BY <2>2, <2>3 DEF Requests, Invoking, Thread
<1>2. \A a \in Admin : pc'[a] = pc[a] /\ poa'[a] = poa[a]
  BY ConstantsAssumption DEF Arrive, Go, Types, Thread
<1>3. Locks' /\ Destroyed' /\ Agree'
  BY <1>2 DEF Arrive, Locks, Destroyed, Agree, managerVars, poaVars
<1> QED
  BY <1>1, <1>3

-----------------------------------------------------------------------------
\* The inductive invariant of the manager and its POAs: who holds which lock,
\* and that a POA in another state than the manager will be told.
THEOREM Invariance == Spec => []Inv
<1>1. Inv /\ [Next]_vars => Inv'
  <2> SUFFICES ASSUME Inv, [Next]_vars PROVE Inv'
    OBVIOUS
  <2>1. CASE UNCHANGED vars \/ DataRace
    <3>1. /\ UNCHANGED <<managerVars, poaVars, requestVars, threadVars>>
          /\ raced' \in BOOLEAN
      BY <2>1 DEF DataRace, vars, Inv, Types
    <3>2. Types'
      BY <3>1 DEF Inv, Types, managerVars, poaVars, requestVars, threadVars
    <3>3. Requests' /\ Locks' /\ Destroyed' /\ Agree'
      BY <3>1 DEF Inv, Requests, Locks, Destroyed, Agree, managerVars, poaVars, threadVars
    <3> QED
      BY <3>2, <3>3 DEF Inv
  <2>2. CASE \E t \in Thread : LocalInvoke(t)
    BY <2>2, InvokeInv
  <2>3. CASE \E r \in Request, p \in POA : Arrive(r, p)
    BY <2>3, ArriveInv
  <2>4. ASSUME NEW a \in Admin,
               \/ \E s \in State : ChangeState(a, s)
               \/ \E p \in POA : Destroy(a, p)
               \/ Works(a)
        PROVE  Inv'
    BY <2>4, ChangeInv, CallbackInv, DestroyInv DEF Works
  <2> QED
    BY <2>1, <2>2, <2>3, <2>4 DEF Next
<1> QED
  BY InitInv, <1>1, PTL DEF Spec

\* When no change of state is under way, every POA is in the state of its
\* manager, however many threads have changed it and destroyed POAs.
THEOREM StatesAlwaysAgree == Spec => []StatesAgree
<1>1. Inv => StatesAgree
  <2> SUFFICES ASSUME Inv, \A a \in Admin : pc[a] = "idle", NEW p \in managed
               PROVE  pstate[p] = mstate
    BY DEF StatesAgree
  <2>1. \A a \in Admin : mlock # a
    BY DEF Inv, Locks, Telling, Invoking
  <2> QED
    BY <2>1 DEF Inv, Agree
<1> QED
  BY Invariance, <1>1, PTL

\* The variables keep their types.
THEOREM TypesCorrect == Spec => []Types
<1>1. Inv => Types
  BY DEF Inv
<1> QED
  BY Invariance, <1>1, PTL
-----------------------------------------------------------------------------
(***************************************************************************)
(* Where each request is.  RequestInOnePlace counts; Once says the same    *)
(* without counting: threads and queues have different requests, and those *)
(* they have are the ones that have arrived and have no answer.            *)
(***************************************************************************)
In(r, p, i) == i \in 1..Len(queue[p]) /\ queue[p][i] = r

Once ==
  /\ \A t \in Thread : req[t] # NoReq <=> pc[t] \in Invoking
  /\ \A t, u \in Thread : req[t] = req[u] => t = u \/ req[t] = NoReq
  /\ \A p, q \in POA, i, j \in Nat, r \in Request : In(r, p, i) /\ In(r, q, j) => p = q /\ i = j
  /\ \A t \in Thread, p \in POA, i \in Nat : ~In(req[t], p, i)
  /\ \A r \in Request :
       (pc[r] # "idle" /\ answer[r] = "none") <=>
         (\/ \E t \in Thread : req[t] = r
          \/ \E p \in POA, i \in Nat : In(r, p, i))
  /\ \A r \in Request : pc[r] = "idle" => answer[r] = "none"

\* A thread that deals with its request has it no longer, nor has anybody.
LEMMA ReplyOnce ==
  ASSUME Inv, Once, NEW t \in Thread, pc[t] \in Invoking,
         NEW what \in {"done", "TRANSIENT", "refused", "forward"}, Reply(t, what),
         queue' = queue
  PROVE  Once'
<1>1. /\ req[t] \in Request /\ t \in Thread
      /\ pc \in [Thread -> Pc] /\ req \in [Thread -> Request \cup {NoReq}]
      /\ answer \in [Request -> {"none", "done", "TRANSIENT", "refused", "forward"}]
  BY DEF Inv, Requests, Types
<1>2. /\ \A u \in Thread : req'[u] = IF u = t THEN NoReq ELSE req[u]
      /\ \A r \in Request : answer'[r] = IF r = req[t] THEN what ELSE answer[r]
  BY <1>1 DEF Reply, Leave
<1>3. /\ \A u \in Thread : u # t => pc'[u] = pc[u]
      /\ pc'[t] \notin Invoking /\ pc'[t] # "idle" /\ pc[t] # "idle"
  BY <1>1 DEF Reply, Leave, Go, Invoking
<1>4. \A r, p, i : In(r, p, i)' <=> In(r, p, i)
  BY DEF In
<1>5. \A p, i : ~In(NoReq, p, i) \/ p \notin POA \/ i \notin Nat
  BY ConstantsAssumption DEF In, Inv, Types
<1> HIDE DEF In
<1>6. \A r \in Request : r # req[t] =>
         /\ (\E u \in Thread : req'[u] = r) <=> (\E u \in Thread : req[u] = r)
  BY <1>1, <1>2, ConstantsAssumption
<1>7. /\ ~ \E u \in Thread : req'[u] = req[t]
      /\ ~ \E p \in POA, i \in Nat : In(req[t], p, i)
      /\ answer'[req[t]] # "none"
  BY <1>1, <1>2, ConstantsAssumption DEF Once
<1>8. pc[req[t]] # "idle"
  BY <1>1 DEF Once
<1>9. \A r \in Request : pc'[r] = "idle" <=> pc[r] = "idle"
  BY <1>1, <1>3 DEF Thread
<1>10. \A r \in Request :
         (pc'[r] # "idle" /\ answer'[r] = "none") <=>
           (\/ \E u \in Thread : req'[u] = r
            \/ \E p \in POA, i \in Nat : In(r, p, i))
  BY <1>1, <1>2, <1>6, <1>7, <1>9 DEF Once
<1>11. \A r \in Request : pc'[r] = "idle" => answer'[r] = "none"
  BY <1>1, <1>2, <1>8, <1>9 DEF Once
<1>12. /\ \A u \in Thread : req'[u] # NoReq <=> pc'[u] \in Invoking
       /\ \A v, u \in Thread : req'[v] = req'[u] => v = u \/ req'[v] = NoReq
  BY <1>1, <1>2, <1>3 DEF Once
<1>13. \A u \in Thread, p \in POA, i \in Nat : ~In(req'[u], p, i)
  BY <1>2, <1>5 DEF Once
<1> QED
  BY <1>4, <1>10, <1>11, <1>12, <1>13 DEF Once

\* A step that moves no request.
LEMMA UnmovedOnce ==
  ASSUME Once, UNCHANGED <<queue, answer, req>>,
         \A t \in Thread : pc'[t] \in Invoking <=> pc[t] \in Invoking,
         \A r \in Request : pc'[r] = "idle" <=> pc[r] = "idle"
  PROVE  Once'
<1>1. \A r, p, i : In(r, p, i)' <=> In(r, p, i)
  BY DEF In
<1> QED
  BY <1>1 DEF Once

\* A request that is queued goes from the thread to the end of the queue.
LEMMA PushOnce ==
  ASSUME Inv, Once, NEW t \in Thread, Push(t)
  PROVE  Once'
<1> DEFINE p == poa[t]
           r == req[t]
           n == Len(queue[p]) + 1
           After(x, q, i) == i \in 1..Len(queue'[q]) /\ queue'[q][i] = x
<1>1. /\ r \in Request /\ p \in POA /\ pc[t] = "push" /\ t \in Thread
      /\ pc \in [Thread -> Pc] /\ req \in [Thread -> Request \cup {NoReq}]
      /\ queue \in [POA -> Seq(Request)]
      /\ answer' = answer /\ queue' = [queue EXCEPT ![p] = Append(@, r)]
  BY DEF Inv, Requests, Types, Push, Invoking
<1>2. \A u \in Thread : req'[u] = IF u = t THEN NoReq ELSE req[u]
  BY <1>1 DEF Push, Leave
<1>3. /\ \A u \in Thread : u # t => pc'[u] = pc[u]
      /\ pc'[t] \notin Invoking /\ pc'[t] # "idle"
  BY <1>1 DEF Push, Leave, Go, Invoking
<1>4. n \in Nat
  BY <1>1
<1>5. \A x, q, i : q \in POA /\ i \in Nat => (After(x, q, i) <=> In(x, q, i) \/ (x = r /\ q = p /\ i = n))
  <2>1. \A q \in POA : q # p => queue'[q] = queue[q]
    BY <1>1
  <2>2. queue'[p] = Append(queue[p], r) /\ queue[p] \in Seq(Request)
    BY <1>1
  <2>3. /\ Len(queue'[p]) = n
        /\ \A i \in 1..n : queue'[p][i] = IF i = n THEN r ELSE queue[p][i]
    BY <2>2, <1>1
  <2> SUFFICES ASSUME NEW x, NEW q \in POA, NEW i \in Nat
               PROVE  After(x, q, i) <=> In(x, q, i) \/ (x = r /\ q = p /\ i = n)
    OBVIOUS
  <2>4. CASE q # p
    BY <2>1, <2>4 DEF In
  <2>5. CASE q = p
    <3>1. Len(queue[p]) \in Nat
      BY <2>2
    <3> HIDE DEF p, r
    <3> QED
      BY <2>3, <2>5, <3>1 DEF In
  <2> QED
    BY <2>4, <2>5
<1>6. \A q, i : q \in POA /\ i \in Nat => ~In(NoReq, q, i)
  BY <1>1, ConstantsAssumption DEF In
<1> HIDE DEF In, After, p, r, n
<1>7. \A q, i : q \in POA /\ i \in Nat => ~In(r, q, i)
  BY <1>1 DEF Once, r
<1>8. \A x \in Request : x # r =>
         ((\E u \in Thread : req'[u] = x) <=> (\E u \in Thread : req[u] = x))
  BY <1>1, <1>2, ConstantsAssumption DEF r
<1>9. After(r, p, n)
  BY <1>1, <1>4, <1>5
<1>10. pc[r] # "idle" /\ answer[r] = "none"
  BY <1>1 DEF Once, r
<1>11. \A x \in Request : pc'[x] = "idle" <=> pc[x] = "idle"
  BY <1>1, <1>3 DEF Thread
<1>12. /\ \A u \in Thread : req'[u] # NoReq <=> pc'[u] \in Invoking
       /\ \A v, u \in Thread : req'[v] = req'[u] => v = u \/ req'[v] = NoReq
  BY <1>1, <1>2, <1>3 DEF Once
<1>13. \A a, b \in POA, i, j \in Nat, x \in Request :
          After(x, a, i) /\ After(x, b, j) => a = b /\ i = j
  <2>1. \A a, b \in POA, i, j \in Nat, x \in Request :
          In(x, a, i) /\ In(x, b, j) => a = b /\ i = j
    BY DEF Once
  <2> QED
    BY <1>5, <1>7, <2>1
<1>14. \A u \in Thread, q \in POA, i \in Nat : ~After(req'[u], q, i)
  <2>1. \A u \in Thread : u # t => req[u] # r
    BY <1>1, ConstantsAssumption DEF Once, r
  <2>2. \A u \in Thread, q \in POA, i \in Nat : u # t => ~After(req[u], q, i)
    BY <1>5, <2>1 DEF Once
  <2>3. \A q \in POA, i \in Nat : ~After(NoReq, q, i)
    BY <1>1, <1>5, <1>6, ConstantsAssumption
  <2> QED
    BY <1>2, <2>2, <2>3
<1>15. \A x \in Request :
         (pc'[x] # "idle" /\ answer'[x] = "none") <=>
           (\/ \E u \in Thread : req'[u] = x
            \/ \E q \in POA, i \in Nat : After(x, q, i))
  <2> SUFFICES ASSUME NEW x \in Request
               PROVE  (pc'[x] # "idle" /\ answer'[x] = "none") <=>
                        (\/ \E u \in Thread : req'[u] = x
                         \/ \E q \in POA, i \in Nat : After(x, q, i))
    OBVIOUS
  <2>1. CASE x = r
    BY <1>1, <1>4, <1>9, <1>10, <1>11, <2>1
  <2>2. CASE x # r
    <3>1. (\E q \in POA, i \in Nat : After(x, q, i)) <=> (\E q \in POA, i \in Nat : In(x, q, i))
      BY <1>5, <2>2
    <3> QED
      BY <1>1, <1>8, <1>11, <2>2, <3>1 DEF Once
  <2> QED
    BY <2>1, <2>2
<1>16. \A x \in Request : pc'[x] = "idle" => answer'[x] = "none"
  BY <1>1, <1>11 DEF Once
<1> QED
  BY <1>12, <1>13, <1>14, <1>15, <1>16 DEF Once, In, After

\* The thread that takes the first request of a queue is the only one to have it.
LEMMA TakeFirstOnce ==
  ASSUME Inv, Once, NEW a \in Admin, TakeFirst(a)
  PROVE  Once'
<1> DEFINE p == poa[a]
           r == Head(queue[p])
           After(x, q, i) == i \in 1..Len(queue'[q]) /\ queue'[q][i] = x
<1>1. /\ p \in POA /\ a \in Thread /\ a \notin Request /\ queue[p] # <<>>
      /\ pc[a] \in {"drain", "flush"} /\ Go(a, "decide")
      /\ pc \in [Thread -> Pc] /\ req \in [Thread -> Request \cup {NoReq}]
      /\ queue \in [POA -> Seq(Request)]
      /\ answer' = answer /\ queue' = [queue EXCEPT ![p] = Tail(@)]
      /\ req' = [req EXCEPT ![a] = r]
  BY ConstantsAssumption DEF Inv, Locks, InPOA, Types, TakeFirst, Thread
<1>2. /\ queue[p] \in Seq(Request) /\ r \in Request /\ In(r, p, 1)
  BY <1>1 DEF In
<1>3. \A u \in Thread : req'[u] = IF u = a THEN r ELSE req[u]
  BY <1>1
<1>4. /\ \A u \in Thread : u # a => pc'[u] = pc[u]
      /\ pc'[a] \in Invoking /\ req[a] = NoReq
  BY <1>1 DEF Go, Invoking, Once
<1>5. \A x, q, i : q \in POA /\ i \in Nat =>
         (After(x, q, i) <=> IF q = p THEN i > 0 /\ In(x, q, i + 1) ELSE In(x, q, i))
  <2>1. \A q \in POA : q # p => queue'[q] = queue[q]
    BY <1>1
  <2>2. /\ queue'[p] = Tail(queue[p]) /\ Len(queue[p]) \in Nat
        /\ Len(queue'[p]) = Len(queue[p]) - 1
        /\ \A i \in 1..Len(queue'[p]) : queue'[p][i] = queue[p][i + 1]
    BY <1>1, <1>2
  <2> SUFFICES ASSUME NEW x, NEW q \in POA, NEW i \in Nat
               PROVE  After(x, q, i) <=> IF q = p THEN i > 0 /\ In(x, q, i + 1) ELSE In(x, q, i)
    OBVIOUS
  <2>3. CASE q # p
    BY <2>1, <2>3 DEF In
  <2>4. CASE q = p
    <3> DEFINE n == Len(queue[p])
    <3>1. n \in Nat /\ (i + 1 \in 1..n <=> i \in 0..n-1)
      BY <2>2
    <3>2. After(x, p, i) <=> i \in 1..n-1 /\ queue[p][i + 1] = x
      BY <2>2
    <3>3. In(x, p, i + 1) <=> i + 1 \in 1..n /\ queue[p][i + 1] = x
      BY DEF In
    <3> HIDE DEF p, n, After
    <3> QED
      BY <2>4, <3>1, <3>2, <3>3
  <2> QED
    BY <2>3, <2>4
<1> HIDE DEF In, After, p, r
<1>6. \A q \in POA, i \in Nat : In(r, q, i) => q = p /\ i = 1
  <2>1. \A q \in POA, i, j \in Nat : In(r, p, j) /\ In(r, q, i) => p = q /\ j = i
    BY <1>1, <1>2 DEF Once
  <2> QED
    BY <1>2, <2>1
<1>7. \A u \in Thread : req[u] # r
  BY <1>1, <1>2 DEF Once
<1>8. \A q \in POA, i \in Nat : ~After(r, q, i)
  <2> SUFFICES ASSUME NEW q \in POA, NEW i \in Nat, After(r, q, i) PROVE FALSE
    OBVIOUS
  <2>1. IF q = p THEN i > 0 /\ In(r, q, i + 1) ELSE In(r, q, i)
    BY <1>5
  <2>2. i + 1 \in Nat
    OBVIOUS
  <2> QED
    BY <1>6, <2>1, <2>2
<1>9. \A x \in Request : x # r =>
         ((\E q \in POA, i \in Nat : After(x, q, i)) <=> (\E q \in POA, i \in Nat : In(x, q, i)))
  <2> SUFFICES ASSUME NEW x \in Request, x # r
               PROVE  (\E q \in POA, i \in Nat : After(x, q, i))
                        <=> (\E q \in POA, i \in Nat : In(x, q, i))
    OBVIOUS
  <2>1. ASSUME NEW q \in POA, NEW i \in Nat, After(x, q, i)
        PROVE  \E s \in POA, j \in Nat : In(x, s, j)
    BY <1>5, <2>1, i + 1 \in Nat
  <2>2. ASSUME NEW q \in POA, NEW i \in Nat, In(x, q, i)
        PROVE  \E s \in POA, j \in Nat : After(x, s, j)
    <3>1. CASE q # p
      BY <1>5, <2>2, <3>1
    <3>2. CASE q = p
      <4>1. i > 0
        BY <2>2 DEF In
      <4>2. i # 1
        BY <1>2, <2>2, <3>2 DEF In
      <4>3. i - 1 \in Nat /\ i - 1 > 0 /\ (i - 1) + 1 = i
        BY <4>1, <4>2
      <4> QED
        BY <1>1, <1>5, <2>2, <3>2, <4>3
    <3> QED
      BY <3>1, <3>2
  <2> QED
    BY <2>1, <2>2
<1>10. \A x \in Request : x # r =>
         ((\E u \in Thread : req'[u] = x) <=> (\E u \in Thread : req[u] = x))
  BY <1>1, <1>3, <1>4, ConstantsAssumption
<1>11. /\ \A u \in Thread : req'[u] # NoReq <=> pc'[u] \in Invoking
       /\ \A v, u \in Thread : req'[v] = req'[u] => v = u \/ req'[v] = NoReq
  BY <1>1, <1>2, <1>3, <1>4, <1>7, ConstantsAssumption DEF Once
<1>12. \A s, q \in POA, i, j \in Nat, x \in Request :
          After(x, s, i) /\ After(x, q, j) => s = q /\ i = j
  <2> SUFFICES ASSUME NEW s \in POA, NEW q \in POA, NEW i \in Nat, NEW j \in Nat,
                      NEW x \in Request, After(x, s, i), After(x, q, j)
               PROVE  s = q /\ i = j
    OBVIOUS
  <2> DEFINE k == IF s = p THEN i + 1 ELSE i
             l == IF q = p THEN j + 1 ELSE j
  <2>1. k \in Nat /\ l \in Nat /\ In(x, s, k) /\ In(x, q, l)
    BY <1>5
  <2>2. s = q /\ k = l
    BY <2>1 DEF Once
  <2> QED
    BY <2>2
<1>13. \A u \in Thread, q \in POA, i \in Nat : ~After(req'[u], q, i)
  <2>1. \A q \in POA, i \in Nat, u \in Thread : ~After(req[u], q, i)
    BY <1>5, \A i \in Nat : i + 1 \in Nat DEF Once
  <2> QED
    BY <1>3, <1>8, <2>1
<1>14. \A x \in Request : pc'[x] = pc[x]
  BY <1>1, <1>4 DEF Thread
<1>15. \A x \in Request :
         (pc'[x] # "idle" /\ answer'[x] = "none") <=>
           (\/ \E u \in Thread : req'[u] = x
            \/ \E q \in POA, i \in Nat : After(x, q, i))
  <2> SUFFICES ASSUME NEW x \in Request
               PROVE  (pc'[x] # "idle" /\ answer'[x] = "none") <=>
                        (\/ \E u \in Thread : req'[u] = x
                         \/ \E q \in POA, i \in Nat : After(x, q, i))
    OBVIOUS
  <2>1. CASE x = r
    <3>1. pc[r] # "idle" /\ answer[r] = "none"
      BY <1>1, <1>2, 1 \in Nat DEF Once
    <3> QED
      BY <1>1, <1>3, <1>14, <2>1, <3>1
  <2>2. CASE x # r
    BY <1>1, <1>9, <1>10, <1>14, <2>2 DEF Once
  <2> QED
    BY <2>1, <2>2
<1>16. \A x \in Request : pc'[x] = "idle" => answer'[x] = "none"
  BY <1>1, <1>14 DEF Once
<1> QED
  BY <1>11, <1>12, <1>13, <1>15, <1>16 DEF Once, In, After

\* A request that comes is in the hands of the thread that brings it, or refused.
LEMMA ArriveOnce ==
  ASSUME Inv, Once, NEW r \in Request, NEW p \in POA, Arrive(r, p)
  PROVE  Once'
<1>1. /\ r \in Thread /\ pc[r] = "idle" /\ answer[r] = "none" /\ queue' = queue
      /\ pc \in [Thread -> Pc] /\ req \in [Thread -> Request \cup {NoReq}]
      /\ answer \in [Request -> {"none", "done", "TRANSIENT", "refused", "forward"}]
  BY DEF Inv, Types, Arrive, Thread, Once
<1>2. /\ req[r] = NoReq
      /\ \A u \in Thread : req[u] # r
      /\ \A q \in POA, i \in Nat : ~In(r, q, i)
  BY <1>1 DEF Once, Invoking
<1>3. \A x, q, i : In(x, q, i)' <=> In(x, q, i)
  BY <1>1 DEF In
<1> HIDE DEF In
<1>4. /\ \A u \in Thread : u # r => pc'[u] = pc[u] /\ req'[u] = req[u]
      /\ \A x \in Request : x # r => answer'[x] = answer[x]
  BY <1>1 DEF Arrive, Go
<1>5. \/ pc'[r] = "decide" /\ req'[r] = r /\ answer'[r] = "none"
      \/ pc'[r] = "done" /\ req'[r] = NoReq /\ answer'[r] = "refused"
  BY <1>1, <1>2 DEF Arrive, Go
<1>6. /\ \A u \in Thread : req'[u] # NoReq <=> pc'[u] \in Invoking
      /\ \A v, u \in Thread : req'[v] = req'[u] => v = u \/ req'[v] = NoReq
  BY <1>1, <1>2, <1>4, <1>5, ConstantsAssumption DEF Once, Invoking
<1>7. \A u \in Thread, q \in POA, i \in Nat : ~In(req'[u], q, i)
  BY <1>2, <1>4, <1>5 DEF Once
<1>8. \A x \in Request :
        (pc'[x] # "idle" /\ answer'[x] = "none") <=>
          (\/ \E u \in Thread : req'[u] = x
           \/ \E q \in POA, i \in Nat : In(x, q, i))
  <2> SUFFICES ASSUME NEW x \in Request
               PROVE  (pc'[x] # "idle" /\ answer'[x] = "none") <=>
                        (\/ \E u \in Thread : req'[u] = x
                         \/ \E q \in POA, i \in Nat : In(x, q, i))
    OBVIOUS
  <2>1. CASE x = r
    BY <1>1, <1>2, <1>4, <1>5, <2>1, ConstantsAssumption
  <2>2. CASE x # r
    <3>1. (\E u \in Thread : req'[u] = x) <=> (\E u \in Thread : req[u] = x)
      BY <1>1, <1>2, <1>4, <1>5, <2>2, ConstantsAssumption
    <3>2. pc'[x] = pc[x] /\ answer'[x] = answer[x]
      BY <1>4, <2>2 DEF Thread
    <3> QED
      BY <3>1, <3>2 DEF Once
  <2> QED
    BY <2>1, <2>2
<1>9. \A x \in Request : pc'[x] = "idle" => answer'[x] = "none"
  BY <1>4, <1>5 DEF Once, Thread
<1> QED
  BY <1>3, <1>6, <1>7, <1>8, <1>9 DEF Once

\* An application thread moves requests only when it takes one from a queue.
LEMMA AdminOnce ==
  ASSUME Inv, Once, NEW a \in Admin,
         \/ \E s \in State : ChangeState(a, s)
         \/ \E p \in POA : Destroy(a, p)
         \/ Works(a)
  PROVE  Once'
<1>1. CASE TakeFirst(a)
  BY <1>1, TakeFirstOnce
<1>2. CASE ~TakeFirst(a)
  <2> DEFINE L == Pc \ (Invoking \cup {"done"})
  <2>1. UNCHANGED <<queue, answer, req>>
    <3>1. CASE \/ \E s \in State : ChangeState(a, s)
               \/ SetState(a) \/ LockManaged(a) \/ Tell(a) \/ AllTold(a) \/ Callback(a)
      BY <3>1 DEF ChangeState, SetState, LockManaged, Tell, AllTold, Callback, requestVars
    <3>2. CASE \/ \E p \in POA : Destroy(a, p)
               \/ Drained(a) \/ Unregister(a) \/ RemoveManaged(a) \/ DestroyEnd(a)
      BY <3>2 DEF Destroy, Drained, Unregister, RemoveManaged, DestroyEnd, requestVars
    <3> QED
      BY <1>2, <3>1, <3>2 DEF Works
  <2>2. pc[a] \in L /\ \E l \in L : Go(a, l)
    <3>1. CASE \/ \E s \in State : ChangeState(a, s)
               \/ SetState(a) \/ LockManaged(a) \/ Tell(a) \/ AllTold(a) \/ Callback(a)
      BY <3>1 DEF ChangeState, SetState, LockManaged, Tell, AllTold, Callback, BackToIdle, Pc,
         Invoking
    <3>2. CASE \/ \E p \in POA : Destroy(a, p)
               \/ Drained(a) \/ Unregister(a) \/ RemoveManaged(a) \/ DestroyEnd(a)
      BY <3>2 DEF Destroy, Drained, Unregister, RemoveManaged, DestroyEnd, BackToIdle, Pc,
         Invoking
    <3> QED
      BY <1>2, <3>1, <3>2 DEF Works
  <2>3. PICK l \in L : Go(a, l)
    BY <2>2
  <2>4. \A t \in Thread : pc'[t] = IF t = a THEN l ELSE pc[t]
    BY <2>3 DEF Go, Inv, Types
  <2>5. a \notin Request
    BY ConstantsAssumption
  <2> HIDE DEF Invoking
  <2>6. \A t \in Thread : pc'[t] \in Invoking <=> pc[t] \in Invoking
    BY <2>2, <2>4
  <2>7. \A r \in Request : pc'[r] = "idle" <=> pc[r] = "idle"
    BY <2>4, <2>5 DEF Thread
  <2> QED
    BY <2>1, <2>6, <2>7, UnmovedOnce
<1> QED
  BY <1>1, <1>2

\* A thread that deals with a request answers it, queues it, or has decided how to.
LEMMA InvokeOnce ==
  ASSUME Inv, Once, NEW t \in Thread, LocalInvoke(t)
  PROVE  Once'
<1>1. CASE Push(t)
  BY <1>1, PushOnce
<1>2. CASE \E what \in {"done", "TRANSIENT", "refused", "forward"} :
             pc[t] \in Invoking /\ Reply(t, what) /\ queue' = queue
  BY <1>2, ReplyOnce
<1>3. CASE /\ pc[t] = "decide" /\ \E l \in {"push", "run"} : Go(t, l)
           /\ UNCHANGED <<queue, answer, req>>
  <2>1. PICK l \in {"push", "run"} : Go(t, l)
    BY <1>3
  <2>2. \A u \in Thread : pc'[u] = IF u = t THEN l ELSE pc[u]
    BY <2>1 DEF Go, Inv, Types
  <2>3. \A u \in Thread : pc'[u] \in Invoking <=> pc[u] \in Invoking
    BY <1>3, <2>2 DEF Invoking
  <2>4. \A r \in Request : pc'[r] = "idle" <=> pc[r] = "idle"
    BY <1>3, <2>2 DEF Thread
  <2> QED
    BY <1>3, <2>3, <2>4, UnmovedOnce
<1>4. Decide(t) \/ Run(t) => <1>2!1 \/ <1>3!1
  BY DEF Decide, Run, Invoking
<1> QED
  BY <1>1, <1>2, <1>3, <1>4 DEF LocalInvoke

\* Requests are in one place: the invariant, without counting.
THEOREM RequestsOnce == Spec => []Once
<1>1. Init => Once
  BY ConstantsAssumption DEF Init, Once, In, Invoking, Thread
<1>2. Inv /\ Once /\ [Next]_vars => Once'
  <2> SUFFICES ASSUME Inv, Once, [Next]_vars PROVE Once'
    OBVIOUS
  <2>1. CASE UNCHANGED vars \/ DataRace
    BY <2>1, UnmovedOnce DEF DataRace, vars, requestVars, threadVars
  <2>2. CASE \E t \in Thread : LocalInvoke(t)
    BY <2>2, InvokeOnce
  <2>3. CASE \E r \in Request, p \in POA : Arrive(r, p)
    BY <2>3, ArriveOnce
  <2>4. ASSUME NEW a \in Admin,
               \/ \E s \in State : ChangeState(a, s)
               \/ \E p \in POA : Destroy(a, p)
               \/ Works(a)
        PROVE  Once'
    BY <2>4, AdminOnce
  <2> QED
    BY <2>1, <2>2, <2>3, <2>4 DEF Next
<1> QED
  BY Invariance, <1>1, <1>2, PTL DEF Spec

-----------------------------------------------------------------------------
\* A request that has arrived and has no answer is in the hands of one thread
\* or in one queue, and one that was answered in neither.
THEOREM RequestsInOnePlace == Spec => []RequestInOnePlace
<1>1. Inv /\ Once => RequestInOnePlace
  <2> SUFFICES ASSUME Inv, Once, NEW r \in Request
               PROVE  Cardinality(Handlers(r)) + Cardinality(Held(r)) =
                        (IF pc[r] # "idle" /\ answer[r] = "none" THEN 1 ELSE 0)
    BY DEF RequestInOnePlace
  <2> DEFINE waits == pc[r] # "idle" /\ answer[r] = "none"
  <2>1. \A p \in POA : queue[p] \in Seq(Request) /\ DOMAIN queue[p] = 1..Len(queue[p])
    BY DEF Inv, Types
  <2>2. \A x : x \in Held(r) <=> \E p \in POA, i \in Nat : x = <<p, i>> /\ In(r, p, i)
    <3>1. \A x : x \in UNION {{p} \X DOMAIN queue[p] : p \in POA}
                   <=> \E p \in POA : \E i \in 1..Len(queue[p]) : x = <<p, i>>
      BY <2>1
    <3>2. \A p \in POA : 1..Len(queue[p]) \subseteq Nat
      BY <2>1
    <3> QED
      BY <3>1, <3>2 DEF Held, In
  <2>3. \A t \in Thread, p \in POA, i \in Nat : ~(req[t] = r /\ In(r, p, i))
    BY DEF Once
  <2>4. waits <=> (\/ \E t \in Thread : req[t] = r
                   \/ \E p \in POA, i \in Nat : In(r, p, i))
    BY DEF Once
  <2>5. Cardinality({}) = 0
    BY FS_EmptySet
  <2>6. \A x : Cardinality({x}) = 1
    BY FS_Singleton
  <2> HIDE DEF In
  <2>7. CASE \E t \in Thread : req[t] = r
    <3>1. PICK t \in Thread : req[t] = r
      BY <2>7
    <3>2. Handlers(r) = {t}
      BY <3>1, ConstantsAssumption DEF Handlers, Once
    <3>3. Held(r) = {}
      BY <2>2, <2>3, <3>1
    <3>4. Cardinality(Handlers(r)) = 1 /\ Cardinality(Held(r)) = 0
      BY <2>5, <2>6, <3>2, <3>3
    <3>5. waits
      BY <2>4, <3>1
    <3> QED
      BY <3>4, <3>5
  <2>8. CASE \E p \in POA, i \in Nat : In(r, p, i)
    <3>1. PICK p \in POA, i \in Nat : In(r, p, i)
      BY <2>8
    <3>2. \A q \in POA, j \in Nat : In(r, q, j) => q = p /\ j = i
      BY <3>1 DEF Once
    <3>3. Held(r) = {<<p, i>>}
      BY <2>2, <3>1, <3>2
    <3>4. Handlers(r) = {}
      BY <2>3, <3>1 DEF Handlers
    <3>5. Cardinality(Handlers(r)) = 0 /\ Cardinality(Held(r)) = 1
      BY <2>5, <2>6, <3>3, <3>4
    <3>6. waits
      BY <2>4, <3>1
    <3> QED
      BY <3>5, <3>6
  <2>9. CASE ~ \/ \E t \in Thread : req[t] = r
               \/ \E p \in POA, i \in Nat : In(r, p, i)
    <3>1. Held(r) = {} /\ Handlers(r) = {}
      BY <2>2, <2>9 DEF Handlers
    <3>2. ~waits
      BY <2>4, <2>9
    <3> QED
      BY <2>5, <3>1, <3>2
  <2> QED
    BY <2>7, <2>8, <2>9
<1> QED
  BY Invariance, RequestsOnce, <1>1, PTL

\* The types, with the bound on the queues: no request is in one twice.
THEOREM TypeCorrect == Spec => []TypeOK
<1>1. Inv /\ Once => TypeOK
  <2> SUFFICES ASSUME Inv, Once, NEW p \in POA PROVE Len(queue[p]) <= Cardinality(Request)
    BY DEF TypeOK, Inv
  <2>1. queue[p] \in Seq(Request) /\ Len(queue[p]) \in Nat
    BY DEF Inv, Types
  <2> DEFINE f == [i \in 1..Len(queue[p]) |-> queue[p][i]]
  <2>2. \A i, j \in 1..Len(queue[p]) : queue[p][i] = queue[p][j] => i = j
    <3> SUFFICES ASSUME NEW i \in 1..Len(queue[p]), NEW j \in 1..Len(queue[p]),
                        queue[p][i] = queue[p][j]
                 PROVE  i = j
      OBVIOUS
    <3>1. queue[p][i] \in Request /\ i \in Nat /\ j \in Nat
      BY <2>1
    <3>2. In(queue[p][i], p, i) /\ In(queue[p][i], p, j)
      BY DEF In
    <3> QED
      BY <3>1, <3>2 DEF Once
  <2>3. f \in Injection(1..Len(queue[p]), Request)
    BY <2>1, <2>2 DEF Injection, IsInjective
  <2>4. Cardinality(1..Len(queue[p])) <= Cardinality(Request)
    BY <2>3, FS_Injection, ConstantsAssumption DEF ExistsInjection
  <2>5. Cardinality(1..Len(queue[p])) = Len(queue[p])
    BY <2>1, FS_Interval
  <2> QED
    BY <2>4, <2>5
<1> QED
  BY Invariance, RequestsOnce, <1>1, PTL
===============================================================================
