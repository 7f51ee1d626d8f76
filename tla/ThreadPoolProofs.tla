-------------------------- MODULE ThreadPoolProofs --------------------------
(***************************************************************************)
(* Proofs about ThreadPool for any number of workers, outside threads and  *)
(* messages.  ProtocolInv is the inductive invariant: it ties the program  *)
(* counter of each thread to Qaccess, to the state of the worker it is     *)
(* handing work to, and to the place of each message.                      *)
(***************************************************************************)
EXTENDS ThreadPool, FiniteSetTheorems, TLAPS

Holding == {"hand", "busy", "post", "handqueued", "busyqueued"}

\* A thread holds Qaccess exactly while it hands work to the worker kt.
LockInv ==
    /\ \A t \in Thread : pc[t] \in Holding <=> Qaccess = t
    /\ \A t \in Thread : pc[t] \in Holding => kt[t] \in Worker
    /\ \A w \in Worker : pc[w] \in WorkerPC
    /\ \A p \in Putter : pc[p] \in PutterPC
    /\ \A w \in Worker : pc[w] = "handqueued" => Q /= <<>>

\* Who has a message where: a putter until it hands it over, a worker only
\* when it is Busy or about to be marked so by the thread that holds Qaccess.
WorkInv ==
    /\ \A p \in Putter : pc[p] \in {"put", "hand"} <=> arg[p] /= NoMsg
    /\ \A t \in Thread : pc[t] \in Holding \ {"post"} => state[kt[t]] = "Transition"
    /\ \A t \in Thread : pc[t] \in {"busy", "busyqueued"} => msg[kt[t]] /= NoMsg
    /\ \A w \in Worker : pc[w] \in {"run", "checkself", "markidle"} => state[w] = "Busy"
    /\ \A w \in Worker : pc[w] \in {"checkself", "markidle"} => msg[w] = NoMsg
    /\ \A w \in Worker : state[w] = "Busy" /\ pc[w] \notin {"checkself", "markidle"}
                            => msg[w] /= NoMsg
    /\ \A w \in Worker : state[w] = "Idle" => msg[w] = NoMsg
    /\ \A w \in Worker : state[w] = "Transition" /\ msg[w] /= NoMsg
                            => /\ Qaccess \in Thread
                               /\ kt[Qaccess] = w
                               /\ pc[Qaccess] \in {"busy", "busyqueued"}

IdleInv ==
    /\ \A i, j \in 1..Len(idle_threads) : idle_threads[i] = idle_threads[j] => i = j
    /\ \A i \in 1..Len(idle_threads) : state[idle_threads[i]] = "Idle"
    /\ \A w \in Worker : state[w] = "Idle" => \E i \in 1..Len(idle_threads) : idle_threads[i] = w

\* What shutdown() goes through is the threads there are.
PoolInv ==
    /\ \A w \in Worker \ all_threads :
          pc[w] = "wait" /\ state[w] = "Transition" /\ msg[w] = NoMsg
    /\ \A t \in Thread : pc[t] \in Holding => kt[t] \in all_threads
    /\ cancelled \subseteq all_threads /\ sdleft \subseteq all_threads

ProtocolInv == TypeOK /\ LockInv /\ WorkInv /\ IdleInv /\ PoolInv

-----------------------------------------------------------------------------
\* get_idle_thread gives out a worker and leaves the lists well typed.
LEMMA TakeThreadType ==
    ASSUME TypeOK, NEW w \in Worker, get_idle_thread(w)
    PROVE  /\ idle_threads' \in Seq(Worker)
           /\ all_threads' \subseteq Worker
           /\ state' \in [Worker -> {"Transition", "Idle", "Busy"}]
<1>1. idle_threads /= <<>> => Tail(idle_threads) \in Seq(Worker)
  BY DEF TypeOK
<1> QED
  BY <1>1 DEF TypeOK, get_idle_thread, TakeThread

\* A sequence without repetitions stays so when a new element is appended.
LEMMA AppendExact ==
    ASSUME NEW S, NEW s \in Seq(S), NEW x \in S,
           \A i, j \in 1..Len(s) : s[i] = s[j] => i = j,
           \A i \in 1..Len(s) : s[i] /= x
    PROVE  \A i, j \in 1..Len(Append(s, x)) : Append(s, x)[i] = Append(s, x)[j] => i = j
<1>1. /\ Len(s) \in Nat
      /\ Len(Append(s, x)) = Len(s) + 1
      /\ \A i \in 1..Len(s) : Append(s, x)[i] = s[i]
      /\ Append(s, x)[Len(s) + 1] = x
  OBVIOUS
<1>2. \A i \in 1..Len(s) + 1 : i \in 1..Len(s) \/ i = Len(s) + 1
  BY <1>1
<1> QED
  BY <1>1, <1>2

\* get_idle_thread takes its worker out of the idle list, or out of none; the
\* worker has no message, and the rest of the list stays exact.
LEMMA TakeThreadIdle ==
    ASSUME TypeOK, WorkInv, IdleInv, PoolInv, NEW w \in Worker, get_idle_thread(w)
    PROVE  /\ state' = [state EXCEPT ![w] = "Transition"]
           /\ msg[w] = NoMsg /\ state[w] /= "Busy"
           /\ w \in all_threads'
           /\ all_threads \subseteq all_threads'
           /\ \A i, j \in 1..Len(idle_threads') : idle_threads'[i] = idle_threads'[j] => i = j
           /\ \A i \in 1..Len(idle_threads') : state'[idle_threads'[i]] = "Idle"
           /\ \A v \in Worker : state'[v] = "Idle" =>
                 \E i \in 1..Len(idle_threads') : idle_threads'[i] = v
<1>1. state' = [state EXCEPT ![w] = "Transition"]
  BY DEF get_idle_thread
<1>2. CASE idle_threads = <<>>
  <2>1. idle_threads' = <<>> /\ w \in Worker \ all_threads /\ all_threads' = all_threads \cup {w}
    BY <1>2 DEF get_idle_thread, TakeThread
  <2>2. msg[w] = NoMsg /\ state[w] = "Transition"
    BY <2>1 DEF PoolInv
  <2>3. \A v \in Worker : state[v] /= "Idle"
    BY <1>2 DEF IdleInv
  <2> QED
    BY <1>1, <2>1, <2>2, <2>3 DEF TypeOK
<1>3. CASE idle_threads /= <<>>
  <2>1. w = idle_threads[1] /\ idle_threads' = Tail(idle_threads) /\ all_threads' = all_threads
    BY <1>3 DEF get_idle_thread, TakeThread, TypeOK
  <2>2. /\ Len(idle_threads) \in Nat \ {0}
        /\ Len(idle_threads') = Len(idle_threads) - 1
        /\ \A i \in 1..Len(idle_threads') : idle_threads'[i] = idle_threads[i + 1]
    BY <1>3, <2>1 DEF TypeOK
  <2>3. state[w] = "Idle" /\ msg[w] = NoMsg
    BY <2>1, <2>2 DEF IdleInv, WorkInv
  <2>4. w \in all_threads
    BY <2>3 DEF PoolInv
  <2>5. \A i, j \in 1..Len(idle_threads') : idle_threads'[i] = idle_threads'[j] => i = j
    BY <2>2 DEF IdleInv
  <2>6. \A i \in 1..Len(idle_threads') : state'[idle_threads'[i]] = "Idle"
    <3> SUFFICES ASSUME NEW i \in 1..Len(idle_threads') PROVE state'[idle_threads'[i]] = "Idle"
      OBVIOUS
    <3>1. i + 1 \in 1..Len(idle_threads) /\ i + 1 /= 1 /\ 1 \in 1..Len(idle_threads)
      BY <2>2
    <3>2. idle_threads[i + 1] /= w /\ state[idle_threads[i + 1]] = "Idle"
      BY <2>1, <3>1 DEF IdleInv
    <3>3. idle_threads[i + 1] \in Worker
      BY <3>1 DEF TypeOK
    <3> QED
      BY <1>1, <2>2, <3>2, <3>3 DEF TypeOK
  <2>7. ASSUME NEW v \in Worker, state'[v] = "Idle"
        PROVE  \E i \in 1..Len(idle_threads') : idle_threads'[i] = v
    <3>1. v /= w /\ state[v] = "Idle"
      BY <1>1, <2>7 DEF TypeOK
    <3>2. PICK i \in 1..Len(idle_threads) : idle_threads[i] = v
      BY <3>1 DEF IdleInv
    <3>3. i /= 1
      BY <2>1, <3>1, <3>2
    <3>4. i - 1 \in 1..Len(idle_threads') /\ idle_threads'[i - 1] = v
      BY <2>2, <3>2, <3>3
    <3> QED
      BY <3>4
  <2> QED
    BY <1>1, <2>1, <2>3, <2>4, <2>5, <2>6, <2>7
<1> QED
  BY <1>2, <1>3

\* Every step keeps every variable in its type.
LEMMA TypeStep == ASSUME ProtocolInv, [Next]_vars PROVE TypeOK'
<1>1. TypeOK /\ LockInv /\ WorkInv
  BY DEF ProtocolInv
<1> USE <1>1 DEF TypeOK, Thread, WorkerPC, PutterPC
<1>2. ASSUME NEW p \in Putter, NEW m \in Msg, put_msg(p, m) PROVE TypeOK'
  BY <1>2 DEF put_msg, queuevars, poolvars, sdvars
<1>3. ASSUME NEW p \in Putter, PutTakeThread(p) PROVE TypeOK'
  <2>1. PICK w \in Worker : get_idle_thread(w) /\ kt' = [kt EXCEPT ![p] = w]
    BY <1>3 DEF PutTakeThread
  <2> QED
    BY <1>3, <2>1, TakeThreadType DEF PutTakeThread, sdvars
<1>4. ASSUME NEW p \in Putter, PutQueue(p) PROVE TypeOK'
  <2>1. arg[p] \in Msg
    BY <1>1, <1>4 DEF WorkInv, PutQueue
  <2>2. Append(Q, arg[p]) \in Seq(Msg)
    BY <2>1
  <2>3. Q' = Append(Q, arg[p]) /\ arg' = [arg EXCEPT ![p] = NoMsg]
    BY <1>4 DEF PutQueue
  <2>4. pc' \in [Thread -> WorkerPC \cup PutterPC]
    BY <1>4 DEF PutQueue
  <2>5. UNCHANGED <<Qaccess, poolvars, state, state_sem, msg, kt, sdvars, sent, done>>
    BY <1>4 DEF PutQueue
  <2> QED
    BY <2>2, <2>3, <2>4, <2>5 DEF poolvars, sdvars
<1>5. ASSUME NEW p \in Putter, PutHand(p) PROVE TypeOK'
  BY <1>5 DEF PutHand, queuevars, poolvars, sdvars
<1>6. ASSUME NEW p \in Putter, PutMarkBusy(p) PROVE TypeOK'
  BY <1>6 DEF PutMarkBusy, queuevars, poolvars, sdvars
<1>7. ASSUME NEW p \in Putter, PutPost(p) PROVE TypeOK'
  <2>1. kt[p] \in Worker
    BY <1>1, <1>7 DEF LockInv, Holding, PutPost
  <2>2. state_sem' \in [Worker -> Nat]
    BY <1>7, <2>1 DEF PutPost
  <2> QED
    BY <1>7, <2>2 DEF PutPost, poolvars, sdvars
<1>8. ASSUME NEW w \in Worker, Wake(w) PROVE TypeOK'
  BY <1>8 DEF Wake, queuevars, poolvars, sdvars
<1>9. ASSUME NEW w \in Worker, Interrupted(w) PROVE TypeOK'
  BY <1>9 DEF Interrupted, queuevars, poolvars, sdvars
<1>10. ASSUME NEW w \in Worker, Run(w) PROVE TypeOK'
  BY <1>10 DEF Run, queuevars, poolvars, sdvars
<1>11. ASSUME NEW w \in Worker, CheckSelf(w) PROVE TypeOK'
  <2>1. Q' \in Seq(Msg) /\ msg' \in [Worker -> Msg \cup {NoMsg}]
    <3>1. CASE Q = <<>>
      BY <1>11, <3>1 DEF CheckSelf
    <3>2. CASE Q /= <<>>
      <4>1. Head(Q) \in Msg /\ Tail(Q) \in Seq(Msg)
        BY <3>2
      <4>2. Q' = Tail(Q) /\ msg' = [msg EXCEPT ![w] = Head(Q)]
        BY <1>11, <3>2 DEF CheckSelf
      <4> QED
        BY <4>1, <4>2
    <3> QED
      BY <3>1, <3>2
  <2>2. state' \in [Worker -> {"Transition", "Idle", "Busy"}]
    BY <1>11 DEF CheckSelf
  <2>3. pc' \in [Thread -> WorkerPC \cup PutterPC]
    BY <1>11 DEF CheckSelf
  <2> QED
    BY <1>11, <2>1, <2>2, <2>3 DEF CheckSelf, poolvars, sdvars
<1>12. ASSUME NEW w \in Worker, MarkIdle(w) PROVE TypeOK'
  <2>1. idle_threads' \in Seq(Worker) /\ state' \in [Worker -> {"Transition", "Idle", "Busy"}]
    <3>1. Append(idle_threads, w) \in Seq(Worker)
      OBVIOUS
    <3> QED
      BY <1>12, <3>1 DEF MarkIdle
  <2> QED
    BY <1>12, <2>1 DEF MarkIdle, queuevars, sdvars
<1>13. ASSUME NEW w \in Worker, CheckAnyNone(w) PROVE TypeOK'
  BY <1>13 DEF CheckAnyNone, queuevars, poolvars, sdvars
<1>14. ASSUME NEW w \in Worker, CheckAnyTakeThread(w) PROVE TypeOK'
  <2>1. PICK v \in Worker : get_idle_thread(v) /\ kt' = [kt EXCEPT ![w] = v]
    BY <1>14 DEF CheckAnyTakeThread
  <2> QED
    BY <1>14, <2>1, TakeThreadType DEF CheckAnyTakeThread, sdvars
<1>15. ASSUME NEW w \in Worker, CheckAnyHand(w) PROVE TypeOK'
  <2>1. Q /= <<>>
    BY <1>1, <1>15 DEF LockInv, CheckAnyHand
  <2>2. Head(Q) \in Msg /\ Tail(Q) \in Seq(Msg)
    BY <2>1
  <2> QED
    BY <1>15, <2>2 DEF CheckAnyHand, poolvars, sdvars
<1>16. ASSUME NEW w \in Worker, CheckAnyMarkBusy(w) PROVE TypeOK'
  BY <1>16 DEF CheckAnyMarkBusy, queuevars, poolvars, sdvars
<1>17. ASSUME NEW w \in Worker, PostSelf(w) PROVE TypeOK'
  BY <1>17 DEF PostSelf, queuevars, poolvars, sdvars
<1>18. ASSUME NEW w \in Worker, Exit(w) PROVE TypeOK'
  BY <1>18 DEF Exit, queuevars, poolvars, sdvars
<1>19. ASSUME shutdown PROVE TypeOK'
  BY <1>19 DEF shutdown, queuevars, poolvars, sdvars
<1>20. ASSUME NEW w \in Worker, Terminate(w) PROVE TypeOK'
  BY <1>20 DEF Terminate, queuevars, poolvars, sdvars
<1>21. ASSUME StartWaiting PROVE TypeOK'
  BY <1>21 DEF StartWaiting, queuevars, poolvars, sdvars
<1>22. ASSUME NEW w \in Worker, Join(w) PROVE TypeOK'
  BY <1>22 DEF Join, queuevars, poolvars, sdvars
<1>23. ASSUME ShutdownDone PROVE TypeOK'
  BY <1>23 DEF ShutdownDone, queuevars, poolvars, sdvars
<1>24. ASSUME UNCHANGED vars PROVE TypeOK'
  BY <1>24 DEF vars, poolvars, queuevars, sdvars
<1> QED
  BY <1>2, <1>3, <1>4, <1>5, <1>6, <1>7, <1>8, <1>9, <1>10, <1>11, <1>12, <1>13, <1>14, <1>15, <1>16, <1>17, <1>18, <1>19, <1>20, <1>21, <1>22, <1>23, <1>24 DEF Next, PutterStep, WorkerStep, ShutdownStep, vars

\* Only the thread that took Qaccess is inside it.
LEMMA LockStep == ASSUME ProtocolInv, [Next]_vars PROVE LockInv'
<1>1. TypeOK /\ LockInv /\ WorkInv /\ IdleInv /\ PoolInv /\ TypeOK'
  BY TypeStep DEF ProtocolInv
<1> USE <1>1, ConstantsAssumption DEF TypeOK, LockInv, Thread, Holding, WorkerPC, PutterPC
<1>2. ASSUME NEW p \in Putter, NEW m \in Msg, put_msg(p, m) PROVE LockInv'
  BY <1>2 DEF put_msg, queuevars, poolvars, sdvars
<1>3. ASSUME NEW p \in Putter, PutTakeThread(p) PROVE LockInv'
  BY <1>3 DEF PutTakeThread, get_idle_thread, TakeThread, queuevars, poolvars, sdvars
<1>4. ASSUME NEW p \in Putter, PutQueue(p) PROVE LockInv'
  BY <1>4 DEF PutQueue, queuevars, poolvars, sdvars
<1>5. ASSUME NEW p \in Putter, PutHand(p) PROVE LockInv'
  BY <1>5 DEF PutHand, queuevars, poolvars, sdvars
<1>6. ASSUME NEW p \in Putter, PutMarkBusy(p) PROVE LockInv'
  BY <1>6 DEF PutMarkBusy, queuevars, poolvars, sdvars
<1>7. ASSUME NEW p \in Putter, PutPost(p) PROVE LockInv'
  BY <1>7 DEF PutPost, queuevars, poolvars, sdvars
<1>8. ASSUME NEW w \in Worker, Wake(w) PROVE LockInv'
  BY <1>8 DEF Wake, queuevars, poolvars, sdvars
<1>9. ASSUME NEW w \in Worker, Interrupted(w) PROVE LockInv'
  BY <1>9 DEF Interrupted, queuevars, poolvars, sdvars
<1>10. ASSUME NEW w \in Worker, Run(w) PROVE LockInv'
  BY <1>10 DEF Run, queuevars, poolvars, sdvars
<1>11. ASSUME NEW w \in Worker, CheckSelf(w) PROVE LockInv'
  <2>1. \A t \in Thread : pc[t] \notin Holding
    BY <1>11 DEF CheckSelf
  <2>2. \E l \in {"postself", "markidle"} : pc' = [pc EXCEPT ![w] = l]
    BY <1>11 DEF CheckSelf
  <2>3. UNCHANGED <<Qaccess, kt>>
    BY <1>11 DEF CheckSelf
  <2> QED
    BY <1>11, <2>1, <2>2, <2>3
<1>12. ASSUME NEW w \in Worker, MarkIdle(w) PROVE LockInv'
  BY <1>12 DEF MarkIdle, queuevars, poolvars, sdvars
<1>13. ASSUME NEW w \in Worker, CheckAnyNone(w) PROVE LockInv'
  BY <1>13 DEF CheckAnyNone, queuevars, poolvars, sdvars
<1>14. ASSUME NEW w \in Worker, CheckAnyTakeThread(w) PROVE LockInv'
  BY <1>14 DEF CheckAnyTakeThread, get_idle_thread, TakeThread, queuevars, poolvars, sdvars
<1>15. ASSUME NEW w \in Worker, CheckAnyHand(w) PROVE LockInv'
  BY <1>15 DEF CheckAnyHand, queuevars, poolvars, sdvars
<1>16. ASSUME NEW w \in Worker, CheckAnyMarkBusy(w) PROVE LockInv'
  BY <1>16 DEF CheckAnyMarkBusy, queuevars, poolvars, sdvars
<1>17. ASSUME NEW w \in Worker, PostSelf(w) PROVE LockInv'
  BY <1>17 DEF PostSelf, queuevars, poolvars, sdvars
<1>18. ASSUME NEW w \in Worker, Exit(w) PROVE LockInv'
  BY <1>18 DEF Exit, queuevars, poolvars, sdvars
<1>19. ASSUME shutdown PROVE LockInv'
  BY <1>19 DEF shutdown, queuevars, poolvars, sdvars
<1>20. ASSUME NEW w \in Worker, Terminate(w) PROVE LockInv'
  BY <1>20 DEF Terminate, queuevars, poolvars, sdvars
<1>21. ASSUME StartWaiting PROVE LockInv'
  BY <1>21 DEF StartWaiting, queuevars, poolvars, sdvars
<1>22. ASSUME NEW w \in Worker, Join(w) PROVE LockInv'
  BY <1>22 DEF Join, queuevars, poolvars, sdvars
<1>23. ASSUME ShutdownDone PROVE LockInv'
  BY <1>23 DEF ShutdownDone, queuevars, poolvars, sdvars
<1>24. ASSUME UNCHANGED vars PROVE LockInv'
  BY <1>24 DEF vars, poolvars, queuevars, sdvars
<1> QED
  BY <1>2, <1>3, <1>4, <1>5, <1>6, <1>7, <1>8, <1>9, <1>10, <1>11, <1>12, <1>13, <1>14, <1>15, <1>16, <1>17, <1>18, <1>19, <1>20, <1>21, <1>22, <1>23, <1>24 DEF Next, PutterStep, WorkerStep, ShutdownStep, vars

\* Each hand-over moves the message and the state of the worker together.
LEMMA WorkStep == ASSUME ProtocolInv, [Next]_vars PROVE WorkInv'
<1>1. TypeOK /\ LockInv /\ WorkInv /\ IdleInv /\ PoolInv /\ TypeOK'
  BY TypeStep DEF ProtocolInv
<1> USE <1>1, ConstantsAssumption DEF TypeOK, LockInv, WorkInv, IdleInv, PoolInv, Thread, Holding
<1>2. ASSUME NEW p \in Putter, NEW m \in Msg, put_msg(p, m) PROVE WorkInv'
  BY <1>2 DEF put_msg, queuevars, poolvars, sdvars
<1>3. ASSUME NEW p \in Putter, PutTakeThread(p) PROVE WorkInv'
  <2>1. PICK v \in Worker : get_idle_thread(v) /\ kt' = [kt EXCEPT ![p] = v]
    BY <1>3 DEF PutTakeThread
  <2>2. state' = [state EXCEPT ![v] = "Transition"] /\ msg[v] = NoMsg /\ state[v] /= "Busy"
    BY <1>1, <2>1, TakeThreadIdle
  <2>3. \A t \in Thread : pc[t] \notin Holding
    BY <1>3 DEF PutTakeThread
  <2>4. /\ pc' = [pc EXCEPT ![p] = "hand"]
        /\ Qaccess' = p
        /\ UNCHANGED <<msg, arg>>
    BY <1>3 DEF PutTakeThread
  <2> QED
    BY <1>3, <2>1, <2>2, <2>3, <2>4 DEF PutTakeThread
<1>4. ASSUME NEW p \in Putter, PutQueue(p) PROVE WorkInv'
  BY <1>4 DEF PutQueue, queuevars, poolvars, sdvars
<1>5. ASSUME NEW p \in Putter, PutHand(p) PROVE WorkInv'
  <2>1. /\ Qaccess = p /\ kt[p] \in Worker /\ state[kt[p]] = "Transition"
        /\ arg[p] /= NoMsg
    BY <1>5 DEF PutHand
  <2>2. /\ msg' = [msg EXCEPT ![kt[p]] = arg[p]]
        /\ arg' = [arg EXCEPT ![p] = NoMsg]
        /\ pc' = [pc EXCEPT ![p] = "busy"]
        /\ UNCHANGED <<Qaccess, state, kt>>
    BY <1>5 DEF PutHand, queuevars
  <2> QED
    BY <1>5, <2>1, <2>2 DEF PutHand
<1>6. ASSUME NEW p \in Putter, PutMarkBusy(p) PROVE WorkInv'
  BY <1>6 DEF PutMarkBusy, queuevars, poolvars, sdvars
<1>7. ASSUME NEW p \in Putter, PutPost(p) PROVE WorkInv'
  BY <1>7 DEF PutPost, queuevars, poolvars, sdvars
<1>8. ASSUME NEW w \in Worker, Wake(w) PROVE WorkInv'
  BY <1>8 DEF Wake, queuevars, poolvars, sdvars
<1>9. ASSUME NEW w \in Worker, Interrupted(w) PROVE WorkInv'
  BY <1>9 DEF Interrupted, queuevars, poolvars, sdvars
<1>10. ASSUME NEW w \in Worker, Run(w) PROVE WorkInv'
  BY <1>10 DEF Run, queuevars, poolvars, sdvars
<1>11. ASSUME NEW w \in Worker, CheckSelf(w) PROVE WorkInv'
  <2>1. Qaccess = NoThread /\ \A t \in Thread : pc[t] \notin Holding
    BY <1>11 DEF CheckSelf
  <2>2. UNCHANGED <<Qaccess, kt, arg>>
    BY <1>11 DEF CheckSelf
  <2>3. CASE Q = <<>>
    <3>1. UNCHANGED <<msg, state>> /\ pc' = [pc EXCEPT ![w] = "markidle"]
      BY <1>11, <2>3 DEF CheckSelf
    <3> QED
      BY <1>11, <2>1, <2>2, <3>1 DEF CheckSelf
  <2>4. CASE Q /= <<>>
    <3>1. /\ state' = [state EXCEPT ![w] = "Busy"]
          /\ pc' = [pc EXCEPT ![w] = "postself"]
          /\ msg' = [msg EXCEPT ![w] = Head(Q)]
      BY <1>11, <2>4 DEF CheckSelf
    <3>2. Head(Q) /= NoMsg
      BY <2>4
    <3> QED
      BY <1>11, <2>1, <2>2, <3>1, <3>2 DEF CheckSelf
  <2> QED
    BY <2>3, <2>4
<1>12. ASSUME NEW w \in Worker, MarkIdle(w) PROVE WorkInv'
  BY <1>12 DEF MarkIdle, queuevars, poolvars, sdvars
<1>13. ASSUME NEW w \in Worker, CheckAnyNone(w) PROVE WorkInv'
  BY <1>13 DEF CheckAnyNone, queuevars, poolvars, sdvars
<1>14. ASSUME NEW w \in Worker, CheckAnyTakeThread(w) PROVE WorkInv'
  <2>1. PICK v \in Worker : get_idle_thread(v) /\ kt' = [kt EXCEPT ![w] = v]
    BY <1>14 DEF CheckAnyTakeThread
  <2>2. state' = [state EXCEPT ![v] = "Transition"] /\ msg[v] = NoMsg /\ state[v] /= "Busy"
    BY <1>1, <2>1, TakeThreadIdle
  <2>3. \A t \in Thread : pc[t] \notin Holding
    BY <1>14 DEF CheckAnyTakeThread
  <2>4. /\ pc' = [pc EXCEPT ![w] = "handqueued"]
        /\ Qaccess' = w
        /\ UNCHANGED <<msg, arg>>
    BY <1>14 DEF CheckAnyTakeThread
  <2> QED
    BY <1>14, <2>1, <2>2, <2>3, <2>4 DEF CheckAnyTakeThread
<1>15. ASSUME NEW w \in Worker, CheckAnyHand(w) PROVE WorkInv'
  <2>1. Qaccess = w /\ kt[w] \in Worker /\ state[kt[w]] = "Transition"
    BY <1>15 DEF CheckAnyHand
  <2>2. Head(Q) /= NoMsg
    BY <1>15 DEF CheckAnyHand
  <2>3. /\ msg' = [msg EXCEPT ![kt[w]] = Head(Q)]
        /\ pc' = [pc EXCEPT ![w] = "busyqueued"]
        /\ UNCHANGED <<Qaccess, state, kt, arg>>
    BY <1>15 DEF CheckAnyHand
  <2> QED
    BY <1>15, <2>1, <2>2, <2>3 DEF CheckAnyHand
<1>16. ASSUME NEW w \in Worker, CheckAnyMarkBusy(w) PROVE WorkInv'
  BY <1>16 DEF CheckAnyMarkBusy, queuevars, poolvars, sdvars
<1>17. ASSUME NEW w \in Worker, PostSelf(w) PROVE WorkInv'
  BY <1>17 DEF PostSelf, queuevars, poolvars, sdvars
<1>18. ASSUME NEW w \in Worker, Exit(w) PROVE WorkInv'
  BY <1>18 DEF Exit, queuevars, poolvars, sdvars
<1>19. ASSUME shutdown PROVE WorkInv'
  BY <1>19 DEF shutdown, queuevars, poolvars, sdvars
<1>20. ASSUME NEW w \in Worker, Terminate(w) PROVE WorkInv'
  BY <1>20 DEF Terminate, queuevars, poolvars, sdvars
<1>21. ASSUME StartWaiting PROVE WorkInv'
  BY <1>21 DEF StartWaiting, queuevars, poolvars, sdvars
<1>22. ASSUME NEW w \in Worker, Join(w) PROVE WorkInv'
  BY <1>22 DEF Join, queuevars, poolvars, sdvars
<1>23. ASSUME ShutdownDone PROVE WorkInv'
  BY <1>23 DEF ShutdownDone, queuevars, poolvars, sdvars
<1>24. ASSUME UNCHANGED vars PROVE WorkInv'
  BY <1>24 DEF vars, poolvars, queuevars, sdvars
<1> QED
  BY <1>2, <1>3, <1>4, <1>5, <1>6, <1>7, <1>8, <1>9, <1>10, <1>11, <1>12, <1>13, <1>14, <1>15, <1>16, <1>17, <1>18, <1>19, <1>20, <1>21, <1>22, <1>23, <1>24 DEF Next, PutterStep, WorkerStep, ShutdownStep, vars

\* The idle list stays exact.
LEMMA IdleStep == ASSUME ProtocolInv, [Next]_vars PROVE IdleInv'
<1>1. TypeOK /\ LockInv /\ WorkInv /\ IdleInv /\ PoolInv /\ TypeOK'
  BY TypeStep DEF ProtocolInv
<1> USE <1>1, ConstantsAssumption DEF TypeOK, LockInv, WorkInv, IdleInv, PoolInv, Thread, Holding
<1>2. ASSUME NEW p \in Putter, NEW m \in Msg, put_msg(p, m) PROVE IdleInv'
  BY <1>2 DEF put_msg, queuevars, poolvars, sdvars
<1>3. ASSUME NEW p \in Putter, PutTakeThread(p) PROVE IdleInv'
  <2>1. PICK v \in Worker : get_idle_thread(v) /\ kt' = [kt EXCEPT ![p] = v]
    BY <1>3 DEF PutTakeThread
  <2>2. pc' = [pc EXCEPT ![p] = "hand"] /\ UNCHANGED msg
    BY <1>3 DEF PutTakeThread
  <2> QED
    BY <1>1, <1>3, <2>1, <2>2, TakeThreadIdle DEF PutTakeThread
<1>4. ASSUME NEW p \in Putter, PutQueue(p) PROVE IdleInv'
  BY <1>4 DEF PutQueue, queuevars, poolvars, sdvars
<1>5. ASSUME NEW p \in Putter, PutHand(p) PROVE IdleInv'
  BY <1>5 DEF PutHand, poolvars
<1>6. ASSUME NEW p \in Putter, PutMarkBusy(p) PROVE IdleInv'
  BY <1>6 DEF PutMarkBusy, queuevars, poolvars, sdvars
<1>7. ASSUME NEW p \in Putter, PutPost(p) PROVE IdleInv'
  BY <1>7 DEF PutPost, queuevars, poolvars, sdvars
<1>8. ASSUME NEW w \in Worker, Wake(w) PROVE IdleInv'
  BY <1>8 DEF Wake, queuevars, poolvars, sdvars
<1>9. ASSUME NEW w \in Worker, Interrupted(w) PROVE IdleInv'
  BY <1>9 DEF Interrupted, queuevars, poolvars, sdvars
<1>10. ASSUME NEW w \in Worker, Run(w) PROVE IdleInv'
  BY <1>10 DEF Run, queuevars, poolvars, sdvars
<1>11. ASSUME NEW w \in Worker, CheckSelf(w) PROVE IdleInv'
  BY <1>11 DEF CheckSelf, queuevars, poolvars, sdvars
<1>12. ASSUME NEW w \in Worker, MarkIdle(w) PROVE IdleInv'
  <2>1. state[w] = "Busy" /\ msg[w] = NoMsg /\ w \in all_threads
    BY <1>12 DEF MarkIdle
  <2>2. /\ idle_threads' = Append(idle_threads, w)
        /\ state' = [state EXCEPT ![w] = "Idle"]
        /\ pc' = [pc EXCEPT ![w] = "checkany"]
        /\ UNCHANGED <<all_threads, msg>>
    BY <1>12, <2>1 DEF MarkIdle
  <2>9. /\ idle_threads \in Seq(Worker)
        /\ \A i, j \in 1..Len(idle_threads) : idle_threads[i] = idle_threads[j] => i = j
        /\ \A i \in 1..Len(idle_threads) : state[idle_threads[i]] = "Idle"
        /\ state \in [Worker -> {"Transition", "Idle", "Busy"}]
    BY <1>1
  <2>3. /\ Len(idle_threads) \in Nat
        /\ Len(idle_threads') = Len(idle_threads) + 1
        /\ \A i \in 1..Len(idle_threads) : idle_threads'[i] = idle_threads[i]
        /\ idle_threads'[Len(idle_threads) + 1] = w
    <3> HIDE <1>1, ConstantsAssumption DEF TypeOK, LockInv, WorkInv, IdleInv, PoolInv
    <3> QED
      BY <2>2, <2>9
  <2>4. \A i \in 1..Len(idle_threads) : idle_threads[i] \in Worker /\ idle_threads[i] /= w
    <3> HIDE <1>1, ConstantsAssumption DEF TypeOK, LockInv, WorkInv, IdleInv, PoolInv
    <3> QED
      BY <2>1, <2>9
  <2>5. \A i, j \in 1..Len(idle_threads') : idle_threads'[i] = idle_threads'[j] => i = j
    <3> HIDE <1>1, ConstantsAssumption DEF TypeOK, LockInv, WorkInv, IdleInv, PoolInv
    <3> QED
      BY <2>2, <2>4, <2>9, AppendExact
  <2>6. \A i \in 1..Len(idle_threads') : state'[idle_threads'[i]] = "Idle"
    <3> HIDE <1>1, ConstantsAssumption DEF TypeOK, LockInv, WorkInv, IdleInv, PoolInv
    <3>1. \A i \in 1..Len(idle_threads') : i \in 1..Len(idle_threads) \/ i = Len(idle_threads) + 1
      BY <2>3
    <3> QED
      BY <2>2, <2>3, <2>4, <2>9, <3>1
  <2>7. ASSUME NEW v \in Worker, state'[v] = "Idle"
        PROVE  \E i \in 1..Len(idle_threads') : idle_threads'[i] = v
    <3>1. CASE v = w
      <4>1. Len(idle_threads) + 1 \in 1..Len(idle_threads')
        BY <2>3
      <4> QED
        BY <2>3, <3>1, <4>1
    <3>2. CASE v /= w
      <4>1. state[v] = "Idle"
        BY <2>2, <2>7, <3>2
      <4>2. PICK i \in 1..Len(idle_threads) : idle_threads[i] = v
        BY <4>1
      <4>3. i \in 1..Len(idle_threads')
        <5> HIDE <1>1, ConstantsAssumption DEF TypeOK, LockInv, WorkInv, IdleInv, PoolInv
        <5> QED
          BY <2>3, <4>2
      <4>4. idle_threads'[i] = idle_threads[i]
        BY <2>3, <4>2
      <4> QED
        BY <4>2, <4>3, <4>4
    <3> QED
      BY <3>1, <3>2
  <2> QED
    BY <2>5, <2>6, <2>7
<1>13. ASSUME NEW w \in Worker, CheckAnyNone(w) PROVE IdleInv'
  BY <1>13 DEF CheckAnyNone, queuevars, poolvars, sdvars
<1>14. ASSUME NEW w \in Worker, CheckAnyTakeThread(w) PROVE IdleInv'
  <2>1. PICK v \in Worker : get_idle_thread(v) /\ kt' = [kt EXCEPT ![w] = v]
    BY <1>14 DEF CheckAnyTakeThread
  <2>2. pc' = [pc EXCEPT ![w] = "handqueued"] /\ UNCHANGED msg
    BY <1>14 DEF CheckAnyTakeThread
  <2> QED
    BY <1>1, <1>14, <2>1, <2>2, TakeThreadIdle DEF CheckAnyTakeThread
<1>15. ASSUME NEW w \in Worker, CheckAnyHand(w) PROVE IdleInv'
  BY <1>15 DEF CheckAnyHand, poolvars
<1>16. ASSUME NEW w \in Worker, CheckAnyMarkBusy(w) PROVE IdleInv'
  BY <1>16 DEF CheckAnyMarkBusy, queuevars, poolvars, sdvars
<1>17. ASSUME NEW w \in Worker, PostSelf(w) PROVE IdleInv'
  BY <1>17 DEF PostSelf, queuevars, poolvars, sdvars
<1>18. ASSUME NEW w \in Worker, Exit(w) PROVE IdleInv'
  BY <1>18 DEF Exit, queuevars, poolvars, sdvars
<1>19. ASSUME shutdown PROVE IdleInv'
  BY <1>19 DEF shutdown, queuevars, poolvars, sdvars
<1>20. ASSUME NEW w \in Worker, Terminate(w) PROVE IdleInv'
  BY <1>20 DEF Terminate, queuevars, poolvars, sdvars
<1>21. ASSUME StartWaiting PROVE IdleInv'
  BY <1>21 DEF StartWaiting, queuevars, poolvars, sdvars
<1>22. ASSUME NEW w \in Worker, Join(w) PROVE IdleInv'
  BY <1>22 DEF Join, queuevars, poolvars, sdvars
<1>23. ASSUME ShutdownDone PROVE IdleInv'
  BY <1>23 DEF ShutdownDone, queuevars, poolvars, sdvars
<1>24. ASSUME UNCHANGED vars PROVE IdleInv'
  BY <1>24 DEF vars, poolvars, queuevars, sdvars
<1> QED
  BY <1>2, <1>3, <1>4, <1>5, <1>6, <1>7, <1>8, <1>9, <1>10, <1>11, <1>12, <1>13, <1>14, <1>15, <1>16, <1>17, <1>18, <1>19, <1>20, <1>21, <1>22, <1>23, <1>24 DEF Next, PutterStep, WorkerStep, ShutdownStep, vars

\* No thread outside all_threads ever runs or is handed a message.
LEMMA PoolStep == ASSUME ProtocolInv, [Next]_vars PROVE PoolInv'
<1>1. TypeOK /\ LockInv /\ WorkInv /\ IdleInv /\ PoolInv /\ TypeOK'
  BY TypeStep DEF ProtocolInv
<1> USE <1>1, ConstantsAssumption DEF TypeOK, LockInv, IdleInv, PoolInv, Thread, Holding
<1>2. ASSUME NEW p \in Putter, NEW m \in Msg, put_msg(p, m) PROVE PoolInv'
  BY <1>2 DEF put_msg, queuevars, poolvars, sdvars
<1>3. ASSUME NEW p \in Putter, PutTakeThread(p) PROVE PoolInv'
  <2>1. PICK v \in Worker : get_idle_thread(v) /\ kt' = [kt EXCEPT ![p] = v]
    BY <1>3 DEF PutTakeThread
  <2>2. /\ state' = [state EXCEPT ![v] = "Transition"]
        /\ v \in all_threads' /\ all_threads \subseteq all_threads'
    BY <1>1, <2>1, TakeThreadIdle
  <2>3. pc' = [pc EXCEPT ![p] = "hand"] /\ UNCHANGED <<msg, cancelled, sdleft>>
    BY <1>3 DEF PutTakeThread, sdvars
  <2>4. \A t \in Thread : pc[t] \notin {"hand", "busy", "post", "handqueued", "busyqueued"}
    BY <1>3 DEF PutTakeThread
  <2>5. p \notin Worker
    BY <1>3 DEF PutTakeThread
  <2> QED
    BY <2>1, <2>2, <2>3, <2>4, <2>5
<1>4. ASSUME NEW p \in Putter, PutQueue(p) PROVE PoolInv'
  BY <1>4 DEF PutQueue, queuevars, poolvars, sdvars
<1>5. ASSUME NEW p \in Putter, PutHand(p) PROVE PoolInv'
  BY <1>5 DEF PutHand, queuevars, poolvars, sdvars
<1>6. ASSUME NEW p \in Putter, PutMarkBusy(p) PROVE PoolInv'
  BY <1>6 DEF PutMarkBusy, queuevars, poolvars, sdvars
<1>7. ASSUME NEW p \in Putter, PutPost(p) PROVE PoolInv'
  BY <1>7 DEF PutPost, queuevars, poolvars, sdvars
<1>8. ASSUME NEW w \in Worker, Wake(w) PROVE PoolInv'
  BY <1>8 DEF Wake, queuevars, poolvars, sdvars
<1>9. ASSUME NEW w \in Worker, Interrupted(w) PROVE PoolInv'
  BY <1>9 DEF Interrupted, queuevars, poolvars, sdvars
<1>10. ASSUME NEW w \in Worker, Run(w) PROVE PoolInv'
  BY <1>10 DEF Run, queuevars, poolvars, sdvars
<1>11. ASSUME NEW w \in Worker, CheckSelf(w) PROVE PoolInv'
  BY <1>11 DEF CheckSelf, queuevars, poolvars, sdvars
<1>12. ASSUME NEW w \in Worker, MarkIdle(w) PROVE PoolInv'
  BY <1>12 DEF MarkIdle, queuevars, poolvars, sdvars
<1>13. ASSUME NEW w \in Worker, CheckAnyNone(w) PROVE PoolInv'
  BY <1>13 DEF CheckAnyNone, queuevars, poolvars, sdvars
<1>14. ASSUME NEW w \in Worker, CheckAnyTakeThread(w) PROVE PoolInv'
  <2>1. PICK v \in Worker : get_idle_thread(v) /\ kt' = [kt EXCEPT ![w] = v]
    BY <1>14 DEF CheckAnyTakeThread
  <2>2. /\ state' = [state EXCEPT ![v] = "Transition"]
        /\ v \in all_threads' /\ all_threads \subseteq all_threads'
    BY <1>1, <2>1, TakeThreadIdle
  <2>3. pc' = [pc EXCEPT ![w] = "handqueued"] /\ UNCHANGED <<msg, cancelled, sdleft>>
    BY <1>14 DEF CheckAnyTakeThread, sdvars
  <2>4. \A t \in Thread : pc[t] \notin {"hand", "busy", "post", "handqueued", "busyqueued"}
    BY <1>14 DEF CheckAnyTakeThread
  <2>5. w \in all_threads
    BY <1>14 DEF CheckAnyTakeThread
  <2> QED
    BY <2>1, <2>2, <2>3, <2>4, <2>5
<1>15. ASSUME NEW w \in Worker, CheckAnyHand(w) PROVE PoolInv'
  BY <1>15 DEF CheckAnyHand, queuevars, poolvars, sdvars
<1>16. ASSUME NEW w \in Worker, CheckAnyMarkBusy(w) PROVE PoolInv'
  BY <1>16 DEF CheckAnyMarkBusy, queuevars, poolvars, sdvars
<1>17. ASSUME NEW w \in Worker, PostSelf(w) PROVE PoolInv'
  BY <1>17 DEF PostSelf, queuevars, poolvars, sdvars
<1>18. ASSUME NEW w \in Worker, Exit(w) PROVE PoolInv'
  BY <1>18 DEF Exit, queuevars, poolvars, sdvars
<1>19. ASSUME shutdown PROVE PoolInv'
  BY <1>19 DEF shutdown, queuevars, poolvars, sdvars
<1>20. ASSUME NEW w \in Worker, Terminate(w) PROVE PoolInv'
  BY <1>20 DEF Terminate, queuevars, poolvars, sdvars
<1>21. ASSUME StartWaiting PROVE PoolInv'
  BY <1>21 DEF StartWaiting, queuevars, poolvars, sdvars
<1>22. ASSUME NEW w \in Worker, Join(w) PROVE PoolInv'
  BY <1>22 DEF Join, queuevars, poolvars, sdvars
<1>23. ASSUME ShutdownDone PROVE PoolInv'
  BY <1>23 DEF ShutdownDone, queuevars, poolvars, sdvars
<1>24. ASSUME UNCHANGED vars PROVE PoolInv'
  BY <1>24 DEF vars, poolvars, queuevars, sdvars
<1> QED
  BY <1>2, <1>3, <1>4, <1>5, <1>6, <1>7, <1>8, <1>9, <1>10, <1>11, <1>12, <1>13, <1>14, <1>15, <1>16, <1>17, <1>18, <1>19, <1>20, <1>21, <1>22, <1>23, <1>24 DEF Next, PutterStep, WorkerStep, ShutdownStep, vars

-----------------------------------------------------------------------------
\* The protocol invariant holds at first.
LEMMA InitProtocol == Init => ProtocolInv
<1> SUFFICES ASSUME Init PROVE ProtocolInv
  OBVIOUS
<1> USE ConstantsAssumption DEF Init, Thread, Holding, WorkerPC, PutterPC
<1>1. TypeOK
  <2>1. Q \in Seq(Msg) /\ idle_threads \in Seq(Worker)
    OBVIOUS
  <2>2. pc \in [Thread -> WorkerPC \cup PutterPC]
    OBVIOUS
  <2>3. /\ state \in [Worker -> {"Transition", "Idle", "Busy"}]
        /\ state_sem \in [Worker -> Nat]
        /\ msg \in [Worker -> Msg \cup {NoMsg}]
        /\ kt \in [Thread -> Worker \cup {NoWorker}]
        /\ arg \in [Putter -> Msg \cup {NoMsg}]
    OBVIOUS
  <2> QED
    BY <2>1, <2>2, <2>3 DEF TypeOK
<1>2. LockInv
  BY DEF LockInv
<1>3. WorkInv
  BY DEF WorkInv
<1>4. IdleInv
  BY DEF IdleInv
<1>5. PoolInv
  BY DEF PoolInv
<1> QED
  BY <1>1, <1>2, <1>3, <1>4, <1>5 DEF ProtocolInv

\* The protocol between putters, workers and the idle list holds in every
\* reachable state, for any number of threads and messages.
THEOREM ProtocolInvariant == Spec => []ProtocolInv
<1>1. ProtocolInv /\ [Next]_vars => ProtocolInv'
  BY TypeStep, LockStep, WorkStep, IdleStep, PoolStep DEF ProtocolInv
<1> QED
  BY InitProtocol, <1>1, PTL DEF Spec

\* Every variable keeps its type.
THEOREM TypeCorrect == Spec => []TypeOK
<1>1. ProtocolInv => TypeOK
  BY DEF ProtocolInv
<1> QED
  BY ProtocolInvariant, <1>1, PTL

\* idle_threads holds exactly the workers in state Idle, each once, and none
\* of them has a message.
THEOREM IdleListCorrect == Spec => []IdleListExact
<1>1. ProtocolInv => IdleListExact
  <2> SUFFICES ASSUME ProtocolInv PROVE IdleListExact
    OBVIOUS
  <2>1. idle_threads \in Seq(Worker)
    BY DEF ProtocolInv, TypeOK
  <2>2. \A i \in 1..Len(idle_threads) : idle_threads[i] \in Worker
    BY <2>1
  <2>3. Idle = {w \in Worker : state[w] = "Idle"}
    BY <2>2 DEF Idle, ProtocolInv, IdleInv
  <2>4. \A w \in Idle : msg[w] = NoMsg /\ pc[w] /= "run"
    BY <2>3 DEF ProtocolInv, WorkInv
  <2> QED
    BY <2>3, <2>4 DEF IdleListExact, ProtocolInv, IdleInv
<1> QED
  BY ProtocolInvariant, <1>1, PTL

\* The assertion of mark_busy never fails.
THEOREM MarkBusyNeverIdle == Spec => []MarkBusyAssertion
<1>1. ProtocolInv => MarkBusyAssertion
  BY DEF ProtocolInv, WorkInv, MarkBusyAssertion, Holding
<1> QED
  BY ProtocolInvariant, <1>1, PTL

\* A worker that wakes to work has its message.
THEOREM MessageBeforeRun == Spec => []RunsWithMessage
<1>1. ProtocolInv => RunsWithMessage
  BY DEF ProtocolInv, WorkInv, RunsWithMessage
<1> QED
  BY ProtocolInvariant, <1>1, PTL

\* A hand-over reaches a worker that has left Idle and that wakes to find its
\* message, in a pool of any size: both facts hold of every behaviour.
THEOREM HandOverCorrect == Spec => []HandOver
<1>1. MarkBusyAssertion /\ RunsWithMessage => HandOver
  BY DEF HandOver
<1> QED
  BY <1>1, MarkBusyNeverIdle, MessageBeforeRun, PTL

-----------------------------------------------------------------------------
(***************************************************************************)
(* ThreadPool implements WorkQueue, for any number of workers, outside     *)
(* threads and messages.                                                   *)
(*                                                                         *)
(* A message is taken up when a worker wakes with it.  Placed says that a  *)
(* message that is not done is in one place, the hands of an outside       *)
(* thread, the queue or a worker, so that none is taken up twice; Limits   *)
(* that workers go only when shutdown() has begun, and that there are at   *)
(* most Max, so that no more messages are in process.                      *)
(***************************************************************************)

Undone == sent \ done

Placed ==
    /\ done \subseteq sent
    /\ \A w \in Worker : msg[w] /= NoMsg => msg[w] \in Undone
    /\ \A p \in Putter : arg[p] /= NoMsg => arg[p] \in Undone
    /\ \A i \in 1..Len(Q) : Q[i] \in Undone
    /\ \A v, w \in Worker : msg[v] = msg[w] => v = w \/ msg[v] = NoMsg
    /\ \A p, q \in Putter : arg[p] = arg[q] => p = q \/ arg[p] = NoMsg
    /\ \A i, j \in 1..Len(Q) : Q[i] = Q[j] => i = j
    /\ \A w \in Worker, p \in Putter : msg[w] = arg[p] => msg[w] = NoMsg
    /\ \A w \in Worker, i \in 1..Len(Q) : msg[w] /= Q[i]
    /\ \A p \in Putter, i \in 1..Len(Q) : arg[p] /= Q[i]

Limits ==
    /\ sd /= "none" \/ cancelled /= {} => shutdown_
    /\ \A w \in Worker : pc[w] = "exited" => w \in cancelled
    /\ Cardinality(all_threads) <= Max

PlaceInv == ProtocolInv /\ Placed /\ Limits

-----------------------------------------------------------------------------
\* A step that moves no message.
LEMMA NothingMoves ==
    ASSUME Placed, UNCHANGED <<Q, msg, arg, sent, done>>
    PROVE  Placed'
  BY DEF Placed, Undone

\* What a worker gets from the queue it has alone.
LEMMA FromQueue ==
    ASSUME PlaceInv, NEW w \in Worker, Q /= <<>>, msg' = [msg EXCEPT ![w] = Head(Q)],
           Q' = Tail(Q), UNCHANGED <<arg, sent, done>>
    PROVE  Placed'
<1>1. Q \in Seq(Msg) /\ msg \in [Worker -> Msg \cup {NoMsg}]
  BY DEF PlaceInv, ProtocolInv, TypeOK
<1>2. 1 \in 1..Len(Q) /\ Head(Q) = Q[1]
  BY <1>1
<1>3. \A i \in 1..Len(Q') : /\ i + 1 \in 1..Len(Q) /\ Q'[i] = Q[i + 1] /\ i + 1 /= 1
                            /\ i \in Nat
  BY <1>1
<1>4. \A v \in Worker : msg'[v] = IF v = w THEN Q[1] ELSE msg[v]
  BY <1>1, <1>2
<1>5. \A i \in 1..Len(Q) : Q[i] \in Undone /\ Q[i] /= NoMsg
  BY <1>1, ConstantsAssumption DEF PlaceInv, Placed
<1>6. Undone' = Undone
  BY DEF Undone
<1>7. \A i, j \in 1..Len(Q') : Q'[i] = Q'[j] => i = j
  BY <1>3 DEF PlaceInv, Placed
<1>8. /\ \A i \in 1..Len(Q') : Q'[i] \in Undone /\ Q'[i] /= Q[1]
      /\ \A v \in Worker, i \in 1..Len(Q') : msg[v] /= Q'[i]
      /\ \A p \in Putter, i \in 1..Len(Q') : arg[p] /= Q'[i]
  BY <1>2, <1>3, <1>5 DEF PlaceInv, Placed
<1> HIDE DEF Undone
<1> QED
  BY <1>2, <1>4, <1>5, <1>6, <1>7, <1>8 DEF PlaceInv, Placed

\* A step leaves each message in one place.
LEMMA PlacedStep == ASSUME PlaceInv, [Next]_vars PROVE Placed'
<1> USE DEF PlaceInv
<1>1. /\ Q \in Seq(Msg) /\ msg \in [Worker -> Msg \cup {NoMsg}]
      /\ arg \in [Putter -> Msg \cup {NoMsg}]
  BY DEF ProtocolInv, TypeOK
<1>2. ASSUME NEW p \in Putter, NEW m \in Msg, put_msg(p, m) PROVE Placed'
  <2>1. /\ UNCHANGED <<Q, msg, done>> /\ sent' = sent \cup {m} /\ m \notin sent
        /\ \A q \in Putter : arg'[q] = IF q = p THEN m ELSE arg[q]
    BY <1>1, <1>2 DEF put_msg, queuevars
  <2> QED
    BY <1>1, <2>1 DEF Placed, Undone
<1>3. ASSUME NEW p \in Putter, PutQueue(p) PROVE Placed'
  <2>1. /\ UNCHANGED <<msg, sent, done>> /\ Q' = Append(Q, arg[p])
        /\ \A q \in Putter : arg'[q] = IF q = p THEN NoMsg ELSE arg[q]
    BY <1>1, <1>3 DEF PutQueue
  <2>2. arg[p] \in Msg
    BY <1>1, <1>3 DEF PutQueue, ProtocolInv, WorkInv
  <2>3. /\ Len(Q') = Len(Q) + 1 /\ Len(Q) \in Nat
        /\ \A i \in 1..Len(Q') : \/ i \in 1..Len(Q) /\ Q'[i] = Q[i]
                                 \/ i = Len(Q') /\ Q'[i] = arg[p]
    BY <1>1, <2>1, <2>2
  <2>4. \A i, j \in 1..Len(Q') : Q'[i] = Q'[j] => i = j
    BY <2>2, <2>3 DEF Placed
  <2>5. /\ \A i \in 1..Len(Q') : Q'[i] \in Undone
        /\ \A w \in Worker, i \in 1..Len(Q') : msg[w] /= Q'[i]
        /\ \A q \in Putter, i \in 1..Len(Q') : arg'[q] /= Q'[i]
    BY <1>1, <2>1, <2>2, <2>3, ConstantsAssumption DEF Placed
  <2> QED
    BY <1>1, <2>1, <2>4, <2>5 DEF Placed, Undone
<1>4. ASSUME NEW p \in Putter, PutHand(p) PROVE Placed'
  <2>1. kt[p] \in Worker /\ UNCHANGED <<Q, sent, done>>
    BY <1>4 DEF PutHand, queuevars, ProtocolInv, LockInv, Holding, Thread
  <2>2. /\ \A w \in Worker : msg'[w] = IF w = kt[p] THEN arg[p] ELSE msg[w]
        /\ \A q \in Putter : arg'[q] = IF q = p THEN NoMsg ELSE arg[q]
    BY <1>1, <1>4, <2>1 DEF PutHand
  <2> QED
    BY <1>1, <2>1, <2>2, ConstantsAssumption DEF Placed, Undone
<1>5. ASSUME NEW w \in Worker, Run(w) PROVE Placed'
  <2>1. /\ UNCHANGED <<Q, arg, sent>> /\ done' \subseteq done \cup {msg[w]}
        /\ \A v \in Worker : msg'[v] = IF v = w THEN NoMsg ELSE msg[v]
        /\ msg[w] /= NoMsg
    BY <1>1, <1>5 DEF Run, queuevars, ProtocolInv, WorkInv
  <2> QED
    BY <1>1, <2>1, ConstantsAssumption DEF Placed, Undone
<1>6. ASSUME NEW w \in Worker, CheckSelf(w) PROVE Placed'
  BY <1>6, FromQueue, NothingMoves DEF CheckSelf
<1>7. ASSUME NEW w \in Worker, CheckAnyHand(w) PROVE Placed'
  <2>1. kt[w] \in Worker /\ Q /= <<>>
    BY <1>7 DEF CheckAnyHand, ProtocolInv, LockInv, Holding, Thread
  <2> QED
    BY <1>7, <2>1, FromQueue DEF CheckAnyHand
<1>8. ASSUME NEW p \in Putter, PutTakeThread(p) \/ PutMarkBusy(p) \/ PutPost(p) PROVE Placed'
  BY <1>8, NothingMoves DEF PutTakeThread, PutMarkBusy, PutPost, queuevars
<1>9. ASSUME NEW w \in Worker, \/ Wake(w) \/ Interrupted(w) \/ MarkIdle(w) \/ CheckAnyNone(w)
                               \/ CheckAnyTakeThread(w) \/ CheckAnyMarkBusy(w) \/ PostSelf(w)
                               \/ Exit(w) \/ Terminate(w) \/ Join(w)
      PROVE  Placed'
  BY <1>9, NothingMoves DEF Wake, Interrupted, MarkIdle, CheckAnyNone, CheckAnyTakeThread,
     CheckAnyMarkBusy, PostSelf, Exit, Terminate, Join, queuevars
<1>10. CASE shutdown \/ StartWaiting \/ ShutdownDone
  BY <1>10, NothingMoves DEF shutdown, StartWaiting, ShutdownDone, queuevars
<1>11. CASE UNCHANGED vars
  BY <1>11, NothingMoves DEF vars
<1> QED
  BY <1>2, <1>3, <1>4, <1>5, <1>6, <1>7, <1>8, <1>9, <1>10, <1>11
     DEF Next, PutterStep, WorkerStep, ShutdownStep

\* A step keeps the pool within its limits; workers exit when it is shut down only.
LEMMA LimitsStep == ASSUME PlaceInv, [Next]_vars PROVE Limits'
<1> USE DEF PlaceInv
<1>1. ASSUME UNCHANGED <<all_threads, shutdown_, sd, cancelled>>,
             \A w \in Worker : pc'[w] = "exited" => pc[w] = "exited" \/ w \in cancelled
      PROVE  Limits'
  BY <1>1 DEF Limits
<1>2. pc \in [Thread -> WorkerPC \cup PutterPC] /\ Worker \subseteq Thread
      /\ Putter \subseteq Thread
  BY DEF ProtocolInv, TypeOK, Thread
<1>3. ASSUME NEW w \in Worker, get_idle_thread(w), UNCHANGED <<shutdown_, sd, cancelled>>,
             \A v \in Worker : pc'[v] = "exited" => pc[v] = "exited"
      PROVE  Limits'
  <2>1. IsFiniteSet(all_threads)
    BY FS_Subset, ConstantsAssumption DEF ProtocolInv, TypeOK
  <2>2. CASE UNCHANGED all_threads
    BY <1>1, <1>3, <2>2
  <2>3. CASE /\ Cardinality(all_threads) < Max /\ w \notin all_threads
             /\ all_threads' = all_threads \cup {w}
    <3>1. Cardinality(all_threads') = Cardinality(all_threads) + 1
      BY <2>1, <2>3, FS_AddElement
    <3>2. Cardinality(all_threads') <= Max
      BY <2>1, <2>3, <3>1, FS_CardinalityType, ConstantsAssumption
    <3> QED
      BY <1>3, <3>2 DEF Limits
  <2> QED
    BY <1>3, <2>2, <2>3 DEF get_idle_thread, TakeThread
<1>4. ASSUME NEW p \in Putter, \/ \E m \in Msg : put_msg(p, m)
                               \/ PutQueue(p) \/ PutHand(p) \/ PutMarkBusy(p) \/ PutPost(p)
      PROVE  Limits'
  BY <1>1, <1>2, <1>4 DEF put_msg, PutQueue, PutHand, PutMarkBusy, PutPost, poolvars, sdvars
<1>5. ASSUME NEW p \in Putter, PutTakeThread(p) PROVE Limits'
  BY <1>2, <1>3, <1>5 DEF PutTakeThread, sdvars
<1>6. ASSUME NEW w \in Worker,
             \/ Wake(w) \/ Interrupted(w) \/ Run(w) \/ CheckSelf(w) \/ MarkIdle(w)
             \/ CheckAnyNone(w) \/ CheckAnyHand(w) \/ CheckAnyMarkBusy(w) \/ PostSelf(w)
             \/ Exit(w)
      PROVE  Limits'
  <2>1. /\ UNCHANGED <<all_threads, shutdown_, sd, cancelled>>
        /\ \E l : pc' = [pc EXCEPT ![w] = l] /\ (l = "exited" => w \in cancelled)
    BY <1>6 DEF Wake, Interrupted, Run, CheckSelf, MarkIdle, CheckAnyNone, CheckAnyHand,
       CheckAnyMarkBusy, PostSelf, Exit, poolvars, sdvars
  <2> QED
    BY <1>1, <1>2, <2>1
<1>7. ASSUME NEW w \in Worker, CheckAnyTakeThread(w) PROVE Limits'
  BY <1>2, <1>3, <1>7 DEF CheckAnyTakeThread, sdvars
<1>8. ASSUME \/ shutdown \/ StartWaiting \/ ShutdownDone
             \/ \E w \in Worker : Terminate(w) \/ Join(w)
      PROVE  Limits'
  BY <1>8 DEF shutdown, StartWaiting, ShutdownDone, Terminate, Join, Limits, poolvars
<1>9. CASE UNCHANGED vars
  BY <1>1, <1>9 DEF vars
<1> QED
  BY <1>4, <1>5, <1>6, <1>7, <1>8, <1>9 DEF Next, PutterStep, WorkerStep, ShutdownStep

\* Every message is in one place, and the pool has at most Max workers.
THEOREM PlaceInvariant == Spec => []PlaceInv
<1>1. Init => Placed /\ Limits
  BY FS_EmptySet, ConstantsAssumption DEF Init, Placed, Limits, Thread
<1>2. ProtocolInv /\ Placed /\ Limits /\ [Next]_vars => Placed' /\ Limits'
  BY PlacedStep, LimitsStep DEF PlaceInv
<1> QED
  BY ProtocolInvariant, <1>1, <1>2, PTL DEF Spec, PlaceInv

-----------------------------------------------------------------------------
(***************************************************************************)
(* Steps of the pool and of the work queue.                                *)
(***************************************************************************)
At(l, m) == \E w \in Worker : pc[w] = l /\ msg[w] = m

\* What a step does to the messages at a place.
LEMMA MsgsAtChange ==
    ASSUME NEW l, NEW G, NEW L, NoMsg \notin G,
           \A m : m /= NoMsg => (At(l, m)' <=> (At(l, m) /\ m \notin L) \/ m \in G)
    PROVE  MsgsAt(l)' = (MsgsAt(l) \ L) \cup G
<1>1. \A m : m \in MsgsAt(l) <=> m /= NoMsg /\ At(l, m)
  BY DEF MsgsAt, At
<1>2. \A m : m \in MsgsAt(l)' <=> m /= NoMsg /\ At(l, m)'
  BY DEF MsgsAt, At
<1> HIDE DEF At, MsgsAt
<1>3. \A m : m \in MsgsAt(l)' <=> m \in (MsgsAt(l) \ L) \cup G
  BY <1>1, <1>2
<1> QED
  BY <1>3

\* The messages at a place, one at a time.
LEMMA AtPlace == \A l, m : m \in MsgsAt(l) <=> m /= NoMsg /\ At(l, m)
  BY DEF MsgsAt, At

\* A worker that is about to take a message up is one of at most Max.
LEMMA RoomForOne ==
    ASSUME PlaceInv, NEW w \in Worker, pc[w] = "wait", state[w] = "Busy"
    PROVE  Cardinality(MsgsAt("run")) < Max
<1> DEFINE R == {v \in Worker : pc[v] = "run"}
           S == {msg[v] : v \in R}
           f == [v \in R |-> msg[v]]
<1>1. R \subseteq all_threads \ {w} /\ w \in all_threads
  BY DEF PlaceInv, ProtocolInv, PoolInv
<1>2. IsFiniteSet(all_threads) /\ Cardinality(all_threads) \in Nat
  BY FS_Subset, FS_CardinalityType, ConstantsAssumption DEF PlaceInv, ProtocolInv, TypeOK
<1>3. IsFiniteSet(all_threads \ {w}) /\ Cardinality(all_threads \ {w}) = Cardinality(all_threads) - 1
  BY <1>1, <1>2, FS_RemoveElement
<1>4. IsFiniteSet(R) /\ Cardinality(R) <= Cardinality(all_threads \ {w})
  BY <1>1, <1>3, FS_Subset
<1>5. f \in Surjection(R, S)
  BY DEF Surjection
<1>6. IsFiniteSet(S) /\ Cardinality(S) <= Cardinality(R)
  BY <1>4, <1>5, FS_Surjection
<1>7. IsFiniteSet(MsgsAt("run")) /\ Cardinality(MsgsAt("run")) <= Cardinality(S)
  BY <1>6, FS_Subset DEF MsgsAt
<1>8. /\ Cardinality(MsgsAt("run")) \in Nat /\ Cardinality(S) \in Nat
      /\ Cardinality(R) \in Nat
  BY <1>4, <1>6, <1>7, FS_CardinalityType
<1>9. Cardinality(all_threads) <= Max /\ Max \in Nat
  BY ConstantsAssumption DEF PlaceInv, Limits
<1> QED
  BY <1>2, <1>3, <1>4, <1>6, <1>7, <1>8, <1>9

\* A step that changes neither what is run nor what is lost.
LEMMA Stutters ==
    ASSUME UNCHANGED <<sent, done, shutdown_>>,
           \A w \in Worker : \/ pc'[w] = pc[w] /\ msg'[w] = msg[w]
                             \/ /\ pc[w] \notin {"run", "exited"}
                                /\ pc'[w] \notin {"run", "exited"}
    PROVE  UNCHANGED WQ!wqvars
<1>1. \A l \in {"run", "exited"} : \A m : At(l, m)' <=> At(l, m)
  BY DEF At
<1>2. MsgsAt("run")' = MsgsAt("run") /\ MsgsAt("exited")' = MsgsAt("exited")
  <2>1. ASSUME NEW l \in {"run", "exited"} PROVE MsgsAt(l)' = (MsgsAt(l) \ {}) \cup {}
    BY <1>1, MsgsAtChange
  <2> QED
    BY <2>1
<1> QED
  BY <1>2 DEF WQ!wqvars

\* The work queue counts as the pool does.
LEMMA SameCardinality == \A S : WQ!Cardinality(S) = Cardinality(S)
  BY DEF WQ!Cardinality, Cardinality

\* A worker that wakes with its message takes it up.
LEMMA Starts ==
    ASSUME PlaceInv, NEW w \in Worker, pc[w] = "wait", state[w] = "Busy",
           pc' = [pc EXCEPT ![w] = "run"], UNCHANGED <<msg, sent, done, shutdown_>>
    PROVE  WQ!Next
<1>1. msg[w] /= NoMsg
  BY DEF PlaceInv, ProtocolInv, WorkInv
<1>2. msg[w] \in Undone /\ msg[w] \in Msg
  BY <1>1 DEF PlaceInv, ProtocolInv, TypeOK, Placed
<1>3. \A v \in Worker : pc'[v] = IF v = w THEN "run" ELSE pc[v]
  BY DEF PlaceInv, ProtocolInv, TypeOK, Thread
<1>4. \A v \in Worker : msg[v] = msg[w] => v = w
  BY <1>1 DEF PlaceInv, Placed
<1>5. ~At("run", msg[w]) /\ ~At("exited", msg[w])
  BY <1>4 DEF At
<1>6. msg[w] \in WQ!pending
  BY <1>2, <1>5, AtPlace DEF WQ!pending, Undone
<1>7. MsgsAt("run")' = MsgsAt("run") \cup {msg[w]}
  <2>1. \A m : At("run", m)' <=> (At("run", m) /\ m \notin {}) \/ m \in {msg[w]}
    BY <1>3 DEF At
  <2>2. MsgsAt("run")' = (MsgsAt("run") \ {}) \cup {msg[w]}
    BY <1>1, <2>1, MsgsAtChange
  <2> QED
    BY <2>2
<1>8. MsgsAt("exited")' = MsgsAt("exited")
  <2>1. \A m : At("exited", m)' <=> (At("exited", m) /\ m \notin {}) \/ m \in {}
    BY <1>3 DEF At
  <2>2. MsgsAt("exited")' = (MsgsAt("exited") \ {}) \cup {}
    BY <2>1, MsgsAtChange
  <2> QED
    BY <2>2
<1>9. Cardinality(MsgsAt("run")) < Max
  BY RoomForOne
<1> QED
  BY <1>2, <1>6, <1>7, <1>8, <1>9, SameCardinality DEF WQ!Next, WQ!Start

\* A worker that has processed its message has finished it.
LEMMA Finishes == ASSUME PlaceInv, NEW w \in Worker, Run(w) PROVE WQ!Next
<1>1. msg[w] /= NoMsg /\ pc[w] = "run" /\ msg[w] \in Msg
  <2>1. pc[w] = "run"
    BY DEF Run
  <2>2. state[w] = "Busy"
    BY <2>1 DEF PlaceInv, ProtocolInv, WorkInv
  <2>3. msg[w] /= NoMsg
    BY <2>1, <2>2 DEF PlaceInv, ProtocolInv, WorkInv
  <2> QED
    BY <2>1, <2>3 DEF PlaceInv, ProtocolInv, TypeOK
<1>2. \A v \in Worker : /\ pc'[v] = IF v = w THEN "checkself" ELSE pc[v]
                        /\ msg'[v] = IF v = w THEN NoMsg ELSE msg[v]
  BY DEF PlaceInv, ProtocolInv, TypeOK, Thread, Run
<1>3. \A v \in Worker : msg[v] = msg[w] => v = w
  BY <1>1 DEF PlaceInv, Placed
<1>4. MsgsAt("run")' = MsgsAt("run") \ {msg[w]}
  <2>1. \A m : m /= NoMsg =>
           (At("run", m)' <=> (At("run", m) /\ m \notin {msg[w]}) \/ m \in {})
    BY <1>2, <1>3 DEF At
  <2>2. MsgsAt("run")' = (MsgsAt("run") \ {msg[w]}) \cup {}
    BY <2>1, MsgsAtChange
  <2> QED
    BY <2>2
<1>5. MsgsAt("exited")' = MsgsAt("exited")
  <2>1. \A m : At("exited", m)' <=> (At("exited", m) /\ m \notin {}) \/ m \in {}
    BY <1>1, <1>2 DEF At
  <2>2. MsgsAt("exited")' = (MsgsAt("exited") \ {}) \cup {}
    BY <2>1, MsgsAtChange
  <2> QED
    BY <2>2
<1>6. msg[w] \in MsgsAt("run")
  BY <1>1, AtPlace DEF At
<1> QED
  BY <1>1, <1>4, <1>5, <1>6 DEF WQ!Next, WQ!Finish, Run, sdvars

\* A message is lost with the worker that has it, or gets it when it has gone.
LEMMA Loses ==
    ASSUME PlaceInv, NEW w \in Worker, NEW m \in Msg, pc'[w] = "exited", msg'[w] = m,
           shutdown_, m \in Undone,
           \/ msg[w] = m /\ pc[w] /= "exited"
           \/ msg[w] = NoMsg /\ pc[w] /= "run" /\ \A v \in Worker : msg[v] /= m,
           \A v \in Worker \ {w} :
              \/ pc'[v] = pc[v] /\ msg'[v] = msg[v]
              \/ pc[v] \notin {"run", "exited"} /\ pc'[v] \notin {"run", "exited"},
           UNCHANGED <<sent, done, shutdown_>>
    PROVE  WQ!Next
<1>1. m /= NoMsg
  BY ConstantsAssumption
<1>2. \A v \in Worker : msg[v] = m => v = w
  BY <1>1 DEF PlaceInv, Placed
<1>3. \A v \in Worker : \A n :
         /\ pc'[v] = "run" /\ msg'[v] = n <=> pc[v] = "run" /\ msg[v] = n /\ n /= m
         /\ n /= NoMsg =>
              (pc'[v] = "exited" /\ msg'[v] = n <=>
                 (pc[v] = "exited" /\ msg[v] = n) \/ (v = w /\ n = m))
  BY <1>1, <1>2
<1>4. MsgsAt("run")' = MsgsAt("run") \ {m}
  <2>1. \A n : n /= NoMsg => (At("run", n)' <=> (At("run", n) /\ n \notin {m}) \/ n \in {})
    BY <1>3 DEF At
  <2>2. MsgsAt("run")' = (MsgsAt("run") \ {m}) \cup {}
    BY <2>1, MsgsAtChange
  <2> QED
    BY <2>2
<1>5. MsgsAt("exited")' = MsgsAt("exited") \cup {m}
  <2> DEFINE G == {m}
  <2>1. \A n : n /= NoMsg =>
           (At("exited", n)' <=> (At("exited", n) /\ n \notin {}) \/ n \in G)
    BY <1>3 DEF At
  <2>2. NoMsg \notin G
    BY <1>1
  <2> HIDE DEF G
  <2>3. MsgsAt("exited")' = (MsgsAt("exited") \ {}) \cup G
    BY <2>1, <2>2, MsgsAtChange
  <2> QED
    BY <2>3 DEF G
<1>6. ~At("exited", m)
  BY <1>1, <1>2 DEF At
<1>7. m \in WQ!pending \cup MsgsAt("run")
  BY <1>6, AtPlace DEF WQ!pending, Undone
<1> QED
  BY <1>4, <1>5, <1>7 DEF WQ!Next, WQ!Lose

\* put_msg takes a message on.
LEMMA Submits ==
    ASSUME PlaceInv, NEW p \in Putter, NEW m \in Msg, put_msg(p, m)
    PROVE  WQ!Next
<1>1. \A v \in Worker : pc'[v] = pc[v] /\ msg'[v] = msg[v]
  BY ConstantsAssumption DEF PlaceInv, ProtocolInv, TypeOK, Thread, put_msg
<1>2. \A l \in {"run", "exited"} : \A n : At(l, n)' <=> At(l, n)
  BY <1>1 DEF At
<1>3. ASSUME NEW l \in {"run", "exited"} PROVE MsgsAt(l)' = (MsgsAt(l) \ {}) \cup {}
  BY <1>2, MsgsAtChange
<1>4. MsgsAt("run")' = MsgsAt("run") /\ MsgsAt("exited")' = MsgsAt("exited")
  BY <1>3
<1> QED
  BY <1>4 DEF WQ!Next, WQ!Submit, put_msg, sdvars

-----------------------------------------------------------------------------
\* Every step of the pool is a step of the work queue, or leaves it alone.
LEMMA StepRefines == ASSUME PlaceInv, [Next]_vars PROVE [WQ!Next]_WQ!wqvars
<1>1. /\ pc \in [Thread -> WorkerPC \cup PutterPC] /\ msg \in [Worker -> Msg \cup {NoMsg}]
      /\ Worker \subseteq Thread /\ Putter \subseteq Thread /\ Worker \cap Putter = {}
  BY ConstantsAssumption DEF PlaceInv, ProtocolInv, TypeOK, Thread
<1>2. ASSUME NEW t \in Thread, pc[t] \in {"hand", "handqueued"}
      PROVE  /\ kt[t] \in Worker /\ msg[kt[t]] = NoMsg
             /\ pc[kt[t]] /= "run"
             /\ pc[kt[t]] = "exited" => shutdown_
  <2>1. /\ Qaccess = t /\ kt[t] \in Worker /\ state[kt[t]] = "Transition"
    BY <1>2 DEF PlaceInv, ProtocolInv, LockInv, WorkInv, Holding
  <2>2. msg[kt[t]] = NoMsg
    BY <1>2, <2>1 DEF PlaceInv, ProtocolInv, WorkInv
  <2>3. pc[kt[t]] /= "run"
    BY <2>1 DEF PlaceInv, ProtocolInv, WorkInv
  <2>4. pc[kt[t]] = "exited" => shutdown_
    BY <2>1 DEF PlaceInv, Limits
  <2> QED
    BY <2>1, <2>2, <2>3, <2>4
\* A message handed to a worker is lost only if the worker has gone.
<1>3. ASSUME NEW t \in Thread, pc[t] \in {"hand", "handqueued"}, NEW m \in Undone,
             msg' = [msg EXCEPT ![kt[t]] = m], NEW l \in {"busy", "busyqueued"},
             pc' = [pc EXCEPT ![t] = l], \A v \in Worker : msg[v] /= m, m \in Msg,
             UNCHANGED <<sent, done, shutdown_>>
      PROVE  [WQ!Next]_WQ!wqvars
  <2>1. /\ \A v \in Worker : pc'[v] = IF v = t THEN l ELSE pc[v]
        /\ \A v \in Worker : msg'[v] = IF v = kt[t] THEN m ELSE msg[v]
    BY <1>1, <1>3
  <2>2. pc[t] \notin {"run", "exited"} /\ l \notin {"run", "exited"}
    BY <1>3
  <2>3. CASE pc[kt[t]] = "exited"
    <3>1. /\ \A v \in Worker \ {kt[t]} :
              \/ pc'[v] = pc[v] /\ msg'[v] = msg[v]
              \/ pc[v] \notin {"run", "exited"} /\ pc'[v] \notin {"run", "exited"}
          /\ pc'[kt[t]] = "exited" /\ msg'[kt[t]] = m
      BY <1>2, <1>3, <2>1, <2>2, <2>3
    <3>2. /\ kt[t] \in Worker /\ shutdown_ /\ msg[kt[t]] = NoMsg /\ pc[kt[t]] /= "run"
      BY <1>2, <1>3, <2>3
    <3> QED
      BY <1>3, <3>1, <3>2, Loses
  <2>4. CASE pc[kt[t]] /= "exited"
    <3>1. \A w \in Worker : \/ pc'[w] = pc[w] /\ msg'[w] = msg[w]
                            \/ /\ pc[w] \notin {"run", "exited"}
                               /\ pc'[w] \notin {"run", "exited"}
      BY <1>2, <1>3, <2>1, <2>2, <2>4
    <3> QED
      BY <1>3, <3>1, Stutters
  <2> QED
    BY <2>3, <2>4
\* A thread goes on without touching a message.
<1>4. ASSUME NEW t \in Thread, NEW l, pc' = [pc EXCEPT ![t] = l],
             t \in Putter \/ pc[t] = l \/ {pc[t], l} \cap {"run", "exited"} = {},
             UNCHANGED <<msg, sent, done, shutdown_>>
      PROVE  UNCHANGED WQ!wqvars
  <2>1. \A w \in Worker : \/ pc'[w] = pc[w] /\ msg'[w] = msg[w]
                          \/ /\ pc[w] \notin {"run", "exited"}
                             /\ pc'[w] \notin {"run", "exited"}
    BY <1>1, <1>4
  <2> QED
    BY <1>4, <2>1, Stutters
<1>5. ASSUME NEW p \in Putter, \/ PutTakeThread(p) \/ PutQueue(p) \/ PutMarkBusy(p) \/ PutPost(p)
      PROVE  UNCHANGED WQ!wqvars
  BY <1>1, <1>4, <1>5 DEF PutTakeThread, PutQueue, PutMarkBusy, PutPost, sdvars
<1>6. ASSUME NEW p \in Putter, PutHand(p) PROVE [WQ!Next]_WQ!wqvars
  <2>1. pc[p] = "hand" /\ arg[p] /= NoMsg
    BY <1>6 DEF PutHand, PlaceInv, ProtocolInv, WorkInv
  <2>2. arg[p] \in Undone /\ arg[p] \in Msg /\ \A v \in Worker : msg[v] /= arg[p]
    BY <2>1 DEF PlaceInv, ProtocolInv, TypeOK, Placed
  <2> QED
    BY <1>1, <1>3, <1>6, <2>1, <2>2 DEF PutHand, sdvars
<1>7. ASSUME NEW w \in Worker, CheckAnyHand(w) PROVE [WQ!Next]_WQ!wqvars
  <2>1. pc[w] = "handqueued" /\ Q /= <<>>
    BY <1>7 DEF CheckAnyHand, PlaceInv, ProtocolInv, LockInv
  <2>2. Head(Q) = Q[1] /\ 1 \in 1..Len(Q) /\ Q[1] \in Msg
    BY <2>1 DEF PlaceInv, ProtocolInv, TypeOK
  <2>3. Head(Q) \in Undone /\ Head(Q) \in Msg /\ \A v \in Worker : msg[v] /= Head(Q)
    BY <2>2 DEF PlaceInv, Placed
  <2> QED
    BY <1>1, <1>3, <1>7, <2>1, <2>3 DEF CheckAnyHand, sdvars
<1>8. ASSUME NEW w \in Worker, Wake(w) \/ Interrupted(w) PROVE [WQ!Next]_WQ!wqvars
  <2>1. pc[w] = "wait" /\ UNCHANGED <<msg, sent, done, shutdown_>>
    BY <1>8 DEF Wake, Interrupted, sdvars
  <2>2. CASE state[w] = "Busy"
    BY <1>8, <2>1, <2>2, Starts DEF Wake, Interrupted
  <2>3. CASE state[w] /= "Busy"
    BY <1>1, <1>4, <1>8, <2>1, <2>3 DEF Wake, Interrupted
  <2> QED
    BY <2>2, <2>3
<1>9. ASSUME NEW w \in Worker, CheckSelf(w) PROVE UNCHANGED WQ!wqvars
  <2>1. /\ pc[w] = "checkself" /\ UNCHANGED <<sent, done, shutdown_>>
        /\ \A v \in Worker \ {w} : pc'[v] = pc[v] /\ msg'[v] = msg[v]
        /\ pc'[w] \in {"postself", "markidle"}
    BY <1>1, <1>9 DEF CheckSelf, sdvars
  <2> QED
    BY <2>1, Stutters
<1>10. ASSUME NEW w \in Worker, \/ MarkIdle(w) \/ CheckAnyNone(w) \/ CheckAnyTakeThread(w)
                                \/ CheckAnyMarkBusy(w) \/ PostSelf(w)
      PROVE  UNCHANGED WQ!wqvars
  BY <1>1, <1>4, <1>10 DEF MarkIdle, CheckAnyNone, CheckAnyTakeThread, CheckAnyMarkBusy,
     PostSelf, sdvars
<1>11. ASSUME NEW w \in Worker, Exit(w) PROVE [WQ!Next]_WQ!wqvars
  <2>1. /\ pc[w] \in {"wait", "run"} /\ w \in cancelled
        /\ \A v \in Worker : pc'[v] = IF v = w THEN "exited" ELSE pc[v]
        /\ UNCHANGED <<msg, sent, done, shutdown_>>
    BY <1>1, <1>11 DEF Exit, sdvars
  <2>2. shutdown_
    BY <2>1 DEF PlaceInv, Limits
  <2>3. CASE msg[w] /= NoMsg
    <3>1. msg[w] \in Undone /\ msg[w] \in Msg
      BY <1>1, <2>3 DEF PlaceInv, Placed
    <3> QED
      BY <2>1, <2>2, <3>1, Loses
  <2>4. CASE msg[w] = NoMsg
    <3>1. ASSUME NEW l \in {"run", "exited"} PROVE MsgsAt(l)' = (MsgsAt(l) \ {}) \cup {}
      <4>1. \A n : n /= NoMsg => (At(l, n)' <=> (At(l, n) /\ n \notin {}) \/ n \in {})
        BY <2>1, <2>4 DEF At
      <4> QED
        BY <4>1, MsgsAtChange
    <3>2. MsgsAt("run")' = MsgsAt("run") /\ MsgsAt("exited")' = MsgsAt("exited")
      BY <3>1
    <3> QED
      BY <2>1, <3>2 DEF WQ!wqvars
  <2> QED
    BY <2>3, <2>4
<1>12. ASSUME shutdown \/ StartWaiting \/ ShutdownDone \/ \E w \in Worker : Terminate(w) \/ Join(w)
      PROVE  [WQ!Next]_WQ!wqvars
  <2>1. /\ UNCHANGED <<pc, msg, sent, done>>
        /\ shutdown_' = TRUE \/ shutdown_' = shutdown_
    BY <1>12 DEF shutdown, StartWaiting, ShutdownDone, Terminate, Join
  <2>2. MsgsAt("run")' = MsgsAt("run") /\ MsgsAt("exited")' = MsgsAt("exited")
    BY <2>1 DEF MsgsAt
  <2> QED
    BY <2>1, <2>2 DEF WQ!Next, WQ!Shutdown, WQ!wqvars
<1>13. CASE UNCHANGED vars
  BY <1>13, Stutters DEF vars
<1> QED
  BY <1>5, <1>6, <1>7, <1>8, <1>9, <1>10, <1>11, <1>12, <1>13, Submits, Finishes
     DEF Next, PutterStep, WorkerStep, ShutdownStep

\* The pool starts as an empty work queue.
LEMMA InitRefines == Init => WQ!Init
<1> SUFFICES ASSUME Init PROVE WQ!Init
  OBVIOUS
<1>1. \A w \in Worker : msg[w] = NoMsg
  BY DEF Init
<1>2. MsgsAt("run") = {} /\ MsgsAt("exited") = {}
  BY <1>1 DEF MsgsAt
<1> QED
  BY <1>2 DEF Init, WQ!Init

\* The pool is a work queue: it takes each message up at most once, has at
\* most Max in process at a time, and loses none before shutdown() has begun.
THEOREM Refinement == Spec => ImplementsWorkQueue
<1>1. PlaceInv /\ [Next]_vars => [WQ!Next]_WQ!wqvars
  BY StepRefines
<1> QED
  BY PlaceInvariant, InitRefines, <1>1, PTL DEF Spec, ImplementsWorkQueue, WQ!Spec
=============================================================================
