----------------------------- MODULE ThreadPool -----------------------------
(***************************************************************************)
(* One thread pool of the multi-threaded ORB with an active input channel: *)
(* MICO::ThreadPool, its WorkerThreads, its ActiveMsgQueue and the         *)
(* PassiveOperation each worker runs (orb/mt_manager.cc, orb/message.cc,   *)
(* orb/operation.cc).  The DeCode and the ORB pool are of this kind.       *)
(*                                                                         *)
(* A step is what runs between two points where another thread may be      *)
(* seen: a critical section of tp_lock is one step, one of Qaccess is      *)
(* split where it writes to a worker that may already be awake.            *)
(***************************************************************************)
EXTENDS Naturals, Sequences, FiniteSets

CONSTANTS
    Worker,     \* the WorkerThread objects the pool can create
    Putter,     \* threads outside the pool that call ThreadPool::put_msg
    Msg,        \* the messages they send, each one once
    Max,        \* ThreadPool::max
    NoWorker, NoMsg, NoThread

Thread == Worker \cup Putter

ASSUME ConstantsAssumption ==
    /\ Max \in Nat \ {0}
    /\ IsFiniteSet(Worker)
    /\ Worker \cap Putter = {}
    /\ NoWorker \notin Worker
    /\ NoMsg \notin Msg
    /\ NoThread \notin Thread

VARIABLES
    Q,              \* ActiveMsgQueue::Q
    Qaccess,        \* the thread that holds ActiveMsgQueue::Qaccess
    idle_threads,   \* ThreadPool::idle_threads, head first
    all_threads,    \* ThreadPool::all_threads; its size is cnt_all
    state,          \* WorkerThread::_state
    state_sem,      \* WorkerThread::_state_sem
    msg,            \* PassiveOperation::_msg of the worker's operation
    pc,             \* where each thread is
    kt,             \* the worker a thread holding Qaccess is handing work to
    arg,            \* the message a putter has in its hands
    shutdown_,      \* ThreadPool::shutdown_
    sd,             \* where the thread in ThreadPool::shutdown() is
    sdleft,         \* the threads the current loop of shutdown() has left
    cancelled,      \* workers whose pthread has been cancelled
    sent, done      \* history: messages taken on, messages processed

poolvars  == <<idle_threads, all_threads>>
queuevars == <<Q, Qaccess>>
sdvars    == <<shutdown_, sd, sdleft, cancelled>>
vars == <<Q, Qaccess, idle_threads, all_threads, state, state_sem, msg, pc,
          kt, arg, shutdown_, sd, sdleft, cancelled, sent, done>>

PutterPC == {"outside", "put", "hand", "busy", "post"}
WorkerPC == {"wait", "run", "checkself", "markidle", "checkany",
             "handqueued", "busyqueued", "postself", "exited"}

Init ==
    /\ Q = <<>>
    /\ Qaccess = NoThread
    /\ idle_threads = <<>>
    /\ all_threads = {}
    /\ state = [w \in Worker |-> "Transition"]
    /\ state_sem = [w \in Worker |-> 0]
    /\ msg = [w \in Worker |-> NoMsg]
    /\ pc = [t \in Thread |-> IF t \in Worker THEN "wait" ELSE "outside"]
    /\ kt = [t \in Thread |-> NoWorker]
    /\ arg = [p \in Putter |-> NoMsg]
    /\ shutdown_ = FALSE
    /\ sd = "none"
    /\ sdleft = {}
    /\ cancelled = {}
    /\ sent = {}
    /\ done = {}

\* get_idle_thread takes the first idle thread, else a new one, which starts
\* in wait_for_state_change ...
TakeThread(w) ==
    \/ /\ idle_threads /= <<>>
       /\ w = Head(idle_threads)
       /\ idle_threads' = Tail(idle_threads)
       /\ UNCHANGED all_threads
    \/ /\ idle_threads = <<>>
       /\ Cardinality(all_threads) < Max
       /\ w \in Worker \ all_threads
       /\ all_threads' = all_threads \cup {w}
       /\ UNCHANGED idle_threads

\* ... else none.
LimitExhausted ==
    /\ idle_threads = <<>>
    /\ Cardinality(all_threads) >= Max

-----------------------------------------------------------------------------
(* Slips of the code: each replaces the operator it is named after.        *)
get_idle_thread_StillIdle(w) ==      \* state(Transition) forgotten
    TakeThread(w) /\ UNCHANGED state

PutQueue_Cleared(p) ==               \* the message is forgotten, then pushed
    /\ pc[p] = "put" /\ Qaccess = NoThread /\ LimitExhausted
    /\ Q' = Append(Q, NoMsg)
    /\ arg' = [arg EXCEPT ![p] = NoMsg]
    /\ pc' = [pc EXCEPT ![p] = "outside"]
    /\ UNCHANGED <<Qaccess, poolvars, state, state_sem, msg, kt, sdvars,
                   sent, done>>

CheckSelf_NoPop(w) ==                \* Q.front() without Q.pop()
    /\ pc[w] = "checkself" /\ Qaccess = NoThread
    /\ \/ /\ Q /= <<>>
          /\ msg' = [msg EXCEPT ![w] = Head(Q)]
          /\ state' = [state EXCEPT ![w] = "Busy"]
          /\ pc' = [pc EXCEPT ![w] = "postself"]
       \/ /\ Q = <<>>
          /\ pc' = [pc EXCEPT ![w] = "markidle"]
          /\ UNCHANGED <<msg, state>>
    /\ UNCHANGED <<Q, Qaccess, poolvars, state_sem, kt, arg, sdvars, sent, done>>

MarkIdle_StaysBusy(w) ==             \* in the list, but not in state Idle
    /\ pc[w] = "markidle"
    /\ idle_threads' = Append(idle_threads, w)
    /\ pc' = [pc EXCEPT ![w] = "checkany"]
    /\ UNCHANGED <<queuevars, all_threads, state, state_sem, msg, kt, arg,
                   sdvars, sent, done>>

CheckAnyNone_Always(w) ==            \* mark_idle without check_msg(0)
    /\ pc[w] = "checkany"
    /\ pc' = [pc EXCEPT ![w] = "postself"]
    /\ UNCHANGED <<queuevars, poolvars, state, state_sem, msg, kt, arg, sdvars,
                   sent, done>>

Exit_InCheckMsg(w) ==                \* cancelled inside check_msg, Qaccess held
    /\ w \in cancelled /\ pc[w] \in {"wait", "run", "busyqueued"}
    /\ pc' = [pc EXCEPT ![w] = "exited"]
    /\ UNCHANGED <<queuevars, poolvars, state, state_sem, msg, kt, arg, sdvars,
                   sent, done>>

-----------------------------------------------------------------------------
(* ThreadPool::get_idle_thread: the worker leaves in Transition.           *)
get_idle_thread(w) ==
    /\ TakeThread(w)
    /\ state' = [state EXCEPT ![w] = "Transition"]

(***************************************************************************)
(* A thread outside the pool: ThreadPool::put_msg, ActiveMsgQueue::put_msg *)
(***************************************************************************)
\* ThreadPool::put_msg ignores the message once shutdown_ is set; the flag
\* is read without a lock, before the queue is entered.
put_msg(p, m) ==
    /\ pc[p] = "outside"
    /\ m \in Msg \ sent
    /\ ~shutdown_
    /\ pc' = [pc EXCEPT ![p] = "put"]
    /\ arg' = [arg EXCEPT ![p] = m]
    /\ sent' = sent \cup {m}
    /\ UNCHANGED <<queuevars, poolvars, state, state_sem, msg, kt, sdvars, done>>

\* ActiveMsgQueue::put_msg takes Qaccess and asks for an idle thread ...
PutTakeThread(p) ==
    /\ pc[p] = "put"
    /\ Qaccess = NoThread
    /\ \E w \in Worker :
        /\ get_idle_thread(w)
        /\ kt' = [kt EXCEPT ![p] = w]
    /\ Qaccess' = p
    /\ pc' = [pc EXCEPT ![p] = "hand"]
    /\ UNCHANGED <<Q, state_sem, msg, arg, sdvars, sent, done>>

\* ... or queues the message when there is none.
PutQueue(p) ==
    /\ pc[p] = "put"
    /\ Qaccess = NoThread
    /\ LimitExhausted
    /\ Q' = Append(Q, arg[p])
    /\ arg' = [arg EXCEPT ![p] = NoMsg]
    /\ pc' = [pc EXCEPT ![p] = "outside"]
    /\ UNCHANGED <<Qaccess, poolvars, state, state_sem, msg, kt, sdvars,
                   sent, done>>

\* kt->put_msg(msg)
PutHand(p) ==
    /\ pc[p] = "hand"
    /\ msg' = [msg EXCEPT ![kt[p]] = arg[p]]
    /\ arg' = [arg EXCEPT ![p] = NoMsg]
    /\ pc' = [pc EXCEPT ![p] = "busy"]
    /\ UNCHANGED <<queuevars, poolvars, state, state_sem, kt, sdvars, sent, done>>

\* kt->mark_busy()
PutMarkBusy(p) ==
    /\ pc[p] = "busy"
    /\ state' = [state EXCEPT ![kt[p]] = "Busy"]
    /\ pc' = [pc EXCEPT ![p] = "post"]
    /\ UNCHANGED <<queuevars, poolvars, state_sem, msg, kt, arg, sdvars, sent, done>>

\* kt->post_state_change(), and Qaccess is released.
PutPost(p) ==
    /\ pc[p] = "post"
    /\ state_sem' = [state_sem EXCEPT ![kt[p]] = @ + 1]
    /\ kt' = [kt EXCEPT ![p] = NoWorker]
    /\ Qaccess' = NoThread
    /\ pc' = [pc EXCEPT ![p] = "outside"]
    /\ UNCHANGED <<Q, poolvars, state, msg, arg, sdvars, sent, done>>

(***************************************************************************)
(* A worker: WorkerThread::_run and ThreadPool::mark_idle                  *)
(***************************************************************************)
\* wait_for_state_change(), then the test of the state.  Nothing sets Stop.
Wake(w) ==
    /\ pc[w] = "wait"
    /\ state_sem[w] > 0
    /\ state_sem' = [state_sem EXCEPT ![w] = @ - 1]
    /\ pc' = [pc EXCEPT ![w] = IF state[w] = "Busy" THEN "run" ELSE "wait"]
    /\ UNCHANGED <<queuevars, poolvars, state, msg, kt, arg, sdvars, sent, done>>

\* Semaphore::wait compares the result of sem_wait with EINTR, which is in
\* errno: a signal ends the wait without a token.
Interrupted(w) ==
    /\ pc[w] = "wait"
    /\ state[w] = "Busy"
    /\ pc' = [pc EXCEPT ![w] = "run"]
    /\ UNCHANGED <<queuevars, poolvars, state, state_sem, msg, kt, arg, sdvars,
                   sent, done>>

\* PassiveOperation::_run processes the message, if any, and forgets it.
Run(w) ==
    /\ pc[w] = "run"
    /\ done' = IF msg[w] = NoMsg THEN done ELSE done \cup {msg[w]}
    /\ msg' = [msg EXCEPT ![w] = NoMsg]
    /\ pc' = [pc EXCEPT ![w] = "checkself"]
    /\ UNCHANGED <<queuevars, poolvars, state, state_sem, kt, arg, sdvars, sent>>

\* mark_idle: check_msg(kt) gives the worker the first queued message
\* itself; only the worker looks at its own state and message here.
CheckSelf(w) ==
    /\ pc[w] = "checkself"
    /\ Qaccess = NoThread
    /\ \/ /\ Q /= <<>>
          /\ msg' = [msg EXCEPT ![w] = Head(Q)]
          /\ Q' = Tail(Q)
          /\ state' = [state EXCEPT ![w] = "Busy"]
          /\ pc' = [pc EXCEPT ![w] = "postself"]
       \/ /\ Q = <<>>
          /\ pc' = [pc EXCEPT ![w] = "markidle"]
          /\ UNCHANGED <<Q, msg, state>>
    /\ UNCHANGED <<Qaccess, poolvars, state_sem, kt, arg, sdvars, sent, done>>

\* mark_idle: into the idle list, under tp_lock but not under Qaccess.
MarkIdle(w) ==
    /\ pc[w] = "markidle"
    /\ IF state[w] /= "Idle"
         THEN /\ idle_threads' = Append(idle_threads, w)
              /\ state' = [state EXCEPT ![w] = "Idle"]
         ELSE UNCHANGED <<idle_threads, state>>
    /\ pc' = [pc EXCEPT ![w] = "checkany"]
    /\ UNCHANGED <<queuevars, all_threads, state_sem, msg, kt, arg, sdvars,
                   sent, done>>

\* mark_idle: check_msg(0) for whichever thread is idle.  Either there is
\* nothing to do ...
CheckAnyNone(w) ==
    /\ pc[w] = "checkany"
    /\ Qaccess = NoThread
    /\ Q = <<>> \/ LimitExhausted
    /\ pc' = [pc EXCEPT ![w] = "postself"]
    /\ UNCHANGED <<queuevars, poolvars, state, state_sem, msg, kt, arg, sdvars,
                   sent, done>>

\* ... or an idle thread is taken ...
CheckAnyTakeThread(w) ==
    /\ pc[w] = "checkany"
    /\ Qaccess = NoThread
    /\ Q /= <<>>
    /\ \E v \in Worker :
        /\ get_idle_thread(v)
        /\ kt' = [kt EXCEPT ![w] = v]
    /\ Qaccess' = w
    /\ pc' = [pc EXCEPT ![w] = "handqueued"]
    /\ UNCHANGED <<Q, state_sem, msg, arg, sdvars, sent, done>>

\* ... given the first queued message ...
CheckAnyHand(w) ==
    /\ pc[w] = "handqueued"
    /\ msg' = [msg EXCEPT ![kt[w]] = Head(Q)]
    /\ Q' = Tail(Q)
    /\ pc' = [pc EXCEPT ![w] = "busyqueued"]
    /\ UNCHANGED <<Qaccess, poolvars, state, state_sem, kt, arg, sdvars, sent, done>>

\* ... and marked busy.  It is not posted: check_msg has no such call.
CheckAnyMarkBusy(w) ==
    /\ pc[w] = "busyqueued"
    /\ state' = [state EXCEPT ![kt[w]] = "Busy"]
    /\ kt' = [kt EXCEPT ![w] = NoWorker]
    /\ Qaccess' = NoThread
    /\ pc' = [pc EXCEPT ![w] = "postself"]
    /\ UNCHANGED <<Q, poolvars, state_sem, msg, arg, sdvars, sent, done>>

\* _run: post_state_change() on itself after mark_idle().
PostSelf(w) ==
    /\ pc[w] = "postself"
    /\ state_sem' = [state_sem EXCEPT ![w] = @ + 1]
    /\ pc' = [pc EXCEPT ![w] = "wait"]
    /\ UNCHANGED <<queuevars, poolvars, state, msg, kt, arg, sdvars, sent, done>>

\* A cancelled worker goes at a cancellation point: the semaphore, or a
\* blocking call of the operation it runs.
Exit(w) ==
    /\ w \in cancelled
    /\ pc[w] \in {"wait", "run"}
    /\ pc' = [pc EXCEPT ![w] = "exited"]
    /\ UNCHANGED <<queuevars, poolvars, state, state_sem, msg, kt, arg, sdvars,
                   sent, done>>

(***************************************************************************)
(* ThreadPool::shutdown, run by the thread that leaves ORB::run            *)
(***************************************************************************)
shutdown ==
    /\ sd = "none"
    /\ shutdown_' = TRUE
    /\ sd' = "terminating"
    /\ sdleft' = all_threads
    /\ UNCHANGED <<queuevars, poolvars, state, state_sem, msg, pc, kt, arg,
                   cancelled, sent, done>>

\* Thread::terminate: pthread_cancel, unless the thread is finished.
Terminate(w) ==
    /\ sd = "terminating"
    /\ w \in sdleft
    /\ cancelled' = cancelled \cup {w}
    /\ sdleft' = sdleft \ {w}
    /\ UNCHANGED <<queuevars, poolvars, state, state_sem, msg, pc, kt, arg,
                   shutdown_, sd, sent, done>>

\* The second loop counts the threads again.
StartWaiting ==
    /\ sd = "terminating"
    /\ sdleft = {}
    /\ sd' = "waiting"
    /\ sdleft' = all_threads
    /\ UNCHANGED <<queuevars, poolvars, state, state_sem, msg, pc, kt, arg,
                   shutdown_, cancelled, sent, done>>

\* Thread::wait: pthread_join.
Join(w) ==
    /\ sd = "waiting"
    /\ w \in sdleft
    /\ pc[w] = "exited"
    /\ sdleft' = sdleft \ {w}
    /\ UNCHANGED <<queuevars, poolvars, state, state_sem, msg, pc, kt, arg,
                   shutdown_, sd, cancelled, sent, done>>

ShutdownDone ==
    /\ sd = "waiting"
    /\ sdleft = {}
    /\ sd' = "done"
    /\ UNCHANGED <<queuevars, poolvars, state, state_sem, msg, pc, kt, arg,
                   shutdown_, sdleft, cancelled, sent, done>>
-----------------------------------------------------------------------------
PutterStep(p) ==
    \/ PutTakeThread(p) \/ PutQueue(p)
    \/ PutHand(p) \/ PutMarkBusy(p) \/ PutPost(p)

WorkerStep(w) ==
    \/ Wake(w) \/ Run(w) \/ CheckSelf(w) \/ MarkIdle(w)
    \/ CheckAnyNone(w) \/ CheckAnyTakeThread(w)
    \/ CheckAnyHand(w) \/ CheckAnyMarkBusy(w) \/ PostSelf(w) \/ Exit(w)

ShutdownStep ==
    \/ \E w \in Worker : Terminate(w) \/ Join(w)
    \/ StartWaiting \/ ShutdownDone

Next ==
    \/ \E p \in Putter : PutterStep(p) \/ \E m \in Msg : put_msg(p, m)
    \/ \E w \in Worker : WorkerStep(w) \/ Interrupted(w)
    \/ shutdown \/ ShutdownStep

Spec == Init /\ [][Next]_vars

\* Every thread that can run does: the operating system schedules it, and
\* an operation that is processed returns.
Fairness ==
    /\ \A p \in Putter : WF_vars(PutterStep(p))
    /\ \A w \in Worker : WF_vars(WorkerStep(w))
    /\ WF_vars(ShutdownStep)

FairSpec == Spec /\ Fairness
-----------------------------------------------------------------------------
TypeOK ==
    /\ Q \in Seq(Msg)
    /\ Qaccess \in Thread \cup {NoThread}
    /\ idle_threads \in Seq(Worker)
    /\ all_threads \subseteq Worker
    /\ state \in [Worker -> {"Transition", "Idle", "Busy"}]
    /\ state_sem \in [Worker -> Nat]
    /\ msg \in [Worker -> Msg \cup {NoMsg}]
    /\ pc \in [Thread -> WorkerPC \cup PutterPC]
    /\ kt \in [Thread -> Worker \cup {NoWorker}]
    /\ arg \in [Putter -> Msg \cup {NoMsg}]
    /\ shutdown_ \in BOOLEAN
    /\ sd \in {"none", "terminating", "waiting", "done"}
    /\ sdleft \subseteq Worker
    /\ cancelled \subseteq Worker
    /\ sent \subseteq Msg
    /\ done \subseteq Msg

Idle == {idle_threads[i] : i \in 1..Len(idle_threads)}

\* idle_threads holds exactly the workers in state Idle, each once, and such
\* a worker has no message: get_idle_thread never gives out a worker twice
\* nor one that still works.
IdleListExact ==
    /\ \A i, j \in 1..Len(idle_threads) : idle_threads[i] = idle_threads[j] => i = j
    /\ Idle = {w \in Worker : state[w] = "Idle"}
    /\ \A w \in Idle : msg[w] = NoMsg /\ pc[w] /= "run"

\* The assertion of ThreadPool::mark_busy: a worker being handed a message
\* has left Idle, though mark_busy takes no lock.
MarkBusyAssertion ==
    \A t \in Thread : pc[t] \in {"busy", "busyqueued"} => state[kt[t]] /= "Idle"

\* A worker that wakes to work finds its message, whichever of the posts,
\* its own or a putter's, woke it: kt->put_msg comes before mark_busy.
RunsWithMessage ==
    \A w \in Worker : pc[w] = "run" => msg[w] /= NoMsg

\* A hand-over, by whichever thread, reaches a worker that has left Idle and
\* wakes to find its message: mark_busy and put_msg of a worker take no lock.
HandOver == MarkBusyAssertion /\ RunsWithMessage

\* A message the pool has taken on is processed, or the pool is shut down,
\* provided that check_msg(0) gives queued messages only to the worker that
\* called it, which posts itself: a hand-over to another worker is what
\* BusyWorkerReturnsToIdle shows to go wrong, and nothing else does.
NoCrossHandOver == \A w \in Worker : pc[w] = "handqueued" => kt[w] = w

EveryMessageProcessed ==
    []NoCrossHandOver => \A m \in Msg : m \in sent ~> (m \in done \/ shutdown_)

\* WorkerThread::_run: "If an operation is ever available on the thread, the
\* operation is processed and the thread returns to its idle state".
BusyWorkerReturnsToIdle ==
    \A w \in Worker : state[w] = "Busy" ~> (state[w] = "Idle" \/ shutdown_)

\* ThreadPool::shutdown joins every worker and returns when no put_msg was
\* under way as it began, wherever the workers were: no worker goes with
\* Qaccess in its hands.
ShutdownCompletes ==
    (/\ sd = "terminating"
     /\ all_threads = sdleft \cup cancelled
     /\ \A p \in Putter : pc[p] = "outside") ~> (sd = "done")

-----------------------------------------------------------------------------
\* What the pool promises its callers.
MsgsAt(where) == {msg[w] : w \in {v \in Worker : pc[v] = where}} \ {NoMsg}

WQ == INSTANCE WorkQueue WITH running <- MsgsAt("run"), lost <- MsgsAt("exited")

\* The pool is a work queue: at most Max messages in process at a time, each
\* taken up once, none lost before shutdown() has begun.
ImplementsWorkQueue == WQ!Spec
=============================================================================
