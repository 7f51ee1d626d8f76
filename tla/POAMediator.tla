----------------------------- MODULE POAMediator -----------------------------
(***************************************************************************)
(* The POA mediator of micod (daemon/poamediator.cc) with the request      *)
(* queue it defers invocations to (orb/queue.cc) and the UnixProcess       *)
(* objects that watch the servers it starts (orb/os-unix.cc), in the       *)
(* threads build.                                                          *)
(*                                                                         *)
(* Every mediator operation holds svmap_lock_ from its first to its last   *)
(* access to svmap, so each is one action.  What interleaves with them is  *)
(*   - the server processes, which call create_impl, activate_impl and     *)
(*     deactivate_impl and may die at any moment;                          *)
(*   - one thread per UnixProcess, which returns from waitpid, reads _cb   *)
(*     and then calls callback(), three separate steps;                    *)
(*   - the dispatcher's thread, which runs exec_now(): it takes one record *)
(*     off the queue and calls invoke() in a second step.                  *)
(* The bind broadcast, locate, cancel, stop()'s wait for the process and   *)
(* the shutdown of the daemon are not modelled.                            *)
(***************************************************************************)
EXTENDS Naturals, Sequences, FiniteSets

CONSTANTS
  Server,      \* implementation names (svid)
  NoServer,
  Proc,        \* processes: at most this many are ever started
  NoProc,
  Request,
  NoRequest,
  Target,      \* the server each request is for
  Forward,     \* the daemon's --forward option
  Scenario     \* what may happen, see below

ASSUME ConstantsAssumption ==
  /\ NoServer \notin Server
  /\ NoProc \notin Proc /\ NoRequest \notin Request
  /\ Target \in [Request -> Server]
  /\ Forward \in BOOLEAN
  /\ Scenario \subseteq
       [installed : SUBSET Server, requests : SUBSET Request,
        admin : SUBSET {"activate", "hold", "stop", "continue"},
        events : SUBSET {"goodbye", "earlyGoodbye", "crash", "lateCall",
                         "forkFails", "manual"}]

VARIABLES
  scenario,    \* one of Scenario, fixed
  svmap,       \* SvInf of each server
  imr,         \* names with an entry in the implementation repository
  process,     \* server processes with the UnixProcess object of each
  invokes,     \* RequestQueue::_invokes
  running,     \* exec_now() is under way in the dispatcher's thread
  seen,        \* its local set of records already executed
  current,     \* the record it is about to execute
  timer,       \* the zero timer of exec_later() is set
  requests,    \* proxied invocations (POAMediatorImpl::requests)
  reply,       \* what the client of each request has been told
  aborted      \* an assertion failed: micod is gone

queueVars == <<invokes, running, seen, current, timer>>
clientVars == <<requests, reply>>
vars == <<scenario, svmap, imr, process, queueVars, clientVars, aborted>>

Installed == scenario.installed  \* names with a command in the repository
Admin == scenario.admin          \* the imr commands that are given
Events == scenario.events        \* what server processes may do

PState == {"Inactive", "Started", "Active", "Holding", "Stopped", "Failed"}
Elements(q) == {q[i] : i \in DOMAIN q}

TypeOK ==
  /\ scenario \in Scenario
  /\ svmap \in [Server -> [pstate : PState, ior : Proc \cup {NoProc},
                           proc : Proc \cup {NoProc}, recent : BOOLEAN]]
  /\ imr \subseteq Server
  /\ process \in
       [Proc -> [sv   : Server \cup {NoServer},
                 life : {"unborn", "alive", "dead", "nofork"},
                 stage : {"boot", "registered", "up", "bye"},
                 call : {"none", "create", "activate", "deactivate"},
                 thread : {"none", "waiting", "calling", "returning", "finished"},
                 cb : BOOLEAN, sigterm : BOOLEAN]]
  /\ invokes \in Seq(Request) /\ seen \subseteq Request
  /\ running \in BOOLEAN /\ timer \in BOOLEAN
  /\ current \in Request \cup {NoRequest}
  /\ requests \subseteq Request
  /\ reply \in [Request -> {"unsent", "waiting", "forwarded", "answered",
                            "not_exist"}]
  /\ aborted \in BOOLEAN

Unborn == [sv |-> NoServer, life |-> "unborn", stage |-> "boot",
           call |-> "none", thread |-> "none", cb |-> FALSE, sigterm |-> FALSE]

\* mutant: SvInf() leaves proc uninitialized
NewSvInf_NoInit == [pstate |-> "Inactive", ior |-> NoProc, proc |-> NoServer,
                    recent |-> FALSE]

NewSvInf == [pstate |-> "Inactive", ior |-> NoProc, proc |-> NoProc,
             recent |-> FALSE]

Init ==
  /\ scenario \in Scenario
  /\ svmap = [s \in Server |-> NewSvInf]
  /\ imr = Installed
  /\ process = [p \in Proc |-> Unborn]
  /\ invokes = <<>> /\ running = FALSE /\ seen = {}
  /\ current = NoRequest /\ timer = FALSE
  /\ requests = {} /\ reply = [r \in Request |-> "unsent"]
  /\ aborted = FALSE

(***************************************************************************)
(* Helpers.                                                                *)
(***************************************************************************)

Finished(p) == process[p].thread = "finished"

\* proc is not NULL and its thread has not returned yet
Watched(s) == svmap[s].proc # NoProc /\ ~Finished(svmap[s].proc)

SetState(s, st) == svmap' = [svmap EXCEPT ![s].pstate = st]

\* RequestQueue::exec_later(): the timer is only set if there is work
ExecLater == timer' = (timer \/ invokes # <<>>)

\* a failing assert(): micod dies, nothing else of it happens
Abort ==
  /\ aborted' = TRUE
  /\ UNCHANGED <<svmap, imr, process, queueVars, clientVars>>

\* new UnixProcess(...)->run(), whose fork() may fail
Spawn(s, p) ==
  /\ process[p].life = "unborn"
  /\ svmap' = [svmap EXCEPT ![s].pstate = "Started", ![s].proc = p]
  /\ process' \in
       {[process EXCEPT ![p] = [Unborn EXCEPT !.sv = s, !.cb = TRUE,
                                !.life = "alive", !.thread = "waiting"]]}
       \cup
       (IF "forkFails" \in Events
          THEN {[process EXCEPT ![p] = [Unborn EXCEPT !.sv = s, !.cb = TRUE,
                                        !.life = "nofork"]]}
          ELSE {})

\* create_server() called in state st; ok is what it returns
CreateServer(s, st, ok) ==
  \/ /\ st \in {"Started", "Active"}
     /\ ok
     /\ UNCHANGED <<svmap, process>>
  \/ /\ st = "Failed" /\ svmap[s].recent
     /\ ~ok
     /\ UNCHANGED <<svmap, process>>
  \/ /\ st = "Inactive" \/ (st = "Failed" /\ ~svmap[s].recent)
     /\ s \notin Installed
     /\ ~ok
     /\ SetState(s, "Inactive")
     /\ UNCHANGED process
  \/ /\ st = "Inactive" \/ (st = "Failed" /\ ~svmap[s].recent)
     /\ s \in Installed
     /\ \E p \in Proc : Spawn(s, p) /\ ok = (process'[p].life = "alive")

Tell(r, what) == reply' = [reply EXCEPT ![r] = what]

\* invoke() of r with q in the queue; until it is answered its client waits
Invoke(r, q) ==
  LET s == Target[r]
      st == svmap[s].pstate
  IN
  \/ /\ st \in {"Stopped", "Holding"}
     /\ invokes' = Append(q, r) /\ Tell(r, "waiting")
     /\ UNCHANGED <<svmap, process, requests>>
  \/ /\ st \in {"Inactive", "Started", "Failed"}
     /\ CreateServer(s, st, TRUE)
     /\ invokes' = Append(q, r) /\ Tell(r, "waiting")
     /\ UNCHANGED requests
  \/ /\ st \in {"Inactive", "Started", "Failed"}
     /\ CreateServer(s, st, FALSE)
     /\ invokes' = q /\ Tell(r, "not_exist")
     /\ UNCHANGED requests
  \/ /\ st = "Active"
     /\ invokes' = q
     /\ IF Forward
          THEN Tell(r, "forwarded") /\ UNCHANGED requests
          ELSE Tell(r, "waiting") /\ requests' = requests \cup {r}
     /\ UNCHANGED <<svmap, process>>

(***************************************************************************)
(* Clients: the ORB gives a request to the mediator if has_object() knows  *)
(* the server, and the reply of a proxied one arrives through notify().    *)
(***************************************************************************)

ClientInvoke(r) ==
  /\ r \in scenario.requests /\ reply[r] = "unsent" /\ Target[r] \in imr
  /\ Invoke(r, invokes)
  /\ UNCHANGED <<imr, running, seen, current, timer, aborted>>

Notify(r) ==
  /\ r \in requests
  /\ requests' = requests \ {r}
  /\ Tell(r, "answered")
  /\ UNCHANGED <<svmap, imr, process, queueVars, aborted>>

(***************************************************************************)
(* RequestQueue::exec_now() in the dispatcher's thread.                    *)
(***************************************************************************)

ExecStart ==
  /\ timer /\ ~running
  /\ timer' = FALSE /\ running' = TRUE /\ seen' = {}
  /\ UNCHANGED <<svmap, imr, process, invokes, current, clientVars, aborted>>

\* mutant: the record that is executed stays in the queue
ExecPop_Kept ==
  /\ running /\ current = NoRequest /\ invokes # <<>>
  /\ Head(invokes) \notin seen
  /\ current' = Head(invokes)
  /\ seen' = seen \cup {Head(invokes)}
  /\ UNCHANGED <<svmap, imr, process, invokes, running, timer, clientVars,
                 aborted>>

\* take the first record; one already seen in this pass is skipped
ExecPop ==
  /\ running /\ current = NoRequest /\ invokes # <<>>
  /\ invokes' = Tail(invokes)
  /\ current' = IF Head(invokes) \in seen THEN NoRequest ELSE Head(invokes)
  /\ seen' = seen \cup {Head(invokes)}
  /\ UNCHANGED <<svmap, imr, process, running, timer, clientVars, aborted>>

\* mutant: the record is not deleted after it has been executed
ExecInvoke_Kept ==
  /\ current # NoRequest
  /\ Invoke(current, invokes)
  /\ UNCHANGED <<imr, running, seen, current, timer, aborted>>

ExecInvoke ==
  /\ current # NoRequest
  /\ Invoke(current, invokes)
  /\ current' = NoRequest
  /\ UNCHANGED <<imr, running, seen, timer, aborted>>

ExecEnd ==
  /\ running /\ current = NoRequest /\ invokes = <<>>
  /\ running' = FALSE
  /\ UNCHANGED <<svmap, imr, process, invokes, seen, current, timer,
                 clientVars, aborted>>

(***************************************************************************)
(* Server processes.  A POA registers when it is created, announces itself *)
(* when its POA manager first becomes active and says goodbye when it is   *)
(* destroyed.  A call travels to the mediator and is executed there; the   *)
(* server waits for its end.                                               *)
(***************************************************************************)

NextCall(stage) ==
  CASE stage = "boot"       -> {"create"}
    [] stage = "registered" -> {"activate"} \cup
         (IF "earlyGoodbye" \in Events THEN {"deactivate"} ELSE {})
    [] stage = "up"  -> IF "goodbye" \in Events THEN {"deactivate"} ELSE {}
    [] stage = "bye" -> {}

ServerCall(p) ==
  /\ process[p].life = "alive" /\ process[p].call = "none"
  /\ \E c \in NextCall(process[p].stage) :
       process' = [process EXCEPT ![p].call = c]
  /\ UNCHANGED <<svmap, imr, queueVars, clientVars, aborted>>

\* a server that is started by hand, with the address of micod
StartByHand(s, p) ==
  /\ "manual" \in Events /\ process[p].life = "unborn"
  /\ process' = [process EXCEPT ![p] = [Unborn EXCEPT !.sv = s, !.life = "alive"]]
  /\ UNCHANGED <<svmap, imr, queueVars, clientVars, aborted>>

\* an exit after the goodbye, SIGTERM, or a crash; the call under way, if
\* any, is lost with the connection or has already reached the mediator
Die(p) ==
  /\ process[p].life = "alive"
  /\ \/ process[p].stage = "bye" \/ process[p].sigterm \/ "crash" \in Events
  /\ \E c \in {"none"} \cup
              (IF "lateCall" \in Events THEN {process[p].call} ELSE {}) :
       process' = [process EXCEPT ![p].life = "dead", ![p].call = c]
  /\ UNCHANGED <<svmap, imr, queueVars, clientVars, aborted>>

Returns(p, stage) == [process EXCEPT ![p].call = "none", ![p].stage = stage]

CreateImpl(p) ==
  /\ process[p].call = "create"
  /\ imr' = imr \cup {process[p].sv}
  /\ svmap' = [svmap EXCEPT ![process[p].sv].ior = p]
  /\ process' = Returns(p, "registered")
  /\ UNCHANGED <<queueVars, clientVars, aborted>>

\* mutant: the queue is not woken
ActivateImpl_NoExec(p) ==
  LET s == process[p].sv IN
  /\ process[p].call = "activate"
  /\ process' = Returns(p, "up")
  /\ IF svmap[s].pstate \in {"Stopped", "Holding"}
       THEN UNCHANGED svmap
       ELSE SetState(s, "Active")
  /\ UNCHANGED <<imr, queueVars, clientVars, aborted>>

ActivateImpl(p) ==
  LET s == process[p].sv IN
  /\ process[p].call = "activate"
  /\ process' = Returns(p, "up")
  /\ IF svmap[s].pstate \in {"Stopped", "Holding"}
       THEN UNCHANGED <<svmap, timer>>
       ELSE SetState(s, "Active") /\ ExecLater
  /\ UNCHANGED <<imr, invokes, running, seen, current, clientVars, aborted>>

\* the assertions of deactivate_impl()
DeactivateFails(s) ==
  \/ svmap[s].pstate # "Stopped" /\ svmap[s].proc = NoProc
  \/ svmap[s].pstate \in {"Inactive", "Started", "Failed"}

\* mutant: the process is not detached
DeactivateImpl_NoDetach(p) ==
  LET s == process[p].sv IN
  /\ process[p].call = "deactivate"
  /\ ~DeactivateFails(s)
  /\ SetState(s, IF svmap[s].pstate = "Active" THEN "Inactive" ELSE "Stopped")
  /\ process' = Returns(p, "bye")
  /\ UNCHANGED <<imr, queueVars, clientVars, aborted>>

DeactivateImpl(p) ==
  LET s == process[p].sv
      q == svmap[s].proc
      back == Returns(p, "bye")
  IN
  /\ process[p].call = "deactivate"
  /\ ~DeactivateFails(s)
  /\ SetState(s, IF svmap[s].pstate = "Active" THEN "Inactive" ELSE "Stopped")
  /\ process' = IF q = NoProc THEN back
                ELSE [back EXCEPT ![q].cb = FALSE]       \* inf.proc->detach()
  /\ UNCHANGED <<imr, queueVars, clientVars, aborted>>

DeactivateAborts(p) ==
  /\ process[p].call = "deactivate" /\ DeactivateFails(process[p].sv)
  /\ Abort

(***************************************************************************)
(* The thread of a UnixProcess, UnixProcess::_run().                       *)
(***************************************************************************)

\* mutant: the callback is not made
Reap_NoCallback(p) ==
  /\ process[p].thread = "waiting" /\ process[p].life = "dead"
  /\ process' = [process EXCEPT ![p].thread = "returning"]
  /\ UNCHANGED <<svmap, imr, queueVars, clientVars, aborted>>

\* waitpid() returns, _cb is read
Reap(p) ==
  /\ process[p].thread = "waiting" /\ process[p].life = "dead"
  /\ process' = [process EXCEPT ![p].thread =
                   IF process[p].cb THEN "calling" ELSE "returning"]
  /\ UNCHANGED <<svmap, imr, queueVars, clientVars, aborted>>

\* mutant: an active server that exits stays Active
AfterExit_KeepActive == [Active  |-> "Active", Started |-> "Failed",
                         Stopped |-> "Stopped", Holding |-> "Stopped"]

\* the state a server is left in by the exit of its process, by state
AfterExit == [Active  |-> "Inactive", Started |-> "Failed",
              Stopped |-> "Stopped",  Holding |-> "Stopped"]

\* callback() throws finished UnixProcess objects away before anything else
Collected ==
  [s \in Server |-> IF svmap[s].proc # NoProc /\ Finished(svmap[s].proc)
                    THEN [svmap[s] EXCEPT !.proc = NoProc] ELSE svmap[s]]

Callback(p) ==
  /\ process[p].thread = "calling"
  /\ process' = [process EXCEPT ![p].thread = "returning"]
  /\ \E s \in Server :
       /\ svmap[s].proc = p
       /\ svmap[s].pstate \in DOMAIN AfterExit
       /\ svmap' = [Collected EXCEPT
                      ![s].pstate = AfterExit[svmap[s].pstate],
                      ![s].recent = @ \/ svmap[s].pstate = "Started"]
       /\ IF svmap[s].pstate = "Started" THEN ExecLater ELSE UNCHANGED timer
  /\ UNCHANGED <<imr, invokes, running, seen, current, clientVars, aborted>>

\* assert (it != svmap.end ()), and assert (0) for the other states
CallbackAborts(p) ==
  /\ process[p].thread = "calling"
  /\ \A s \in Server : svmap[s].proc = p =>
                         svmap[s].pstate \notin DOMAIN AfterExit
  /\ Abort

\* _cb is read again for the call itself, which detach() may precede
CallbackNull(p) ==
  /\ process[p].thread = "calling" /\ ~process[p].cb
  /\ Abort

ThreadEnd(p) ==
  /\ process[p].thread = "returning"
  /\ process' = [process EXCEPT ![p].thread = "finished"]
  /\ UNCHANGED <<svmap, imr, queueVars, clientVars, aborted>>

(***************************************************************************)
(* The administrator's commands, and 30 seconds passing after a failure.   *)
(***************************************************************************)

\* mutant: a stopped server is restarted while its process still runs
ForceActivation_NoWait(s) ==
  LET st == svmap[s].pstate IN
  /\ "activate" \in Admin
  /\ \/ st = "Holding" /\ SetState(s, "Active") /\ UNCHANGED process
     \/ /\ st \in {"Inactive", "Failed", "Stopped"}
        /\ \E ok \in BOOLEAN : CreateServer(s, "Inactive", ok)
  /\ UNCHANGED <<imr, queueVars, clientVars, aborted>>

ForceActivation(s) ==
  LET st == svmap[s].pstate IN
  /\ "activate" \in Admin
  /\ \/ st = "Holding" /\ SetState(s, "Active") /\ UNCHANGED process
     \/ /\ \/ st \in {"Inactive", "Failed"}
           \/ st = "Stopped" /\ ~Watched(s)
        /\ \E ok \in BOOLEAN : CreateServer(s, "Inactive", ok)
  /\ UNCHANGED <<imr, queueVars, clientVars, aborted>>

Hold(s) ==
  /\ "hold" \in Admin /\ svmap[s].pstate # "Stopped"
  /\ SetState(s, "Holding")
  /\ UNCHANGED <<imr, process, queueVars, clientVars, aborted>>

\* what stop() and terminate() assert: a process, with a pid
StopFails(s) ==
  /\ svmap[s].pstate \in {"Started", "Active", "Holding"}
  /\ svmap[s].proc \notin {p \in Proc : process[p].life # "nofork"}

Stop(s) ==
  /\ "stop" \in Admin /\ ~StopFails(s)
  /\ SetState(s, "Stopped")
  /\ process' = IF svmap[s].pstate \in {"Started", "Active", "Holding"}
                  THEN [process EXCEPT ![svmap[s].proc].sigterm = TRUE]
                  ELSE process
  /\ UNCHANGED <<imr, queueVars, clientVars, aborted>>

StopAborts(s) == "stop" \in Admin /\ StopFails(s) /\ Abort

Continue(s) ==
  /\ "continue" \in Admin /\ svmap[s].pstate \in {"Failed", "Stopped", "Holding"}
  /\ SetState(s, "Inactive") /\ ExecLater
  /\ UNCHANGED <<imr, process, invokes, running, seen, current, clientVars,
                 aborted>>

CoolDown(s) ==
  /\ svmap[s].recent
  /\ svmap' = [svmap EXCEPT ![s].recent = FALSE]
  /\ UNCHANGED <<imr, process, queueVars, clientVars, aborted>>

ProcessNext(p) ==
  \/ ServerCall(p) \/ Die(p)
  \/ CreateImpl(p) \/ ActivateImpl(p) \/ DeactivateImpl(p) \/ DeactivateAborts(p)
  \/ Reap(p) \/ Callback(p) \/ CallbackAborts(p) \/ CallbackNull(p) \/ ThreadEnd(p)

AdminNext(s) ==
  \/ /\ s \in imr                          \* commands name an entry
     /\ \/ ForceActivation(s) \/ Hold(s) \/ Continue(s)
        \/ Stop(s) \/ StopAborts(s)
  \/ CoolDown(s)
  \/ \E p \in Proc : StartByHand(s, p)

ExecNext == ExecStart \/ ExecPop \/ ExecInvoke \/ ExecEnd

Next ==
  /\ ~aborted /\ UNCHANGED scenario
  /\ \/ \E r \in Request : ClientInvoke(r) \/ Notify(r)
     \/ ExecNext
     \/ \E p \in Proc : ProcessNext(p)
     \/ \E s \in Server : AdminNext(s)

Spec == Init /\ [][Next]_vars

(***************************************************************************)
(* Fairness: the dispatcher's thread and the process threads are           *)
(* scheduled; a server that runs makes its calls, they are executed, and   *)
(* proxied replies arrive.  Nothing makes clients or administrators act,   *)
(* or a server exit that was not told to.                                  *)
(***************************************************************************)
Step(A) == ~aborted /\ A /\ UNCHANGED scenario

Told(p) == process[p].sigterm \/ process[p].stage = "bye"

Fairness ==
  /\ WF_vars(Step(ExecNext))
  /\ \A r \in Request : WF_vars(Step(Notify(r)))
  /\ \A p \in Proc :
       /\ WF_vars(Step(process[p].stage # "up" /\ ServerCall(p)))
       /\ WF_vars(Step(CreateImpl(p) \/ ActivateImpl(p) \/ DeactivateImpl(p)))
       /\ WF_vars(Step(Reap(p) \/ Callback(p) \/ ThreadEnd(p)))
       /\ WF_vars(Step(Told(p) /\ Die(p)))

FairSpec == Spec /\ Fairness

-----------------------------------------------------------------------------

\* servers that make their calls in order and can be started, administrators
\* that activate and stop them
Tame == /\ Events \subseteq {"goodbye", "crash"} /\ Admin \subseteq {"activate", "stop"}
        /\ Installed = Server

\* No assertion of the mediator fails: whatever the order of exits, callbacks,
\* calls of servers and commands, callback() finds the process it is told of
\* in a state it has a case for (poamediator.cc:1052-1104), deactivate_impl()
\* a running server (:159-179) and stop() a process to signal (:291, :302).
NoAbort == Tame => ~aborted

\* A server in state Active is one that clients can be sent to: the ior that
\* invoke() hands out (:666) is the address of the process in proc, which has
\* announced itself, and is either alive or its exit is still to be noticed.
ActiveIsReachable ==
  \A s \in Server : svmap[s].pstate = "Active" =>
    LET p == svmap[s].proc IN
    /\ p # NoProc /\ svmap[s].ior = p
    /\ process[p].stage = "up"
    /\ process[p].life = "alive" \/ process[p].thread \in {"waiting", "calling"}

\* ... and one that is Started has a process, or one whose exit is still to be
\* noticed: something will take it out of that state, as queued requests rely
\* on (:654, "until the server announces its readiness").
StartedHasProcess ==
  \A s \in Server : svmap[s].pstate = "Started" =>
    LET p == svmap[s].proc IN
    p # NoProc /\ process[p].thread \in {"waiting", "calling"}

\* Both, of servers whose processes and administrators are tame.
StateMatchesProcess == Tame => ActiveIsReachable /\ StartedHasProcess

\* At most one process serves an implementation name at a time: the mediator
\* starts no second one as long as the first has not exited or said goodbye.
OneServerPerName ==
  Tame => \A p, q \in Proc :
    /\ process[p].life = "alive" /\ process[p].stage # "bye"
    /\ process[q].life = "alive" /\ process[q].stage # "bye"
    /\ process[p].sv = process[q].sv
    => p = q

Once(r, q) == Cardinality({i \in DOMAIN q : q[i] = r})
Places(r) ==
  Once(r, invokes) + (IF current = r THEN 1 ELSE 0)
                   + (IF r \in requests THEN 1 ELSE 0)

\* A request is in at most one place: once in the queue, or being executed,
\* or proxied to a server; and nowhere once its client has an answer, so that
\* no request is executed or answered twice (queue.cc:186-202).
RequestInOnePlace ==
  \A r \in Request :
    /\ Places(r) <= 1
    /\ reply[r] # "waiting" => Places(r) = 0

\* No request that has been accepted is lost: until it is answered the
\* mediator holds it somewhere (queue.cc:193, "if invoke cannot be executed
\* yet mediator will install new ReqQueueRec").
NoRequestLost == \A r \in Request : reply[r] = "waiting" => Places(r) = 1

\* Queued requests wait for something that will happen: the announcement of
\* a server that has been started, an administrator who stopped or held the
\* server, or a pass over the queue that is scheduled or under way.  Every
\* other transition must call exec_later() (:148, :366, :1081).
NoRequestStranded ==
  Tame => \A r \in Elements(invokes) :
    \/ svmap[Target[r]].pstate \in {"Started", "Stopped", "Holding"}
    \/ timer \/ running

\* The exit of a started or active server is noticed in the end: it does not
\* stay in that state with a dead process, to which requests would go.
ExitNoticed ==
  \A s \in Server, p \in Proc :
    /\ svmap[s].proc = p /\ process[p].life = "dead"
    /\ svmap[s].pstate \in {"Started", "Active"}
    ~> ~(svmap[s].proc = p /\ svmap[s].pstate \in {"Started", "Active"})

\* Every request is answered in the end, provided that no server exits and no
\* administrator stops one: those that came before the server was up are
\* executed when it announces itself, however the dispatcher's pass over the
\* queue and the calls of clients and the server interleave.
Undisturbed ==
  /\ \A p \in Proc : process[p].life # "dead" /\ process[p].stage # "bye"
  /\ \A s \in Server : svmap[s].pstate # "Stopped"

=============================================================================
