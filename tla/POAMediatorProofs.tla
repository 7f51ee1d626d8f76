--------------------------- MODULE POAMediatorProofs ---------------------------
(***************************************************************************)
(* Proofs about POAMediator for any servers, processes and requests.       *)
(*                                                                         *)
(* TypeOK and RequestInOnePlace hold whatever servers and administrators   *)
(* do.  The others are about tame ones and rest on TameInv: the mediator   *)
(* watches a process (Attached) until it says goodbye or its exit has been *)
(* told, the process in svmap is the only one it watches for a server, and *)
(* the state of the server fits the process.                               *)
(***************************************************************************)
EXTENDS POAMediator, FiniteSetTheorems, TLAPS

SvInfs == [pstate : PState, ior : Proc \cup {NoProc}, proc : Proc \cup {NoProc},
           recent : BOOLEAN]
Processes ==
  [sv : Server \cup {NoServer}, life : {"unborn", "alive", "dead", "nofork"},
   stage : {"boot", "registered", "up", "bye"},
   call : {"none", "create", "activate", "deactivate"},
   thread : {"none", "waiting", "calling", "returning", "finished"},
   cb : BOOLEAN, sigterm : BOOLEAN]
Replies == {"unsent", "waiting", "forwarded", "answered", "not_exist"}

\* TypeOK in parts
ServerTypes == /\ scenario \in Scenario /\ svmap \in [Server -> SvInfs] /\ imr \subseteq Server
               /\ process \in [Proc -> Processes] /\ aborted \in BOOLEAN
QueueTypes == /\ invokes \in Seq(Request) /\ seen \subseteq Request /\ running \in BOOLEAN
              /\ timer \in BOOLEAN /\ current \in Request \cup {NoRequest}
ClientTypes == requests \subseteq Request /\ reply \in [Request -> Replies]

\* a call comes from a process that has a server name
Callers == \A p \in Proc : process[p].life # "unborn" \/ process[p].call # "none"
                             => process[p].sv \in Server

\* TypeOK is its parts.
LEMMA TypeParts == TypeOK <=> ServerTypes /\ QueueTypes /\ ClientTypes
  BY DEF TypeOK, ServerTypes, QueueTypes, ClientTypes, SvInfs, Processes, Replies

\* The variables have their types at first, and no process calls.
LEMMA InitTypes == Init => ServerTypes /\ QueueTypes /\ ClientTypes /\ Callers
<1> SUFFICES ASSUME Init PROVE ServerTypes /\ QueueTypes /\ ClientTypes /\ Callers
  OBVIOUS
<1>1. NewSvInf \in SvInfs /\ Unborn \in Processes
  BY DEF NewSvInf, SvInfs, Unborn, Processes, PState
<1>2. scenario \in Scenario /\ imr \subseteq Server
  BY ConstantsAssumption DEF Init, Installed
<1>3. ServerTypes
  BY <1>1, <1>2 DEF Init, ServerTypes
<1>4. <<>> \in Seq(Request)
  OBVIOUS
<1>5. QueueTypes /\ ClientTypes
  BY <1>4 DEF Init, QueueTypes, ClientTypes, Replies
<1>6. Callers
  BY DEF Init, Callers, Unborn
<1> QED
  BY <1>3, <1>5, <1>6

-----------------------------------------------------------------------------
\* What the helpers do to svmap and process.

\* set_state() keeps the type of svmap.
LEMMA SetStateType ==
  ASSUME ServerTypes, NEW s \in Server, NEW st \in PState, SetState(s, st)
  PROVE  svmap' \in [Server -> SvInfs]
  BY DEF SetState, ServerTypes, SvInfs

\* A call that returns, and detach(), change no other field of a process.
LEMMA ProcessUpdates ==
  ASSUME NEW r \in Processes, NEW st \in {"boot", "registered", "up", "bye"}
  PROVE  /\ [r EXCEPT !.call = "none", !.stage = st] \in Processes
         /\ [r EXCEPT !.call = "none", !.stage = st].sv = r.sv
         /\ [r EXCEPT !.call = "none", !.stage = st].life = r.life
         /\ [r EXCEPT !.cb = FALSE] \in Processes
         /\ [r EXCEPT !.cb = FALSE].sv = r.sv
         /\ [r EXCEPT !.cb = FALSE].life = r.life
         /\ [r EXCEPT !.cb = FALSE].call = r.call
<1>1. [r EXCEPT !.call = "none", !.stage = st] \in Processes
  BY DEF Processes
<1>2. [r EXCEPT !.cb = FALSE] \in Processes
  BY DEF Processes
<1>3. /\ [r EXCEPT !.call = "none", !.stage = st].sv = r.sv
      /\ [r EXCEPT !.call = "none", !.stage = st].life = r.life
  BY DEF Processes
<1>4. /\ [r EXCEPT !.cb = FALSE].sv = r.sv
      /\ [r EXCEPT !.cb = FALSE].life = r.life
      /\ [r EXCEPT !.cb = FALSE].call = r.call
  BY DEF Processes
<1> QED
  BY <1>1, <1>2, <1>3, <1>4

\* create_server() that forks keeps the types of svmap and the processes.
LEMMA SpawnType ==
  ASSUME ServerTypes, Callers, NEW s \in Server, NEW p \in Proc, Spawn(s, p)
  PROVE  svmap' \in [Server -> SvInfs] /\ process' \in [Proc -> Processes] /\ Callers'
<1>1. svmap' \in [Server -> SvInfs]
  <2> DEFINE new == [svmap[s] EXCEPT !.pstate = "Started", !.proc = p]
  <2>1. new \in SvInfs
    BY DEF ServerTypes, SvInfs, PState
  <2>2. svmap' = [svmap EXCEPT ![s] = new]
    BY DEF Spawn
  <2> HIDE DEF new
  <2> QED
    BY <2>1, <2>2 DEF ServerTypes
<1>2. PICK new \in Processes : process' = [process EXCEPT ![p] = new] /\ new.sv = s
  <2> DEFINE alive == [Unborn EXCEPT !.sv = s, !.cb = TRUE, !.life = "alive",
                                      !.thread = "waiting"]
             nofork == [Unborn EXCEPT !.sv = s, !.cb = TRUE, !.life = "nofork"]
  <2>1. Unborn \in Processes
    BY DEF Unborn, Processes
  <2>2. alive \in Processes /\ alive.sv = s
    BY <2>1 DEF Processes
  <2>3. nofork \in Processes /\ nofork.sv = s
    BY <2>1 DEF Processes
  <2> QED
    BY <2>1, <2>2, <2>3 DEF Spawn
<1>3. process' \in [Proc -> Processes]
  BY <1>2 DEF ServerTypes
<1>4. \A q \in Proc : process'[q] = IF q = p THEN new ELSE process[q]
  BY <1>2 DEF ServerTypes
<1>5. Callers'
  BY <1>2, <1>4 DEF Callers
<1> QED
  BY <1>1, <1>3, <1>5

\* create_server() keeps these types, whether it forks or fails.
LEMMA CreateServerType ==
  ASSUME ServerTypes, Callers, NEW s \in Server, NEW st, NEW ok, CreateServer(s, st, ok)
  PROVE  svmap' \in [Server -> SvInfs] /\ process' \in [Proc -> Processes] /\ Callers'
<1>1. CASE UNCHANGED <<svmap, process>>
  BY <1>1 DEF ServerTypes, Callers
<1>2. CASE SetState(s, "Inactive") /\ UNCHANGED process
  BY <1>2, SetStateType DEF ServerTypes, Callers, PState
<1>3. CASE \E p \in Proc : Spawn(s, p)
  BY <1>3, SpawnType
<1> QED
  BY <1>1, <1>2, <1>3 DEF CreateServer

\* invoke() keeps the types of all it changes.
LEMMA InvokeType ==
  ASSUME ServerTypes, ClientTypes, Callers, NEW r \in Request, NEW q \in Seq(Request),
         Invoke(r, q)
  PROVE  /\ svmap' \in [Server -> SvInfs] /\ process' \in [Proc -> Processes] /\ Callers'
         /\ invokes' \in Seq(Request) /\ ClientTypes'
<1>1. Target[r] \in Server
  BY ConstantsAssumption
<1>2. /\ svmap' \in [Server -> SvInfs] /\ process' \in [Proc -> Processes] /\ Callers'
  <2>1. CASE UNCHANGED <<svmap, process>>
    BY <2>1 DEF ServerTypes, Callers
  <2>2. CASE \E st, ok : CreateServer(Target[r], st, ok)
    BY <1>1, <2>2, CreateServerType
  <2> QED
    BY <2>1, <2>2 DEF Invoke
<1>3. invokes' = Append(q, r) \/ invokes' = q
  BY DEF Invoke
<1>4. \E what \in Replies : reply' = [reply EXCEPT ![r] = what]
  BY DEF Invoke, Tell, Replies
<1>5. requests' = requests \/ requests' = requests \cup {r}
  BY DEF Invoke
<1>6. Append(q, r) \in Seq(Request)
  OBVIOUS
<1>7. invokes' \in Seq(Request)
  BY <1>3, <1>6
<1>8. ClientTypes'
  BY <1>4, <1>5 DEF ClientTypes
<1> QED
  BY <1>2, <1>7, <1>8

-----------------------------------------------------------------------------
\* A step that changes one process, but not its name.
LEMMA OneProcess ==
  ASSUME ServerTypes, Callers, NEW p \in Proc, NEW new \in Processes,
         process' = [process EXCEPT ![p] = new], new.sv = process[p].sv,
         process[p].life # "unborn" \/ process[p].call # "none"
  PROVE  process' \in [Proc -> Processes] /\ Callers'
  BY DEF ServerTypes, Callers

TypeInv == ServerTypes /\ QueueTypes /\ ClientTypes /\ Callers

\* The steps of requests keep the types.
LEMMA RequestTypes ==
  ASSUME TypeInv, scenario' = scenario,
         (\E r \in Request : ClientInvoke(r) \/ Notify(r)) \/ ExecNext
  PROVE  TypeInv'
<1> USE DEF TypeInv
<1>1. CASE \E r \in Request : ClientInvoke(r)
  BY <1>1, InvokeType DEF ClientInvoke, QueueTypes, ServerTypes
<1>2. CASE \E r \in Request : Notify(r)
  BY <1>2 DEF Notify, Tell, ServerTypes, QueueTypes, ClientTypes, Callers, queueVars, Replies
<1>3. CASE ExecStart \/ ExecEnd
  BY <1>3 DEF ExecStart, ExecEnd, ServerTypes, QueueTypes, ClientTypes, Callers, clientVars
<1>4. CASE ExecPop
  <2>1. Head(invokes) \in Request /\ Tail(invokes) \in Seq(Request)
    BY <1>4 DEF ExecPop, QueueTypes
  <2>2. QueueTypes'
    BY <1>4, <2>1 DEF ExecPop, QueueTypes
  <2> QED
    BY <1>4, <2>2 DEF ExecPop, ServerTypes, ClientTypes, Callers, clientVars
<1>5. CASE ExecInvoke
  <2>1. current \in Request
    BY <1>5 DEF ExecInvoke, QueueTypes
  <2>2. /\ svmap' \in [Server -> SvInfs] /\ process' \in [Proc -> Processes] /\ Callers'
        /\ invokes' \in Seq(Request) /\ ClientTypes'
    BY <1>5, <2>1, InvokeType DEF ExecInvoke, QueueTypes
  <2> QED
    BY <1>5, <2>2 DEF ExecInvoke, QueueTypes, ServerTypes
<1> QED
  BY <1>1, <1>2, <1>3, <1>4, <1>5 DEF ExecNext

\* The steps of processes, and of the threads that watch them, keep the types.
LEMMA ProcessTypes ==
  ASSUME TypeInv, scenario' = scenario, NEW p \in Proc, ProcessNext(p)
  PROVE  TypeInv'
<1> USE DEF TypeInv
<1>1. CASE ServerCall(p)
  <2>1. PICK c \in NextCall(process[p].stage) : process' = [process EXCEPT ![p].call = c]
    BY <1>1 DEF ServerCall
  <2>2. c \in {"create", "activate", "deactivate"}
    BY DEF NextCall, ServerTypes, Processes
  <2> DEFINE new == [process[p] EXCEPT !.call = c]
  <2>4. new \in Processes /\ new.sv = process[p].sv
    BY <2>2 DEF ServerTypes, Processes
  <2>3. process' \in [Proc -> Processes] /\ Callers'
    BY <1>1, <2>1, <2>4, OneProcess DEF ServerCall
  <2> QED
    BY <1>1, <2>3 DEF ServerCall, ServerTypes, QueueTypes, ClientTypes, queueVars, clientVars
<1>2. CASE Die(p)
  <2>1. PICK c : /\ process' = [process EXCEPT ![p].life = "dead", ![p].call = c]
                 /\ c \in {"none", process[p].call}
    BY <1>2 DEF Die
  <2> DEFINE new == [process[p] EXCEPT !.life = "dead", !.call = c]
  <2>3. new \in Processes /\ new.sv = process[p].sv /\ process' = [process EXCEPT ![p] = new]
    BY <2>1 DEF ServerTypes, Processes
  <2>2. process' \in [Proc -> Processes] /\ Callers'
    BY <1>2, <2>3, OneProcess DEF Die
  <2> QED
    BY <1>2, <2>2 DEF Die, ServerTypes, QueueTypes, ClientTypes, queueVars, clientVars
<1>3. CASE CreateImpl(p)
  <2>1. process[p].sv \in Server
    BY <1>3 DEF CreateImpl, Callers
  <2> DEFINE new == [process[p] EXCEPT !.call = "none", !.stage = "registered"]
  <2>3. new \in Processes /\ new.sv = process[p].sv /\ process' = [process EXCEPT ![p] = new]
    BY <1>3 DEF CreateImpl, Returns, ServerTypes, Processes
  <2>4. process' \in [Proc -> Processes] /\ Callers'
    BY <1>3, <2>3, OneProcess DEF CreateImpl
  <2>5. svmap' \in [Server -> SvInfs]
    BY <1>3, <2>1 DEF CreateImpl, ServerTypes, SvInfs
  <2>2. process' \in [Proc -> Processes] /\ Callers' /\ svmap' \in [Server -> SvInfs]
    BY <2>4, <2>5
  <2> QED
    BY <1>3, <2>1, <2>2 DEF CreateImpl, ServerTypes, QueueTypes, ClientTypes, queueVars,
       clientVars
<1>4. CASE ActivateImpl(p)
  <2>1. process[p].sv \in Server
    BY <1>4 DEF ActivateImpl, Callers
  <2> DEFINE new == [process[p] EXCEPT !.call = "none", !.stage = "up"]
  <2>4. new \in Processes /\ new.sv = process[p].sv /\ process' = [process EXCEPT ![p] = new]
    BY <1>4 DEF ActivateImpl, Returns, ServerTypes, Processes
  <2>2. process' \in [Proc -> Processes] /\ Callers'
    BY <1>4, <2>4, OneProcess DEF ActivateImpl
  <2>3. svmap' \in [Server -> SvInfs] /\ timer' \in BOOLEAN
    BY <1>4, <2>1, SetStateType DEF ActivateImpl, ExecLater, ServerTypes, QueueTypes, PState
  <2> QED
    BY <1>4, <2>2, <2>3 DEF ActivateImpl, ServerTypes, QueueTypes, ClientTypes, clientVars
<1>5. CASE DeactivateImpl(p)
  <2> DEFINE s == process[p].sv
             back == Returns(p, "bye")
  <2>1. s \in Server
    BY <1>5 DEF DeactivateImpl, Callers
  <2>2. /\ back \in [Proc -> Processes]
        /\ \A q \in Proc : back[q].sv = process[q].sv /\ back[q].life = process[q].life
    <3> DEFINE new == [process[p] EXCEPT !.call = "none", !.stage = "bye"]
    <3>1. /\ new \in Processes /\ new.sv = process[p].sv /\ new.life = process[p].life
          /\ back = [process EXCEPT ![p] = new]
      BY ProcessUpdates DEF Returns, ServerTypes
    <3> HIDE DEF new, back
    <3> QED
      BY <3>1 DEF ServerTypes
  <2>3. \A q \in Proc : q # p => back[q].call = process[q].call
    BY DEF Returns, ServerTypes
  <2>4. process' = back \/ \E q \in Proc : process' = [back EXCEPT ![q].cb = FALSE]
    BY <1>5, <2>1 DEF DeactivateImpl, ServerTypes, SvInfs
  <2>5. process[p].call # "none"
    BY <1>5 DEF DeactivateImpl
  <2> HIDE DEF back
  <2>6. /\ process' \in [Proc -> Processes]
        /\ \A q \in Proc : /\ process'[q].sv = process[q].sv
                           /\ process'[q].life = process[q].life
                           /\ q # p => process'[q].call = process[q].call
    <3>1. CASE process' = back
      BY <2>2, <2>3, <3>1
    <3>2. ASSUME NEW q \in Proc, process' = [back EXCEPT ![q].cb = FALSE]
          PROVE  /\ process' \in [Proc -> Processes]
                 /\ \A u \in Proc : /\ process'[u].sv = back[u].sv
                                    /\ process'[u].life = back[u].life
                                    /\ process'[u].call = back[u].call
      <4> DEFINE new == [back[q] EXCEPT !.cb = FALSE]
      <4>1. /\ new \in Processes /\ new.sv = back[q].sv /\ new.life = back[q].life
            /\ new.call = back[q].call
        BY <2>2, ProcessUpdates
      <4>2. process' = [back EXCEPT ![q] = new]
        BY <3>2
      <4> HIDE DEF new
      <4> QED
        BY <4>1, <4>2, <2>2
    <3> QED
      BY <2>2, <2>3, <2>4, <3>1, <3>2
  <2>7. Callers'
    BY <2>1, <2>5, <2>6 DEF Callers
  <2>8. svmap' \in [Server -> SvInfs]
    BY <1>5, <2>1, SetStateType DEF DeactivateImpl, PState
  <2> QED
    BY <1>5, <2>6, <2>7, <2>8 DEF DeactivateImpl, ServerTypes, QueueTypes, ClientTypes,
       queueVars, clientVars
<1>6. CASE Abort
  BY <1>6 DEF Abort, ServerTypes, QueueTypes, ClientTypes, Callers, queueVars, clientVars
<1>7. CASE Reap(p) \/ ThreadEnd(p)
  <2>1. \E th \in {"calling", "returning", "finished"} :
          process' = [process EXCEPT ![p].thread = th]
    BY <1>7 DEF Reap, ThreadEnd
  <2>2. process' \in [Proc -> Processes] /\ Callers'
    BY <2>1 DEF ServerTypes, Callers, Processes
  <2> QED
    BY <1>7, <2>2 DEF Reap, ThreadEnd, ServerTypes, QueueTypes, ClientTypes, queueVars,
       clientVars
<1>8. CASE Callback(p)
  <2>1. process' \in [Proc -> Processes] /\ Callers'
    BY <1>8 DEF Callback, ServerTypes, Callers, Processes
  <2>2. Collected \in [Server -> SvInfs]
    BY DEF Collected, ServerTypes, SvInfs
  <2>3. PICK s \in Server : /\ svmap[s].pstate \in DOMAIN AfterExit
                            /\ svmap' = [Collected EXCEPT
                                 ![s].pstate = AfterExit[svmap[s].pstate],
                                 ![s].recent = @ \/ svmap[s].pstate = "Started"]
    BY <1>8 DEF Callback
  <2>4. AfterExit[svmap[s].pstate] \in PState
    BY <2>3 DEF AfterExit, PState
  <2> HIDE DEF AfterExit
  <2>5. svmap' \in [Server -> SvInfs]
    BY <2>2, <2>3, <2>4 DEF SvInfs
  <2>6. timer' \in BOOLEAN
    BY <1>8 DEF Callback, ExecLater, QueueTypes
  <2> QED
    BY <1>8, <2>1, <2>5, <2>6 DEF Callback, ServerTypes, QueueTypes, ClientTypes, clientVars
<1> QED
  BY <1>1, <1>2, <1>3, <1>4, <1>5, <1>6, <1>7, <1>8
     DEF ProcessNext, DeactivateAborts, CallbackAborts, CallbackNull

\* The commands of administrators keep the types.
LEMMA AdminTypes ==
  ASSUME TypeInv, scenario' = scenario, NEW s \in Server, AdminNext(s)
  PROVE  TypeInv'
<1> USE DEF TypeInv
<1>1. CASE ForceActivation(s)
  <2>1. /\ svmap' \in [Server -> SvInfs] /\ process' \in [Proc -> Processes] /\ Callers'
    <3>1. CASE SetState(s, "Active") /\ UNCHANGED process
      BY <3>1, SetStateType DEF ServerTypes, Callers, PState
    <3>2. CASE \E ok \in BOOLEAN : CreateServer(s, "Inactive", ok)
      BY <3>2, CreateServerType
    <3> QED
      BY <1>1, <3>1, <3>2 DEF ForceActivation
  <2> QED
    BY <1>1, <2>1 DEF ForceActivation, ServerTypes, QueueTypes, ClientTypes, queueVars,
       clientVars
<1>2. CASE Hold(s) \/ Continue(s)
  <2>1. svmap' \in [Server -> SvInfs] /\ process' = process
    BY <1>2, SetStateType DEF Hold, Continue, PState
  <2>2. timer' \in BOOLEAN
    BY <1>2 DEF Hold, Continue, ExecLater, QueueTypes, queueVars
  <2> QED
    BY <1>2, <2>1, <2>2 DEF Hold, Continue, ServerTypes, QueueTypes, ClientTypes, Callers,
       queueVars, clientVars
<1>3. CASE Stop(s)
  <2>1. svmap' \in [Server -> SvInfs]
    BY <1>3, SetStateType DEF Stop, PState
  <2>2. process' = process \/ \E q \in Proc : process' = [process EXCEPT ![q].sigterm = TRUE]
    BY <1>3 DEF Stop, StopFails
  <2>3. process' \in [Proc -> Processes] /\ Callers'
    <3>1. CASE process' = process
      BY <3>1 DEF ServerTypes, Callers
    <3>2. ASSUME NEW q \in Proc, process' = [process EXCEPT ![q].sigterm = TRUE]
          PROVE  process' \in [Proc -> Processes] /\ Callers'
      <4> DEFINE new == [process[q] EXCEPT !.sigterm = TRUE]
      <4>1. /\ new \in Processes /\ new.sv = process[q].sv /\ new.life = process[q].life
            /\ new.call = process[q].call
        BY DEF ServerTypes, Processes
      <4>2. process' = [process EXCEPT ![q] = new]
        BY <3>2
      <4> HIDE DEF new
      <4> QED
        BY <4>1, <4>2 DEF ServerTypes, Callers
    <3> QED
      BY <2>2, <3>1, <3>2
  <2> QED
    BY <1>3, <2>1, <2>3 DEF Stop, ServerTypes, QueueTypes, ClientTypes, queueVars, clientVars
<1>4. CASE StopAborts(s)
  BY <1>4 DEF StopAborts, Abort, ServerTypes, QueueTypes, ClientTypes, Callers, queueVars,
     clientVars
<1>5. CASE CoolDown(s)
  <2>1. svmap' \in [Server -> SvInfs]
    BY <1>5 DEF CoolDown, ServerTypes, SvInfs
  <2> QED
    BY <1>5, <2>1 DEF CoolDown, ServerTypes, QueueTypes, ClientTypes, Callers, queueVars,
       clientVars
<1>6. CASE \E p \in Proc : StartByHand(s, p)
  <2>1. PICK p \in Proc : StartByHand(s, p)
    BY <1>6
  <2>2. process' \in [Proc -> Processes] /\ Callers'
    BY <2>1 DEF StartByHand, ServerTypes, Callers, Processes, Unborn
  <2> QED
    BY <2>1, <2>2 DEF StartByHand, ServerTypes, QueueTypes, ClientTypes, queueVars, clientVars
<1> QED
  BY <1>1, <1>2, <1>3, <1>4, <1>5, <1>6 DEF AdminNext

-----------------------------------------------------------------------------
(***************************************************************************)
(* Tame servers and administrators.                                        *)
(***************************************************************************)

\* the mediator's UnixProcess object of p will tell its exit
Attached(p) == process[p].cb /\ process[p].thread \in {"waiting", "calling"}

ProcessFits(p) ==
  LET i == process[p] IN
  IF i.life = "unborn" THEN i.call = "none" /\ i.thread = "none"
  ELSE /\ i.sv \in Server /\ i.life \in {"alive", "dead"} /\ i.thread # "none"
       /\ i.thread # "waiting" => i.life = "dead"
       /\ i.thread = "calling" => i.cb
       /\ i.cb <=> i.stage # "bye"
       /\ i.call # "none" =>
            /\ i.life = "alive"
            /\ \/ i.call = "create" /\ i.stage = "boot"
               \/ i.call = "activate" /\ i.stage = "registered"
               \/ i.call = "deactivate" /\ i.stage = "up"
       /\ Attached(p) => /\ svmap[i.sv].proc = p
                         /\ i.stage # "boot" => svmap[i.sv].ior = p

ServerFits(s) ==
  LET p == svmap[s].proc IN
  /\ p # NoProc => process[p].life # "unborn" /\ process[p].sv = s
  /\ svmap[s].pstate # "Holding"
  /\ svmap[s].pstate \in {"Inactive", "Failed"} => p = NoProc \/ ~Attached(p)
  /\ svmap[s].pstate = "Started" => /\ p # NoProc /\ Attached(p)
                                    /\ process[p].stage \in {"boot", "registered"}
  /\ svmap[s].pstate = "Active" => /\ p # NoProc /\ Attached(p)
                                   /\ process[p].stage = "up"

TameInv == /\ ~aborted /\ \A p \in Proc : ProcessFits(p)
           /\ \A s \in Server : ServerFits(s)

Inv == TypeInv /\ Tame /\ TameInv

\* No process but p changes, and of another server at most that its finished
\* process is forgotten.
Others(p, s) ==
  /\ \A q \in Proc : q # p => process'[q] = process[q]
  /\ \A t \in Server : t # s =>
       /\ svmap'[t].pstate = svmap[t].pstate /\ svmap'[t].ior = svmap[t].ior
       /\ \/ svmap'[t].proc = svmap[t].proc
          \/ svmap'[t].proc = NoProc /\ ~Attached(svmap[t].proc)

\* What two processes, or a process and a server, have to do with each other.
LEMMA Apart ==
  ASSUME Inv, NEW p \in Proc, NEW s \in Server, process[p].life # "unborn" => process[p].sv = s,
         Others(p, s), ~aborted',
         process'[p].life # "unborn" /\ process'[p].sv = s,
         ProcessFits(p)', ServerFits(s)',
         \/ svmap'[s].proc = svmap[s].proc /\ svmap'[s].ior \in {svmap[s].ior, p}
         \/ svmap[s].proc = NoProc \/ ~Attached(svmap[s].proc),
         svmap'[s].ior # svmap[s].ior => svmap'[s].proc = p
  PROVE  TameInv'
<1> USE DEF Inv, TameInv
<1>1. ASSUME NEW q \in Proc, q # p
      PROVE  ProcessFits(q)'
  <2>1. ProcessFits(q) /\ process'[q] = process[q]
    BY <1>1 DEF Others
  <2>2. Attached(q) => /\ svmap'[process[q].sv].proc = q
                       /\ svmap'[process[q].sv].ior = svmap[process[q].sv].ior
    <3> SUFFICES ASSUME Attached(q)
                 PROVE  /\ svmap'[process[q].sv].proc = q
                        /\ svmap'[process[q].sv].ior = svmap[process[q].sv].ior
      OBVIOUS
    <3>1. process[q].sv \in Server /\ svmap[process[q].sv].proc = q
      BY <2>1 DEF ProcessFits, Attached
    <3>2. CASE process[q].sv # s
      BY <3>1, <3>2 DEF Others
    <3>3. CASE process[q].sv = s
      <4>1. svmap[s].proc = q /\ q # NoProc
        BY <3>1, <3>3, ConstantsAssumption
      <4>2. svmap'[s].proc = q
        BY <4>1
      <4> QED
        BY <3>3, <4>2, <1>1
    <3> QED
      BY <3>2, <3>3
  <2> QED
    BY <2>1, <2>2 DEF ProcessFits, Attached
<1>2. ASSUME NEW t \in Server, t # s
      PROVE  ServerFits(t)'
  <2>1. /\ ServerFits(t)
        /\ svmap'[t].pstate = svmap[t].pstate
        /\ \/ svmap'[t].proc = svmap[t].proc
           \/ svmap'[t].proc = NoProc /\ ~Attached(svmap[t].proc)
    BY <1>2 DEF Others
  <2>2. svmap[t].proc # NoProc => svmap[t].proc \in Proc /\ svmap[t].proc # p
    BY <1>2, <2>1 DEF ServerFits, TypeInv, ServerTypes, SvInfs
  <2>3. svmap[t].proc # NoProc => process'[svmap[t].proc] = process[svmap[t].proc]
    BY <2>2 DEF Others
  <2> QED
    BY <2>1, <2>3 DEF ServerFits, Attached
<1> QED
  BY <1>1, <1>2

\* Steps that change the process p only.
LEMMA ProcessOnly ==
  ASSUME Inv, NEW p \in Proc, process[p].life # "unborn",
         \A q \in Proc : q # p => process'[q] = process[q],
         svmap' = svmap, ~aborted', process'[p].sv = process[p].sv,
         process'[p].stage = process[p].stage, Attached(p)' = Attached(p),
         process'[p].life # "unborn", ProcessFits(p)'
  PROVE  TameInv'
<1>0. PICK s \in Server : s = process[p].sv
  BY DEF Inv, TameInv, ProcessFits
<1>1. ServerFits(s)
  BY DEF Inv, TameInv
<1>2. Others(p, s)
  BY DEF Others
<1>3. svmap[s].proc # NoProc => svmap[s].proc \in Proc
  BY <1>1 DEF Inv, TypeInv, ServerTypes, SvInfs
<1>4. \A q \in Proc : /\ Attached(q)' <=> Attached(q)
                      /\ process'[q].stage = process[q].stage
                      /\ process'[q].sv = process[q].sv
                      /\ process[q].life # "unborn" => process'[q].life # "unborn"
  BY DEF Attached
<1>5. ServerFits(s)'
  BY <1>1, <1>3, <1>4 DEF ServerFits
<1> QED
  BY <1>0, <1>2, <1>5, Apart

\* A server process that is alive and has not said goodbye is watched.
LEMMA AliveAttached ==
  ASSUME Inv, NEW p \in Proc, process[p].life = "alive", process[p].stage # "bye"
  PROVE  /\ process[p].sv \in Server /\ Attached(p) /\ svmap[process[p].sv].proc = p
         /\ process[p].thread = "waiting" /\ process[p].cb
<1>1. ProcessFits(p)
  BY DEF Inv, TameInv
<1>2. process[p].thread = "waiting" /\ process[p].cb
  BY <1>1 DEF ProcessFits
<1> QED
  BY <1>1, <1>2 DEF ProcessFits, Attached

\* A server that calls the mediator keeps TameInv.
LEMMA ServerCallTame ==
  ASSUME Inv, NEW p \in Proc, ServerCall(p), ~aborted
  PROVE  TameInv'
<1>1. PICK c \in NextCall(process[p].stage) : process' = [process EXCEPT ![p].call = c]
  BY DEF ServerCall
<1>2. \/ process[p].stage = "boot" /\ c = "create"
      \/ process[p].stage = "registered" /\ c = "activate"
      \/ process[p].stage = "up" /\ c = "deactivate"
  <2>1. "earlyGoodbye" \notin Events
    BY DEF Inv, Tame
  <2>2. process[p].stage \in {"boot", "registered", "up", "bye"}
    BY DEF Inv, TypeInv, ServerTypes, Processes
  <2> QED
    <3>1. CASE process[p].stage = "boot"
      BY <3>1 DEF NextCall
    <3>2. CASE process[p].stage = "registered"
      BY <2>1, <3>2 DEF NextCall
    <3>3. CASE process[p].stage = "up"
      BY <3>3 DEF NextCall
    <3>4. CASE process[p].stage = "bye"
      BY <3>4 DEF NextCall
    <3> QED
      BY <2>2, <3>1, <3>2, <3>3, <3>4
<1>3. /\ \A q \in Proc : q # p => process'[q] = process[q]
      /\ process'[p].life = process[p].life /\ process'[p].stage = process[p].stage
      /\ process'[p].thread = process[p].thread /\ process'[p].cb = process[p].cb
      /\ process'[p].sv = process[p].sv /\ process'[p].call = c
  BY <1>1 DEF Inv, TypeInv, ServerTypes, Processes
<1>4. process[p].life = "alive" /\ svmap' = svmap /\ ~aborted'
  BY DEF ServerCall
<1>5. ProcessFits(p)
  BY DEF Inv, TameInv
<1>6. ProcessFits(p)' /\ Attached(p)' = Attached(p)
  BY <1>2, <1>3, <1>4, <1>5 DEF ProcessFits, Attached
<1> QED
  BY <1>3, <1>4, <1>6, ProcessOnly

\* A process that dies keeps TameInv: its exit is still to be told.
LEMMA DieTame ==
  ASSUME Inv, NEW p \in Proc, Die(p), ~aborted
  PROVE  TameInv'
<1>1. process' = [process EXCEPT ![p].life = "dead", ![p].call = "none"]
  BY DEF Die, Inv, Tame
<1>2. /\ \A q \in Proc : q # p => process'[q] = process[q]
      /\ process'[p].life = "dead" /\ process'[p].stage = process[p].stage
      /\ process'[p].thread = process[p].thread /\ process'[p].cb = process[p].cb
      /\ process'[p].sv = process[p].sv /\ process'[p].call = "none"
  BY <1>1 DEF Inv, TypeInv, ServerTypes, Processes
<1>3. process[p].life = "alive" /\ svmap' = svmap /\ ~aborted'
  BY DEF Die
<1>4. ProcessFits(p)
  BY DEF Inv, TameInv
<1>5. ProcessFits(p)' /\ Attached(p)' = Attached(p)
  BY <1>2, <1>3, <1>4 DEF ProcessFits, Attached
<1> QED
  BY <1>2, <1>3, <1>5, ProcessOnly

\* create_impl() keeps TameInv.
LEMMA CreateImplTame ==
  ASSUME Inv, NEW p \in Proc, CreateImpl(p), ~aborted
  PROVE  TameInv'
<1>0. PICK s \in Server : s = process[p].sv
  BY DEF CreateImpl, Inv, TypeInv, Callers
<1>1. ProcessFits(p) /\ process[p].call = "create" /\ ~aborted'
  BY DEF Inv, TameInv, CreateImpl
<1>2. process[p].life = "alive" /\ process[p].stage = "boot"
  BY <1>1 DEF ProcessFits
<1>3. Attached(p) /\ svmap[s].proc = p
  BY <1>0, <1>2, AliveAttached
<1>4. /\ \A q \in Proc : q # p => process'[q] = process[q]
      /\ process'[p].life = process[p].life /\ process'[p].stage = "registered"
      /\ process'[p].thread = process[p].thread /\ process'[p].cb = process[p].cb
      /\ process'[p].sv = s /\ process'[p].call = "none"
  BY <1>0 DEF CreateImpl, Returns, Inv, TypeInv, ServerTypes, Processes
<1>5. /\ \A t \in Server : t # s => svmap'[t] = svmap[t]
      /\ svmap'[s].proc = p /\ svmap'[s].ior = p /\ svmap'[s].pstate = svmap[s].pstate
  BY <1>0, <1>3 DEF CreateImpl, Inv, TypeInv, ServerTypes, SvInfs
<1>6. ServerFits(s)
  BY <1>3 DEF Inv, TameInv
<1>7. Others(p, s)
  BY <1>4, <1>5 DEF Others
<1>8. ProcessFits(p)' /\ Attached(p)'
  BY <1>0, <1>1, <1>2, <1>3, <1>4, <1>5 DEF ProcessFits, Attached
<1>9. ServerFits(s)'
  BY <1>2, <1>3, <1>4, <1>5, <1>6, <1>8 DEF ServerFits
<1> QED
  BY <1>1, <1>2, <1>3, <1>4, <1>5, <1>7, <1>8, <1>9, <1>0, Apart

\* activate_impl() keeps TameInv: only a process that is watched gets its answer.
LEMMA ActivateImplTame ==
  ASSUME Inv, NEW p \in Proc, ActivateImpl(p), ~aborted
  PROVE  TameInv'
<1>0. PICK s \in Server : s = process[p].sv
  BY DEF ActivateImpl, Inv, TypeInv, Callers
<1>1. ProcessFits(p) /\ process[p].call = "activate" /\ ~aborted'
  BY DEF Inv, TameInv, ActivateImpl
<1>2. process[p].life = "alive" /\ process[p].stage = "registered"
  BY <1>1 DEF ProcessFits
<1>3. Attached(p) /\ svmap[s].proc = p /\ svmap[s].ior = p
  BY <1>0, <1>1, <1>2, AliveAttached DEF ProcessFits
<1>4. /\ \A q \in Proc : q # p => process'[q] = process[q]
      /\ process'[p].life = process[p].life /\ process'[p].stage = "up"
      /\ process'[p].thread = process[p].thread /\ process'[p].cb = process[p].cb
      /\ process'[p].sv = s /\ process'[p].call = "none"
  BY <1>0 DEF ActivateImpl, Returns, Inv, TypeInv, ServerTypes, Processes
<1>6. ServerFits(s)
  BY <1>3 DEF Inv, TameInv
<1>5. /\ \A t \in Server : t # s => svmap'[t] = svmap[t]
      /\ svmap'[s].proc = p /\ svmap'[s].ior = p /\ svmap'[s].pstate \in {"Stopped", "Active"}
  BY <1>0, <1>3, <1>6 DEF ActivateImpl, SetState, ServerFits, Inv, TypeInv, ServerTypes, SvInfs
<1>7. Others(p, s)
  BY <1>4, <1>5 DEF Others
<1>8. ProcessFits(p)' /\ Attached(p)'
  BY <1>0, <1>1, <1>2, <1>3, <1>4, <1>5 DEF ProcessFits, Attached
<1>9. ServerFits(s)'
  BY <1>2, <1>4, <1>5, <1>8, ConstantsAssumption DEF ServerFits
<1> QED
  BY <1>1, <1>2, <1>3, <1>4, <1>5, <1>7, <1>8, <1>9, <1>0, Apart

\* The caller of deactivate_impl() is the process in svmap, in a state that
\* allows it.
LEMMA DeactivateOK ==
  ASSUME Inv, NEW p \in Proc, process[p].call = "deactivate"
  PROVE  /\ process[p].life = "alive" /\ process[p].stage = "up"
         /\ process[p].sv \in Server /\ Attached(p) /\ svmap[process[p].sv].proc = p
         /\ svmap[process[p].sv].pstate \in {"Active", "Stopped"}
         /\ ~DeactivateFails(process[p].sv)
<1>1. ProcessFits(p)
  BY DEF Inv, TameInv
<1>2. process[p].life = "alive" /\ process[p].stage = "up"
  BY <1>1 DEF ProcessFits
<1>3. process[p].sv \in Server /\ Attached(p) /\ svmap[process[p].sv].proc = p
  BY <1>2, AliveAttached
<1>4. ServerFits(process[p].sv) /\ svmap[process[p].sv].pstate \in PState
  BY <1>3 DEF Inv, TameInv, TypeInv, ServerTypes, SvInfs
<1>5. p # NoProc
  BY ConstantsAssumption
<1>6. svmap[process[p].sv].pstate \in {"Active", "Stopped"}
  BY <1>2, <1>3, <1>4, <1>5 DEF ServerFits, PState
<1> QED
  BY <1>2, <1>3, <1>5, <1>6 DEF DeactivateFails

\* deactivate_impl() keeps TameInv.
LEMMA DeactivateImplTame ==
  ASSUME Inv, NEW p \in Proc, DeactivateImpl(p), ~aborted
  PROVE  TameInv'
<1>0. PICK s \in Server : s = process[p].sv
  BY DEF DeactivateImpl, Inv, TypeInv, Callers
<1>1. /\ ProcessFits(p) /\ ~aborted' /\ process[p].life = "alive" /\ process[p].stage = "up"
      /\ svmap[s].proc = p /\ process[p].call = "deactivate"
  BY <1>0, DeactivateOK DEF Inv, TameInv, DeactivateImpl
<1>2. p # NoProc
  BY ConstantsAssumption
<1>3. process' = [Returns(p, "bye") EXCEPT ![p].cb = FALSE]
  BY <1>0, <1>1, <1>2 DEF DeactivateImpl
<1>4. /\ \A q \in Proc : q # p => process'[q] = process[q]
      /\ process'[p].life = process[p].life /\ process'[p].stage = "bye"
      /\ process'[p].thread = process[p].thread /\ process'[p].cb = FALSE
      /\ process'[p].sv = s /\ process'[p].call = "none"
  BY <1>0, <1>3 DEF Returns, Inv, TypeInv, ServerTypes, Processes
<1>5. /\ \A t \in Server : t # s => svmap'[t] = svmap[t]
      /\ svmap'[s].proc = p /\ svmap'[s].ior = svmap[s].ior
      /\ svmap'[s].pstate \in {"Stopped", "Inactive"}
  BY <1>0, <1>1 DEF DeactivateImpl, SetState, Inv, TypeInv, ServerTypes, SvInfs
<1>7. Others(p, s)
  BY <1>4, <1>5 DEF Others
<1>8. ProcessFits(p)' /\ ~Attached(p)'
  BY <1>1, <1>4 DEF ProcessFits, Attached
<1>9. ServerFits(s)'
  BY <1>1, <1>4, <1>5, <1>8 DEF ServerFits
<1> QED
  BY <1>1, <1>4, <1>5, <1>7, <1>8, <1>9, <1>0, Apart

\* waitpid() and the end of its thread keep TameInv.
LEMMA ReapTame ==
  ASSUME Inv, NEW p \in Proc, Reap(p) \/ ThreadEnd(p), ~aborted
  PROVE  TameInv'
<1>1. PICK th \in {"calling", "returning", "finished"} :
        process' = [process EXCEPT ![p].thread = th]
  BY DEF Reap, ThreadEnd
<1>2. /\ \A q \in Proc : q # p => process'[q] = process[q]
      /\ process'[p].life = process[p].life /\ process'[p].stage = process[p].stage
      /\ process'[p].thread = th /\ process'[p].cb = process[p].cb
      /\ process'[p].sv = process[p].sv /\ process'[p].call = process[p].call
  BY <1>1 DEF Inv, TypeInv, ServerTypes, Processes
<1>3. svmap' = svmap /\ ~aborted' /\ ProcessFits(p)
  BY DEF Reap, ThreadEnd, Inv, TameInv
<1>4. /\ process[p].life # "unborn" /\ process[p].life = "dead"
      /\ \/ process[p].thread = "waiting" /\ th = IF process[p].cb THEN "calling" ELSE "returning"
         \/ process[p].thread = "returning" /\ th = "finished"
  BY <1>1, <1>2, <1>3 DEF Reap, ThreadEnd, ProcessFits, Inv, TypeInv, ServerTypes, Processes
<1>5. ProcessFits(p)' /\ Attached(p)' = Attached(p)
  BY <1>2, <1>3, <1>4 DEF ProcessFits, Attached
<1> QED
  BY <1>2, <1>3, <1>4, <1>5, ProcessOnly

\* callback() finds the process of a server, in a state that has a case.
LEMMA CallbackOK ==
  ASSUME Inv, NEW p \in Proc, process[p].thread = "calling"
  PROVE  /\ process[p].cb /\ process[p].life = "dead"
         /\ process[p].sv \in Server /\ svmap[process[p].sv].proc = p
         /\ svmap[process[p].sv].pstate \in {"Active", "Started", "Stopped"}
<1>1. ProcessFits(p)
  BY DEF Inv, TameInv
<1>2. process[p].cb /\ process[p].life = "dead" /\ Attached(p)
  BY <1>1 DEF ProcessFits, Attached
<1>3. process[p].sv \in Server /\ svmap[process[p].sv].proc = p
  BY <1>1, <1>2 DEF ProcessFits
<1>4. ServerFits(process[p].sv) /\ svmap[process[p].sv].pstate \in PState
  BY <1>3 DEF Inv, TameInv, TypeInv, ServerTypes, SvInfs
<1>5. svmap[process[p].sv].pstate \in {"Active", "Started", "Stopped"}
  BY <1>2, <1>3, <1>4, ConstantsAssumption DEF ServerFits, PState
<1> QED
  BY <1>2, <1>3, <1>5

\* callback() keeps TameInv: it detaches the process it has collected.
LEMMA CallbackTame ==
  ASSUME Inv, NEW p \in Proc, Callback(p), ~aborted
  PROVE  TameInv'
<1>1. PICK s \in Server :
        /\ svmap[s].proc = p /\ svmap[s].pstate \in DOMAIN AfterExit
        /\ svmap' = [Collected EXCEPT
                       ![s].pstate = AfterExit[svmap[s].pstate],
                       ![s].recent = @ \/ svmap[s].pstate = "Started"]
  BY DEF Callback
<1>2. process[p].thread = "calling" /\ ~aborted'
  BY DEF Callback
<1>3. ServerFits(s) /\ ProcessFits(p) /\ p # NoProc
  BY ConstantsAssumption DEF Inv, TameInv
<1>4. s = process[p].sv /\ process[p].life # "unborn"
  BY <1>1, <1>3 DEF ServerFits
<1>5. process[p].cb /\ process[p].life = "dead"
      /\ svmap[s].pstate \in {"Active", "Started", "Stopped"}
  BY <1>2, <1>4, CallbackOK
<1>6. /\ \A q \in Proc : q # p => process'[q] = process[q]
      /\ process'[p].life = "dead" /\ process'[p].stage = process[p].stage
      /\ process'[p].thread = "returning" /\ process'[p].cb = process[p].cb
      /\ process'[p].sv = s /\ process'[p].call = process[p].call
  BY <1>4, <1>5 DEF Callback, Inv, TypeInv, ServerTypes, Processes
<1>7. /\ \A t \in Server : /\ Collected[t].pstate = svmap[t].pstate
                           /\ Collected[t].ior = svmap[t].ior
                           /\ \/ Collected[t].proc = svmap[t].proc
                              \/ Collected[t].proc = NoProc /\ Finished(svmap[t].proc)
      /\ Collected \in [Server -> SvInfs]
  BY DEF Collected, Inv, TypeInv, ServerTypes, SvInfs
<1>8. ~Finished(p) /\ \A q \in Proc : Finished(q) => ~Attached(q)
  BY <1>2 DEF Finished, Attached
<1>9. Collected[s].proc = p
  BY <1>1, <1>7, <1>8
<1>10. AfterExit[svmap[s].pstate] \in {"Inactive", "Failed", "Stopped"}
  BY <1>5 DEF AfterExit
<1>11. /\ \A t \in Server : t # s => svmap'[t] = Collected[t]
       /\ svmap'[s].proc = p /\ svmap'[s].ior = svmap[s].ior
       /\ svmap'[s].pstate \in {"Inactive", "Failed", "Stopped"}
  <2> HIDE DEF Collected, AfterExit
  <2> QED
    BY <1>1, <1>7, <1>9, <1>10 DEF SvInfs
<1>12. Others(p, s)
  <2>1. \A t \in Server : Finished(svmap[t].proc) => ~Attached(svmap[t].proc)
    BY DEF Finished, Attached
  <2> QED
    BY <1>6, <1>7, <1>11, <2>1 DEF Others
<1>13. ProcessFits(p)' /\ ~Attached(p)'
  BY <1>3, <1>4, <1>5, <1>6 DEF ProcessFits, Attached
<1>14. ServerFits(s)'
  BY <1>6, <1>11, <1>13 DEF ServerFits
<1> QED
  BY <1>1, <1>2, <1>4, <1>6, <1>11, <1>12, <1>13, <1>14, Apart

-----------------------------------------------------------------------------
\* create_server() of a server the mediator does not watch.
LEMMA SpawnTame ==
  ASSUME Inv, NEW s \in Server, NEW p \in Proc, Spawn(s, p), ~aborted',
         svmap[s].proc = NoProc \/ ~Attached(svmap[s].proc)
  PROVE  TameInv'
<1>1. process' = [process EXCEPT ![p] = [Unborn EXCEPT !.sv = s, !.cb = TRUE,
                                           !.life = "alive", !.thread = "waiting"]]
  BY DEF Spawn, Inv, Tame
<1>2. /\ \A q \in Proc : q # p => process'[q] = process[q]
      /\ process'[p].life = "alive" /\ process'[p].stage = "boot"
      /\ process'[p].thread = "waiting" /\ process'[p].cb
      /\ process'[p].sv = s /\ process'[p].call = "none"
  BY <1>1 DEF Unborn, Inv, TypeInv, ServerTypes
<1>3. process[p].life = "unborn"
  BY DEF Spawn
<1>4. /\ \A t \in Server : t # s => svmap'[t] = svmap[t]
      /\ svmap'[s].proc = p /\ svmap'[s].ior = svmap[s].ior /\ svmap'[s].pstate = "Started"
  BY DEF Spawn, Inv, TypeInv, ServerTypes, SvInfs
<1>5. Others(p, s)
  BY <1>2, <1>4 DEF Others
<1>6. ProcessFits(p)' /\ Attached(p)'
  BY <1>2, <1>4 DEF ProcessFits, Attached
<1>7. ServerFits(s)'
  BY <1>2, <1>4, <1>6, ConstantsAssumption DEF ServerFits
<1> QED
  BY <1>2, <1>3, <1>4, <1>5, <1>6, <1>7, Apart

\* what is left of TameInv when neither svmap nor the processes change
LEMMA SameTame ==
  ASSUME Inv, UNCHANGED <<svmap, process>>, ~aborted'
  PROVE  TameInv'
  BY DEF Inv, TameInv, ProcessFits, ServerFits, Attached

\* create_server() keeps TameInv when it replaces no process that is watched.
LEMMA CreateServerTame ==
  ASSUME Inv, NEW s \in Server, NEW st, NEW ok, CreateServer(s, st, ok), ~aborted',
         st \in {"Inactive", "Failed"} =>
           svmap[s].proc = NoProc \/ ~Attached(svmap[s].proc)
  PROVE  TameInv'
<1>1. s \in Installed
  BY DEF Inv, Tame
<1>2. \/ UNCHANGED <<svmap, process>>
      \/ st \in {"Inactive", "Failed"} /\ \E p \in Proc : Spawn(s, p)
  BY <1>1 DEF CreateServer
<1> QED
  BY <1>2, SameTame, SpawnTame

\* invoke() keeps TameInv.
LEMMA InvokeTame ==
  ASSUME Inv, NEW r \in Request, NEW q, Invoke(r, q), ~aborted'
  PROVE  TameInv'
<1>1. PICK s \in Server : s = Target[r]
  BY ConstantsAssumption
<1>2. ServerFits(s)
  BY DEF Inv, TameInv
<1>3. svmap[s].pstate \in {"Inactive", "Failed"} =>
        svmap[s].proc = NoProc \/ ~Attached(svmap[s].proc)
  BY <1>2 DEF ServerFits
<1>4. \/ UNCHANGED <<svmap, process>>
      \/ \E ok : CreateServer(s, svmap[s].pstate, ok)
  BY <1>1 DEF Invoke
<1> QED
  BY <1>3, <1>4, SameTame, CreateServerTame

\* A server that is stopped keeps TameInv.
LEMMA StopTame ==
  ASSUME Inv, NEW s \in Server, Stop(s), ~aborted'
  PROVE  TameInv'
<1>1. /\ \A t \in Server : /\ svmap'[t].proc = svmap[t].proc /\ svmap'[t].ior = svmap[t].ior
                           /\ svmap'[t].pstate = IF t = s THEN "Stopped" ELSE svmap[t].pstate
  BY DEF Stop, SetState, Inv, TypeInv, ServerTypes, SvInfs
<1>2. \A q \in Proc : /\ process'[q].life = process[q].life
                      /\ process'[q].stage = process[q].stage
                      /\ process'[q].thread = process[q].thread
                      /\ process'[q].cb = process[q].cb
                      /\ process'[q].sv = process[q].sv /\ process'[q].call = process[q].call
  <2>1. CASE process' = process
    BY <2>1
  <2>2. CASE \E p \in Proc : process' = [process EXCEPT ![p].sigterm = TRUE]
    BY <2>2 DEF Inv, TypeInv, ServerTypes, Processes
  <2> QED
    BY <2>1, <2>2 DEF Stop, StopFails
<1>3. \A q \in Proc : Attached(q)' = Attached(q)
  BY <1>2 DEF Attached
<1>4. ASSUME NEW q \in Proc
      PROVE  ProcessFits(q)'
  <2>1. ProcessFits(q)
    BY DEF Inv, TameInv
  <2> QED
    BY <1>1, <1>2, <1>3, <2>1 DEF ProcessFits
<1>5. ASSUME NEW t \in Server
      PROVE  ServerFits(t)'
  <2>1. ServerFits(t) /\ svmap[t].proc \in Proc \cup {NoProc}
    BY DEF Inv, TameInv, TypeInv, ServerTypes, SvInfs
  <2> QED
    BY <1>1, <1>2, <1>3, <2>1 DEF ServerFits
<1> QED
  BY <1>4, <1>5 DEF TameInv

\* The commands of administrators keep TameInv.
LEMMA AdminTame ==
  ASSUME Inv, NEW s \in Server, AdminNext(s), ~aborted
  PROVE  TameInv'
<1>1. CASE ForceActivation(s)
  <2>1. ServerFits(s)
    BY DEF Inv, TameInv
  <2>2. svmap[s].proc # NoProc /\ Finished(svmap[s].proc) => ~Attached(svmap[s].proc)
    BY DEF Finished, Attached
  <2>3. /\ ~aborted' /\ \E ok \in BOOLEAN : CreateServer(s, "Inactive", ok)
        /\ svmap[s].proc = NoProc \/ ~Attached(svmap[s].proc)
    BY <1>1, <2>1, <2>2 DEF ForceActivation, ServerFits, Watched
  <2> QED
    BY <2>3, CreateServerTame
<1>2. CASE Stop(s)
  BY <1>2, StopTame DEF Stop
<1>3. CASE StopAborts(s)
  <2>1. ServerFits(s)
    BY DEF Inv, TameInv
  <2>2. svmap[s].proc \in Proc /\ process[svmap[s].proc].life # "nofork"
    <3>1. svmap[s].proc # NoProc /\ svmap[s].proc \in Proc
      BY <1>3, <2>1 DEF StopAborts, StopFails, ServerFits, Inv, TypeInv, ServerTypes, SvInfs
    <3>2. ProcessFits(svmap[s].proc) /\ process[svmap[s].proc].life # "unborn"
      BY <3>1, <2>1 DEF Inv, TameInv, ServerFits
    <3> QED
      BY <3>1, <3>2 DEF ProcessFits
  <2> QED
    BY <1>3, <2>2 DEF StopAborts, StopFails
<1>4. CASE CoolDown(s)
  <2>1. /\ \A t \in Server : /\ svmap'[t].proc = svmap[t].proc /\ svmap'[t].ior = svmap[t].ior
                             /\ svmap'[t].pstate = svmap[t].pstate
        /\ process' = process /\ ~aborted'
    BY <1>4 DEF CoolDown, Inv, TypeInv, ServerTypes, SvInfs
  <2>2. ASSUME NEW q \in Proc
        PROVE  ProcessFits(q)'
    <3>1. ProcessFits(q)
      BY DEF Inv, TameInv
    <3> QED
      BY <2>1, <3>1 DEF ProcessFits, Attached
  <2>3. ASSUME NEW t \in Server
        PROVE  ServerFits(t)'
    <3>1. ServerFits(t)
      BY DEF Inv, TameInv
    <3> QED
      BY <2>1, <3>1 DEF ServerFits, Attached
  <2> QED
    BY <2>1, <2>2, <2>3 DEF TameInv
<1>5. ~ \E p \in Proc : StartByHand(s, p)
  BY DEF StartByHand, Inv, Tame
<1>6. ~Hold(s) /\ ~Continue(s)
  BY DEF Hold, Continue, Inv, Tame
<1> QED
  BY <1>1, <1>2, <1>3, <1>4, <1>5, <1>6 DEF AdminNext

\* The steps of processes keep TameInv, and fail no assertion.
LEMMA ProcessTame ==
  ASSUME Inv, NEW p \in Proc, ProcessNext(p), ~aborted
  PROVE  TameInv'
<1>1. ~DeactivateAborts(p)
  BY DeactivateOK DEF DeactivateAborts
<1>2. ~CallbackAborts(p) /\ ~CallbackNull(p)
  BY CallbackOK DEF CallbackAborts, CallbackNull, AfterExit
<1> QED
  BY <1>1, <1>2, ServerCallTame, DieTame, CreateImplTame, ActivateImplTame,
     DeactivateImplTame, ReapTame, CallbackTame DEF ProcessNext

\* The steps of requests keep TameInv.
LEMMA RequestTame ==
  ASSUME Inv, (\E r \in Request : ClientInvoke(r) \/ Notify(r)) \/ ExecNext, ~aborted
  PROVE  TameInv'
<1>1. CASE \E r \in Request : ClientInvoke(r)
  BY <1>1, InvokeTame DEF ClientInvoke
<1>2. CASE ExecInvoke
  BY <1>2, InvokeTame DEF ExecInvoke, Inv, TypeInv, QueueTypes
<1>3. CASE (\E r \in Request : Notify(r)) \/ ExecStart \/ ExecPop \/ ExecEnd
  BY <1>3, SameTame DEF Notify, ExecStart, ExecPop, ExecEnd
<1> QED
  BY <1>1, <1>2, <1>3 DEF ExecNext

-----------------------------------------------------------------------------
\* The variables keep their types, and as long as servers and administrators
\* are tame the state of each server fits its process.
THEOREM Invariance == Spec => [](TypeInv /\ (Tame => TameInv))
<1>1. Init => TypeInv /\ (Tame => TameInv)
  <2> SUFFICES ASSUME Init PROVE TypeInv /\ TameInv
    OBVIOUS
  <2>1. TypeInv
    BY InitTypes DEF TypeInv
  <2>2. TameInv
    BY DEF Init, TameInv, ProcessFits, ServerFits, Unborn, NewSvInf
  <2> QED
    BY <2>1, <2>2
<1>2. TypeInv /\ (Tame => TameInv) /\ [Next]_vars => (TypeInv /\ (Tame => TameInv))'
  <2> SUFFICES ASSUME TypeInv, Tame => TameInv, [Next]_vars
               PROVE  TypeInv' /\ (Tame' => TameInv')
    OBVIOUS
  <2>1. CASE UNCHANGED vars
    BY <2>1 DEF vars, queueVars, clientVars, TypeInv, ServerTypes, QueueTypes, ClientTypes,
       Callers, Tame, Admin, Events, Installed, TameInv, ProcessFits, ServerFits, Attached
  <2>2. CASE Next
    <3>1. TypeInv'
      BY <2>2, RequestTypes, ProcessTypes, AdminTypes DEF Next
    <3>2. Tame' <=> Tame
      BY <2>2 DEF Next, Tame, Admin, Events, Installed
    <3>3. Tame => TameInv'
      BY <2>2, RequestTame, ProcessTame, AdminTame DEF Next, Inv
    <3> QED
      BY <3>1, <3>2, <3>3
  <2> QED
    BY <2>1, <2>2
<1> QED
  BY <1>1, <1>2, PTL DEF Spec

\* The variables keep their types, whatever servers and administrators do.
THEOREM TypeCorrect == Spec => []TypeOK
<1>1. TypeInv => TypeOK
  BY TypeParts DEF TypeInv
<1> QED
  BY Invariance, <1>1, PTL

\* No assertion of the mediator fails.
THEOREM NeverAborts == Spec => []NoAbort
<1>1. (Tame => TameInv) => NoAbort
  BY DEF NoAbort, TameInv
<1> QED
  BY Invariance, <1>1, PTL

\* Clients are sent to processes that have announced themselves only, and
\* requests wait for processes that are watched.
THEOREM StateAlwaysMatches == Spec => []StateMatchesProcess
<1>1. TypeInv /\ (Tame => TameInv) => StateMatchesProcess
  <2> SUFFICES ASSUME TypeInv, Tame, TameInv, NEW s \in Server
               PROVE  /\ svmap[s].pstate = "Active" =>
                           LET p == svmap[s].proc IN
                           /\ p # NoProc /\ svmap[s].ior = p /\ process[p].stage = "up"
                           /\ process[p].life = "alive" \/ process[p].thread \in {"waiting", "calling"}
                      /\ svmap[s].pstate = "Started" =>
                           LET p == svmap[s].proc IN
                           p # NoProc /\ process[p].thread \in {"waiting", "calling"}
    BY DEF StateMatchesProcess, ActiveIsReachable, StartedHasProcess
  <2>1. PICK p : p = svmap[s].proc
    OBVIOUS
  <2>2. ServerFits(s) /\ p \in Proc \cup {NoProc}
    BY <2>1 DEF TameInv, TypeInv, ServerTypes, SvInfs
  <2>3. p # NoProc => ProcessFits(p)
    BY <2>2 DEF TameInv
  <2> QED
    BY <2>1, <2>2, <2>3 DEF ServerFits, ProcessFits, Attached
<1> QED
  BY Invariance, <1>1, PTL

\* No name has two servers at a time.
THEOREM OneServerAlways == Spec => []OneServerPerName
<1>1. TypeInv /\ (Tame => TameInv) => OneServerPerName
  <2> SUFFICES ASSUME TypeInv, Tame, TameInv, NEW p \in Proc, NEW q \in Proc,
                      process[p].life = "alive", process[p].stage # "bye",
                      process[q].life = "alive", process[q].stage # "bye",
                      process[p].sv = process[q].sv
               PROVE  p = q
    BY DEF OneServerPerName
  <2> QED
    BY AliveAttached DEF Inv
<1> QED
  BY Invariance, <1>1, PTL

-----------------------------------------------------------------------------
(***************************************************************************)
(* Proofs about the request queue of POAMediator for any servers, processes *)
(* and requests: no request is executed twice, whatever servers and        *)
(* administrators do, and none is stranded if they are tame.               *)
(***************************************************************************)

\* RequestInOnePlace without counting: no two records of the queue are alike,
\* and a record in the queue, the one being executed and the proxied ones are
\* different requests, whose clients wait.
Records ==
  /\ \A i, j \in DOMAIN invokes : invokes[i] = invokes[j] => i = j
  /\ \A i \in DOMAIN invokes : /\ invokes[i] # current /\ invokes[i] \notin requests
                               /\ reply[invokes[i]] = "waiting"
  /\ current # NoRequest => current \notin requests /\ reply[current] = "waiting"
  /\ \A r \in requests : reply[r] = "waiting"

QueueInv == TypeInv /\ Records

\* What is in a queue of requests after one has been appended.
LEMMA AppendAt ==
  ASSUME NEW q \in Seq(Request), NEW r \in Request
  PROVE  /\ DOMAIN Append(q, r) = 1 .. Len(q) + 1
         /\ \A i \in DOMAIN Append(q, r) :
              Append(q, r)[i] = IF i = Len(q) + 1 THEN r ELSE q[i]
         /\ DOMAIN q = 1 .. Len(q) /\ Len(q) \in Nat
  OBVIOUS

\* invoke() of a request that is nowhere else
LEMMA InvokeRecords ==
  ASSUME QueueInv, NEW r \in Request, Invoke(r, invokes),
         \A i \in DOMAIN invokes : invokes[i] # r,
         r \notin requests, reply[r] = "waiting" \/ current # r,
         current' = IF current = r THEN NoRequest ELSE current
  PROVE  Records'
<1>1. invokes \in Seq(Request) /\ \A i \in DOMAIN invokes : invokes[i] \in Request
  BY DEF QueueInv, TypeInv, QueueTypes
<1>2. reply \in [Request -> Replies] /\ requests \subseteq Request
  BY DEF QueueInv, TypeInv, ClientTypes
<1>3. current \in Request \cup {NoRequest} /\ NoRequest \notin Request
  BY ConstantsAssumption DEF QueueInv, TypeInv, QueueTypes
<1>4. CASE invokes' = Append(invokes, r) /\ Tell(r, "waiting") /\ requests' = requests
  <2>1. \A x \in Request : reply'[x] = IF x = r THEN "waiting" ELSE reply[x]
    BY <1>2, <1>4 DEF Tell
  <2>2. \A i, j \in DOMAIN invokes' : invokes'[i] = invokes'[j] => i = j
    BY <1>1, <1>4, AppendAt DEF QueueInv, Records
  <2>3. \A i \in DOMAIN invokes' : invokes'[i] = r \/ \E j \in DOMAIN invokes : invokes'[i] = invokes[j]
    BY <1>1, <1>4, AppendAt
  <2>4. \A i \in DOMAIN invokes' : /\ invokes'[i] # current' /\ invokes'[i] \notin requests'
                                   /\ reply'[invokes'[i]] = "waiting"
    BY <1>1, <1>3, <1>4, <2>1, <2>3 DEF QueueInv, Records
  <2> QED
    BY <1>2, <1>3, <1>4, <2>1, <2>2, <2>4 DEF QueueInv, Records
<1>5. CASE /\ invokes' = invokes
           /\ \E what : Tell(r, what)
           /\ requests' = requests
  <2>1. \A x \in Request : x # r => reply'[x] = reply[x]
    BY <1>2, <1>5 DEF Tell
  <2> QED
    BY <1>1, <1>2, <1>3, <1>5, <2>1 DEF QueueInv, Records
<1>6. CASE invokes' = invokes /\ Tell(r, "waiting") /\ requests' = requests \cup {r}
  <2>1. \A x \in Request : reply'[x] = IF x = r THEN "waiting" ELSE reply[x]
    BY <1>2, <1>6 DEF Tell
  <2> QED
    BY <1>1, <1>2, <1>3, <1>6, <2>1 DEF QueueInv, Records
<1> QED
  BY <1>4, <1>5, <1>6 DEF Invoke

\* A step keeps what is known of the places of a request.
LEMMA RecordsStep ==
  ASSUME QueueInv, [Next]_vars
  PROVE  Records'
<1> USE DEF QueueInv
<1>1. CASE UNCHANGED <<invokes, current, requests, reply>>
  BY <1>1 DEF Records
<1>2. CASE \E r \in Request : ClientInvoke(r)
  <2>1. PICK r \in Request : ClientInvoke(r)
    BY <1>2
  <2>2. r \notin requests /\ current # r /\ \A i \in DOMAIN invokes : invokes[i] # r
    BY <2>1, ConstantsAssumption DEF ClientInvoke, Records
  <2> QED
    BY <2>1, <2>2, InvokeRecords DEF ClientInvoke
<1>3. CASE \E r \in Request : Notify(r)
  BY <1>3, ConstantsAssumption DEF Notify, Tell, Records, queueVars, TypeInv, QueueTypes, ClientTypes
<1>4. CASE ExecPop
  <2>1. /\ invokes \in Seq(Request) /\ invokes # <<>> /\ current = NoRequest
        /\ \A i \in DOMAIN invokes : invokes[i] \in Request
    BY <1>4 DEF ExecPop, TypeInv, QueueTypes
  <2>2. /\ invokes' = Tail(invokes) /\ UNCHANGED <<requests, reply>>
        /\ current' = NoRequest \/ current' = invokes[1]
    BY <1>4, <2>1 DEF ExecPop, clientVars
  <2>3. /\ 1 \in DOMAIN invokes
        /\ \A i \in DOMAIN invokes' : /\ i + 1 \in DOMAIN invokes /\ i + 1 # 1
                                      /\ invokes'[i] = invokes[i + 1]
        /\ DOMAIN invokes' \subseteq Nat
    BY <2>1, <2>2
  <2>4. \A i, j \in DOMAIN invokes' : invokes'[i] = invokes'[j] => i = j
    BY <2>3 DEF Records
  <2> QED
    BY <2>1, <2>2, <2>3, <2>4, ConstantsAssumption DEF Records
<1>5. CASE ExecInvoke
  <2>1. current \in Request
    BY <1>5 DEF ExecInvoke, TypeInv, QueueTypes
  <2>2. current \notin requests /\ reply[current] = "waiting"
        /\ \A i \in DOMAIN invokes : invokes[i] # current
    BY <1>5 DEF ExecInvoke, Records
  <2> QED
    BY <1>5, <2>1, <2>2, InvokeRecords DEF ExecInvoke
<1>6. CASE ExecStart \/ ExecEnd
  BY <1>1, <1>6 DEF ExecStart, ExecEnd, clientVars
<1>7. ASSUME NEW p \in Proc, ProcessNext(p)
      PROVE  UNCHANGED <<invokes, current, requests, reply>>
  BY <1>7 DEF ProcessNext, ServerCall, Die, CreateImpl, ActivateImpl, DeactivateImpl,
     DeactivateAborts, Reap, Callback, CallbackAborts, CallbackNull, ThreadEnd, Abort,
     queueVars, clientVars
<1>8. ASSUME NEW s \in Server, AdminNext(s)
      PROVE  UNCHANGED <<invokes, current, requests, reply>>
  BY <1>8 DEF AdminNext, ForceActivation, Hold, Continue, Stop, StopAborts, CoolDown,
     StartByHand, Abort, queueVars, clientVars
<1>9. CASE UNCHANGED vars
  BY <1>1, <1>9 DEF vars, queueVars, clientVars
<1> QED
  BY <1>1, <1>2, <1>3, <1>4, <1>5, <1>6, <1>7, <1>8, <1>9 DEF Next, ExecNext

\* In all reachable states a request is in the queue once at most, and, while it
\* is there or being executed, its client waits (queue_invoke(), exec_invokes()).
THEOREM QueueInvariance == Spec => []QueueInv
<1>1. Init => Records
  BY DEF Init, Records
<1>2. TypeInv /\ Records /\ [Next]_vars => Records'
  BY RecordsStep DEF QueueInv
<1>3. TypeInv /\ (Tame => TameInv) => TypeInv
  OBVIOUS
<1> QED
  BY Invariance, <1>1, <1>2, <1>3, PTL DEF Spec, QueueInv

\* No request is in the queue twice, or in the queue and elsewhere.
THEOREM NeverTwice == Spec => []RequestInOnePlace
<1>1. QueueInv => RequestInOnePlace
  <2> SUFFICES ASSUME QueueInv, NEW r \in Request
               PROVE  Places(r) <= 1 /\ (reply[r] # "waiting" => Places(r) = 0)
    BY DEF RequestInOnePlace
  <2> DEFINE At == {i \in DOMAIN invokes : invokes[i] = r}
  <2>1. CASE At = {}
    <3>1. Cardinality(At) = 0
      BY <2>1, FS_EmptySet
    <3>2. Once(r, invokes) = 0
      BY <3>1 DEF Once
    <3> QED
      BY <3>2, ConstantsAssumption DEF QueueInv, Records, Places
  <2>2. CASE At # {}
    <3>1. PICK i \in At : At = {i}
      BY <2>2 DEF QueueInv, Records
    <3>2. Cardinality(At) = 1
      BY <3>1, FS_Singleton
    <3>3. Once(r, invokes) = 1
      BY <3>2 DEF Once
    <3> QED
      BY <3>1, <3>3 DEF QueueInv, Records, Places
  <2> QED
    BY <2>1, <2>2
<1> QED
  BY QueueInvariance, <1>1, PTL

-----------------------------------------------------------------------------
(***************************************************************************)
(* Tame servers and administrators: a queued request waits for a server    *)
(* that has been started or stopped, or for a pass over the queue.         *)
(***************************************************************************)
Waits(r) == svmap[Target[r]].pstate \in {"Started", "Stopped", "Holding"}
Scheduled == timer \/ running
Stranded == ~Scheduled /\ \E i \in DOMAIN invokes : ~Waits(invokes[i])

\* invoke() leaves the requests of q waiting, and the one it appends
LEMMA InvokeWaits ==
  ASSUME Inv, NEW r \in Request, Invoke(r, invokes),
         UNCHANGED <<timer, running>>, ~Stranded
  PROVE  ~Stranded'
<1>1. Target \in [Request -> Server] /\ invokes \in Seq(Request)
  BY ConstantsAssumption DEF Inv, TypeInv, QueueTypes
<1>2. Target[r] \in Installed
  BY <1>1 DEF Inv, Tame
<1>3. \/ svmap' = svmap
      \/ /\ svmap' = [svmap EXCEPT ![Target[r]].pstate = "Started",
                                    ![Target[r]].proc = svmap'[Target[r]].proc]
  BY <1>1, <1>2 DEF Invoke, CreateServer, Spawn, Inv, TypeInv, ServerTypes, SvInfs
<1>4. \A t \in Server : \/ svmap'[t].pstate = svmap[t].pstate
                        \/ svmap'[t].pstate = "Started"
  BY <1>3 DEF Inv, TypeInv, ServerTypes, SvInfs
<1>5. \A x \in Request : Waits(x) => Waits(x)'
  BY <1>1, <1>4 DEF Waits
<1>6. CASE invokes' = invokes
  BY <1>1, <1>5, <1>6 DEF Stranded, Scheduled
<1>7. CASE invokes' = Append(invokes, r) /\ Waits(r)'
  BY <1>1, <1>5, <1>7, AppendAt DEF Stranded, Scheduled
<1>8. invokes' = invokes \/ (invokes' = Append(invokes, r) /\ Waits(r)')
  <2>1. svmap[Target[r]].pstate = "Active" => invokes' = invokes
    BY DEF Invoke
  <2>2. svmap[Target[r]].pstate \in {"Stopped", "Holding"} =>
          invokes' = Append(invokes, r) /\ Waits(r)'
    BY DEF Invoke, Waits
  <2>3. svmap[Target[r]].pstate \in {"Inactive", "Started", "Failed"} =>
          invokes' = invokes \/ (invokes' = Append(invokes, r) /\ Waits(r)')
    BY <1>1, <1>2, <1>3 DEF Invoke, CreateServer, Spawn, Waits, Inv, TypeInv, ServerTypes, SvInfs
  <2>4. svmap[Target[r]].pstate \in PState
    BY <1>1 DEF Inv, TypeInv, ServerTypes, SvInfs
  <2> QED
    BY <2>1, <2>2, <2>3, <2>4 DEF PState
<1> QED
  BY <1>6, <1>7, <1>8

\* A step that wakes the queue, or takes no server out of a state that
\* requests wait in.
LEMMA StillWaits ==
  ASSUME Inv, invokes' = invokes, ~Stranded, running' = running,
         \/ timer' = (timer \/ invokes # <<>>)
         \/ timer' = timer /\ \A t \in Server :
              svmap[t].pstate \in {"Started", "Stopped", "Holding"} =>
                svmap'[t].pstate \in {"Started", "Stopped", "Holding"}
  PROVE  ~Stranded'
<1>1. Target \in [Request -> Server] /\ invokes \in Seq(Request)
  BY ConstantsAssumption DEF Inv, TypeInv, QueueTypes
<1>2. CASE timer' = (timer \/ invokes # <<>>)
  <2>1. ASSUME NEW i \in DOMAIN invokes
        PROVE  timer'
    <3>1. invokes # <<>>
      BY <1>1, <2>1
    <3> QED
      BY <1>2, <3>1, Zenon
  <2> QED
    BY <2>1 DEF Stranded, Scheduled
<1>3. CASE timer' = timer /\ \A t \in Server :
              svmap[t].pstate \in {"Started", "Stopped", "Holding"} =>
                svmap'[t].pstate \in {"Started", "Stopped", "Holding"}
  <2>1. \A x \in Request : Waits(x) => Waits(x)'
    BY <1>1, <1>3 DEF Waits
  <2>2. \A i \in DOMAIN invokes : invokes[i] \in Request
    BY <1>1
  <2> QED
    BY <1>3, <2>1, <2>2, Zenon DEF Stranded, Scheduled
<1> QED
  BY <1>2, <1>3

\* The steps of processes strand no request.
LEMMA ProcessWaits ==
  ASSUME Inv, ~Stranded, NEW p \in Proc, ProcessNext(p)
  PROVE  ~Stranded'
<1>1. CASE UNCHANGED <<svmap, invokes, running, timer>>
  BY <1>1, StillWaits
<1>2. CASE CreateImpl(p)
  BY <1>2, StillWaits DEF CreateImpl, queueVars, Inv, TypeInv, ServerTypes, SvInfs
<1>3. CASE ActivateImpl(p)
  BY <1>3, StillWaits DEF ActivateImpl, ExecLater
<1>4. CASE DeactivateImpl(p)
  <2>1. process[p].sv \in Server
    BY <1>4 DEF DeactivateImpl, Inv, TypeInv, Callers
  <2>2. svmap[process[p].sv].pstate \in PState
    BY <2>1 DEF Inv, TypeInv, ServerTypes, SvInfs
  <2>3. \A t \in Server : svmap[t].pstate \in {"Started", "Stopped", "Holding"} =>
                            svmap'[t].pstate \in {"Started", "Stopped", "Holding"}
    BY <1>4, <2>1, <2>2 DEF DeactivateImpl, DeactivateFails, SetState, PState, Inv, TypeInv,
       ServerTypes, SvInfs
  <2> QED
    BY <1>4, <2>3, StillWaits DEF DeactivateImpl, queueVars
<1>5. CASE Callback(p)
  <2>1. PICK s \in Server :
          /\ svmap[s].pstate \in DOMAIN AfterExit
          /\ svmap' = [Collected EXCEPT
                        ![s].pstate = AfterExit[svmap[s].pstate],
                        ![s].recent = @ \/ svmap[s].pstate = "Started"]
          /\ IF svmap[s].pstate = "Started" THEN ExecLater ELSE UNCHANGED timer
    BY <1>5 DEF Callback
  <2>2. UNCHANGED <<invokes, running>>
    BY <1>5 DEF Callback
  <2>3. CASE svmap[s].pstate = "Started"
    BY <2>1, <2>2, <2>3, StillWaits DEF ExecLater
  <2>4. CASE svmap[s].pstate # "Started"
    <3>1. Collected \in [Server -> SvInfs]
          /\ \A t \in Server : Collected[t].pstate = svmap[t].pstate
      BY DEF Collected, Inv, TypeInv, ServerTypes, SvInfs
    <3>2. \A t \in Server : svmap'[t].pstate = IF t = s THEN AfterExit[svmap[s].pstate]
                                               ELSE svmap[t].pstate
      <4> HIDE DEF Collected, AfterExit
      <4> QED
        BY <2>1, <3>1 DEF SvInfs
    <3>3. svmap[s].pstate \in {"Stopped", "Holding"} => AfterExit[svmap[s].pstate] = "Stopped"
      BY DEF AfterExit
    <3> QED
      BY <2>1, <2>2, <2>4, <3>2, <3>3, StillWaits
  <2> QED
    BY <2>3, <2>4
<1>6. CASE ServerCall(p) \/ Die(p) \/ Reap(p) \/ ThreadEnd(p)
  BY <1>1, <1>6 DEF ServerCall, Die, Reap, ThreadEnd, queueVars
<1> QED
  BY <1>1, <1>2, <1>3, <1>4, <1>5, <1>6
     DEF ProcessNext, DeactivateAborts, CallbackAborts, CallbackNull, Abort, queueVars

\* The steps of requests strand no request.
LEMMA RequestWaits ==
  ASSUME Inv, ~Stranded, (\E r \in Request : ClientInvoke(r) \/ Notify(r)) \/ ExecNext
  PROVE  ~Stranded'
<1>1. CASE \E r \in Request : ClientInvoke(r)
  BY <1>1, InvokeWaits DEF ClientInvoke
<1>2. CASE \E r \in Request : Notify(r)
  BY <1>2, StillWaits DEF Notify, queueVars
<1>3. CASE ExecStart
  BY <1>3 DEF ExecStart, Stranded, Scheduled
<1>4. CASE ExecPop
  BY <1>4 DEF ExecPop, Stranded, Scheduled
<1>5. CASE ExecInvoke
  BY <1>5, InvokeWaits DEF ExecInvoke, Inv, TypeInv, QueueTypes
<1>6. CASE ExecEnd
  BY <1>6 DEF ExecEnd, Stranded
<1> QED
  BY <1>1, <1>2, <1>3, <1>4, <1>5, <1>6 DEF ExecNext

\* The commands of administrators strand no request.
LEMMA AdminWaits ==
  ASSUME Inv, ~Stranded, NEW s \in Server, AdminNext(s)
  PROVE  ~Stranded'
<1>1. CASE ForceActivation(s)
  <2>1. svmap[s].pstate # "Holding" /\ s \in Installed
    BY DEF Inv, TameInv, ServerFits, Tame
  <2>2. \A t \in Server : \/ svmap'[t].pstate = svmap[t].pstate
                          \/ svmap'[t].pstate = "Started"
    BY <1>1, <2>1 DEF ForceActivation, CreateServer, Spawn, Inv, TypeInv, ServerTypes, SvInfs
  <2>3. UNCHANGED <<invokes, timer, running>>
    BY <1>1 DEF ForceActivation, queueVars
  <2> QED
    BY <2>2, <2>3, StillWaits
<1>2. CASE Stop(s)
  <2>1. \A t \in Server : \/ svmap'[t].pstate = svmap[t].pstate
                          \/ svmap'[t].pstate = "Stopped"
    BY <1>2 DEF Stop, SetState, Inv, TypeInv, ServerTypes, SvInfs
  <2> QED
    BY <1>2, <2>1, StillWaits DEF Stop, queueVars
<1>3. CASE StopAborts(s)
  BY <1>3, StillWaits DEF StopAborts, Abort, queueVars
<1>4. CASE CoolDown(s)
  <2>1. \A t \in Server : svmap'[t].pstate = svmap[t].pstate
    BY <1>4 DEF CoolDown, Inv, TypeInv, ServerTypes, SvInfs
  <2> QED
    BY <1>4, <2>1, StillWaits DEF CoolDown, queueVars
<1>5. CASE \E p \in Proc : StartByHand(s, p)
  BY <1>5, StillWaits DEF StartByHand, queueVars
<1>6. ~Hold(s) /\ ~Continue(s)
  BY DEF Hold, Continue, Inv, Tame
<1> QED
  BY <1>1, <1>2, <1>3, <1>4, <1>5, <1>6 DEF AdminNext

\* No queued request is forgotten.
THEOREM NeverStranded == Spec => []NoRequestStranded
<1> DEFINE I == TypeInv /\ (Tame => TameInv)
<1>1. Init => (Tame => ~Stranded)
  BY DEF Init, Stranded
<1>2. I /\ (Tame => ~Stranded) /\ [Next]_vars => (Tame => ~Stranded)'
  <2> SUFFICES ASSUME I, ~Stranded, Tame, [Next]_vars
               PROVE  ~Stranded'
    BY DEF Next, vars, Tame, Admin, Events, Installed
  <2>1. Inv
    BY DEF Inv
  <2>2. CASE UNCHANGED vars
    BY <2>2 DEF vars, queueVars, Stranded, Scheduled, Waits
  <2> QED
    BY <2>1, <2>2, RequestWaits, ProcessWaits, AdminWaits DEF Next
<1>3. I /\ (Tame => ~Stranded) => NoRequestStranded
  <2> SUFFICES ASSUME I, ~Stranded, Tame, NEW r \in Elements(invokes)
               PROVE  \/ svmap[Target[r]].pstate \in {"Started", "Stopped", "Holding"}
                      \/ timer \/ running
    BY DEF NoRequestStranded
  <2> QED
    BY DEF Stranded, Scheduled, Waits, Elements
<1> HIDE DEF I
<1>4. Spec => []I
  BY Invariance DEF I
<1> QED
  BY <1>1, <1>2, <1>3, <1>4, PTL DEF Spec
=================================================================================
