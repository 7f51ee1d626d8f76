------------------------------ MODULE ServerConn ------------------------------
(***************************************************************************)
(* The server side of GIOP connections (orb/iop.cc: GIOPConn, IIOPServer;  *)
(* orb/mt_dispatcher.cc) in the thread-pool concurrency model, the         *)
(* default.  Three kinds of threads share a connection:                    *)
(*   - the main thread accepts it, reads its messages in the dispatcher's  *)
(*     loop and runs IIOPServer::shutdown() at the end;                    *)
(*   - the workers of the DeCode pool decode a message each, make the      *)
(*     up-call of a request and send its reply;                            *)
(*   - the workers of the ORB pool close and delete connections.           *)
(* A connection carries two counts.  An active reference keeps a message   *)
(* that is read but not decoded: terminate() waits for them.  _refcnt      *)
(* counts the connection itself and its invocation records: who brings it  *)
(* to 0 has the connection deleted and its slot given back.                *)
(*                                                                         *)
(* The pools hand out messages first in, first out (ThreadPool says what   *)
(* else can happen).  Fragments, message sizes, codecs, the client side,   *)
(* thread per connection and requests the POA queues are not modelled.     *)
(* A thread that touches a deleted connection or record ends the run.      *)
(***************************************************************************)
EXTENDS Naturals, Sequences, FiniteSets

CONSTANTS
  Conn,        \* GIOPConn objects: at most this many are ever created
  NoConn,
  Worker,      \* threads of the DeCode pool (-ORBRequestLimit)
  OrbWorker,   \* threads of the ORB pool
  Main,        \* the thread in ORB::run()
  Nobody,
  ConnLimit,   \* -ORBConnLimit
  Client,      \* kinds of clients
  Speaks,      \* the messages each kind sends
  Hasty,       \* the kinds that do not wait for their replies before they go
  MaxMsg,      \* bound on the messages of one connection
  CountMod,    \* _connection_count is an unsigned number below this
  MayShutdown  \* ORB::shutdown() may be called

Request == {"invoke", "oneway", "locate"}
\* undecodable: a Request that cannot be decoded; garbled: a bad header;
\* illframed: too large, or fragments that do not fit; close: also unknown types
Message == Request \cup {"cancel", "undecodable", "garbled", "illframed",
                        "error", "close"}
\* a client that sends one of these expects the server to close
Final == {"undecodable", "garbled", "illframed", "error"}

ASSUME ConstantsAssumption ==
  /\ NoConn \notin Conn
  /\ Worker \cap OrbWorker = {} /\ {Main, Nobody} \cap (Worker \cup OrbWorker) = {} /\ Main # Nobody
  /\ IsFiniteSet(Conn) /\ IsFiniteSet(Worker) /\ IsFiniteSet(OrbWorker)
  /\ ConnLimit \in Nat \ {0} /\ MaxMsg \in Nat \ {0}
  /\ CountMod \in Nat /\ CountMod > ConnLimit
  /\ Speaks \in [Client -> SUBSET Message]
  /\ Hasty \subseteq Client
  /\ MayShutdown \in BOOLEAN

S == INSTANCE StateRefCnt

Thread == Worker \cup OrbWorker \cup {Main}
Rec == Conn \X (1..MaxMsg)

VARIABLES
  client,      \* the kind of client at the other end of each connection
  sent,        \* the messages it has sent
  arrived,     \* how many of them have been read
  held,        \* connections with a message left in _inbufs
  hungup,      \* clients that have closed their end
  replied,     \* requests that have been answered
  life,        \* GIOPConn objects: none, open, deleted
  state,       \* their StateRefCnt
  refcnt,      \* their _refcnt
  selected,    \* connections the dispatcher watches for input
  conns,       \* IIOPServer::_conns
  orbids,      \* the invocation records of IIOPServer::_orbids
  hint,        \* ORBInvokeRec objects whose _req_hint points to the record
  live,        \* ORBInvokeRec objects that are active
  slots,       \* ResourceManager::_connection_count
  decode,      \* messages in the DeCode pool
  orb,         \* messages in the ORB pool
  lock,        \* shutdown_in_progress_lock_: who holds it
  stopping,    \* shutdown_in_progress_
  pc,          \* where each thread is
  on,          \* the connection it works on
  job,         \* the message it handles
  fault        \* none, abort (an assertion), stale (used after delete)

clientVars == <<client, sent, hungup, arrived, replied>>
connVars == <<life, held, state, refcnt, selected, conns, slots>>
recVars == <<orbids, hint, live>>
poolVars == <<decode, orb>>
threadVars == <<pc, on, job>>
vars == <<clientVars, connVars, recVars, poolVars,
          lock, stopping, threadVars, fault>>

\* where a thread uses the invocation record of its request
UsesRec == {"pull", "deactivate", "send", "drop", "erase"}
\* where it uses its connection
UsesConn ==
  {"reading", "read", "input", "decoded", "cancelled", "ignored", "undecodable",
   "deref", "garbled", "error", "respond", "send", "drop", "kill", "shutdown",
   "closing", "terminate", "abort", "bye"}
Pc == UsesConn \cup UsesRec \cup
  {"free", "invoke", "upcall", "orbcancel", "gone"}
Job == [kind : Message, n : 1..MaxMsg]
NoJob == [kind |-> "error", n |-> 1]

TypeOK ==
  /\ client \in [Conn -> Client]
  /\ \A c \in Conn : /\ sent[c] \in Seq(Job) /\ Len(sent[c]) <= MaxMsg
                     /\ arrived[c] \in 0..Len(sent[c])
  /\ hungup \subseteq Conn /\ replied \subseteq Rec /\ held \subseteq Conn
  /\ life \in [Conn -> {"none", "open", "deleted"}]
  /\ state \in [Conn -> S!StateRefCnt(MaxMsg)]
  /\ refcnt \in [Conn -> 0..(MaxMsg + 1)]
  /\ selected \subseteq Conn /\ conns \subseteq Conn
  /\ orbids \in [Rec -> {"none", "active", "pulled"}]
  /\ hint \subseteq Rec /\ live \subseteq Rec
  /\ slots \in 0..(CountMod - 1)
  /\ decode \in Seq([conn : Conn, job : Job])
  /\ orb \in Seq([conn : Conn, ev : {"CloseConn", "KillConn"}])
  /\ lock \in Thread \cup {Nobody} /\ stopping \in BOOLEAN
  /\ pc \in [Thread -> Pc] /\ on \in [Thread -> Conn \cup {NoConn}]
  /\ job \in [Thread -> Job]
  /\ fault \in {"none", "abort", "stale"}

Init ==
  /\ client \in [Conn -> Client]
  /\ sent = [c \in Conn |-> <<>>] /\ arrived = [c \in Conn |-> 0]
  /\ hungup = {} /\ replied = {} /\ held = {}
  /\ life = [c \in Conn |-> "none"] /\ state = [c \in Conn |-> S!Fresh]
  /\ refcnt = [c \in Conn |-> 0]
  /\ selected = {} /\ conns = {} /\ slots = 0
  /\ orbids = [q \in Rec |-> "none"] /\ hint = {} /\ live = {}
  /\ decode = <<>> /\ orb = <<>>
  /\ lock = Nobody /\ stopping = FALSE
  /\ pc = [t \in Thread |-> "free"] /\ on = [t \in Thread |-> NoConn]
  /\ job = [t \in Thread |-> NoJob]
  /\ fault = "none"

(***************************************************************************)
(* Helpers.                                                                *)
(***************************************************************************)

\* the record of the request thread t works on
Mine(t) == <<on[t], job[t].n>>

\* thread t is at l, and what it uses there still exists
At(t, l) == /\ pc[t] = l
            /\ l \in UsesConn => life[on[t]] = "open"
            /\ l \in UsesRec => orbids[Mine(t)] # "none"

Goto(t, l) == pc' = [pc EXCEPT ![t] = l] /\ UNCHANGED <<on, job>>

\* a thread is done: a worker returns to its pool, Main to the dispatcher
Free(t) == /\ pc' = [pc EXCEPT ![t] = "free"]
           /\ on' = [on EXCEPT ![t] = NoConn]
           /\ job' = [job EXCEPT ![t] = NoJob]

SetState(c, s) == state' = [state EXCEPT ![c] = s]

\* mutant: nobody is told
close_connection_Silent(c) ==
  IF S!ShutdownOK(state[c]) THEN SetState(c, S!init_shutdown(state[c])) /\ UNCHANGED orb
                            ELSE UNCHANGED <<state, orb>>

close_connection(c) ==
  IF S!ShutdownOK(state[c])
    THEN /\ SetState(c, S!init_shutdown(state[c]))
         /\ orb' = Append(orb, [conn |-> c, ev |-> "CloseConn"])
    ELSE UNCHANGED <<state, orb>>

\* the assertion at the end of GIOPConn::deref() holds
DerefOK(c) == refcnt[c] > 0

\* mutant: the slot is kept
deref_conn_KeepSlot(c) ==
  /\ DerefOK(c)
  /\ refcnt' = [refcnt EXCEPT ![c] = @ - 1]
  /\ orb' = IF refcnt[c] = 1 THEN Append(orb, [conn |-> c, ev |-> "KillConn"]) ELSE orb
  /\ UNCHANGED slots

deref_conn(c) ==
  /\ DerefOK(c)
  /\ refcnt' = [refcnt EXCEPT ![c] = @ - 1]
  /\ IF refcnt[c] = 1
       THEN /\ orb' = Append(orb, [conn |-> c, ev |-> "KillConn"])
            /\ slots' = IF slots = 0 THEN CountMod - 1 ELSE slots - 1
       ELSE UNCHANGED <<orb, slots>>

\* GIOPConn::output(): a write to a client that has gone breaks the connection
Broken(c) == state[c].current = S!Active /\ c \in hungup
output(c) == IF Broken(c)
               THEN selected' = selected \ {c} /\ close_connection(c)
               ELSE UNCHANGED <<selected, state, orb>>

\* ORB::cancel(): a oneway is not in the ORB's table, so it stays active
Cancelled(q) == IF sent[q[1]][q[2]].kind = "oneway" THEN live ELSE live \ {q}

\* _transp->close() has been called
Closed(c) == state[c].new = S!Terminated

(***************************************************************************)
(* The clients, outside the program.                                       *)
(***************************************************************************)

SaidLast(c) == \E i \in DOMAIN sent[c] : sent[c][i].kind \in Final

\* the client waits for the reply to its i-th message
Awaits(c, i) ==
  /\ i \in DOMAIN sent[c] /\ sent[c][i].kind \in {"invoke", "locate"}
  /\ <<c, i>> \notin replied

HasReplies(c) == \A i \in 1..MaxMsg : ~Awaits(c, i)

Send(c) ==
  /\ life[c] = "open" /\ c \notin hungup /\ Len(sent[c]) < MaxMsg
  /\ SaidLast(c) => client[c] \in Hasty
  /\ \E k \in Speaks[client[c]] :
       /\ k \in Final => client[c] \in Hasty \/ HasReplies(c)
       /\ \E n \in IF k = "cancel" THEN {i \in DOMAIN sent[c] : sent[c][i].kind \in Request}
                                   ELSE {Len(sent[c]) + 1} :
            sent' = [sent EXCEPT ![c] = Append(@, [kind |-> k, n |-> n])]
  /\ UNCHANGED <<client, hungup, arrived, replied, connVars, recVars, poolVars,
                 lock, stopping, threadVars, fault>>

Hangup(c) ==
  /\ life[c] # "none" /\ c \notin hungup
  /\ \/ client[c] \in Hasty
     \/ Closed(c)
     \/ ~SaidLast(c) /\ HasReplies(c)
  /\ hungup' = hungup \cup {c}
  /\ UNCHANGED <<client, sent, arrived, replied, connVars, recVars, poolVars,
                 lock, stopping, threadVars, fault>>

(***************************************************************************)
(* The main thread in the dispatcher: it accepts and reads.                *)
(***************************************************************************)

\* the constructor: the dispatcher watches the new connection
GIOPConn(c) == /\ life' = [life EXCEPT ![c] = "open"]
               /\ selected' = selected \cup {c}

\* the connection takes its own reference and becomes Active
start(c) == /\ refcnt' = [refcnt EXCEPT ![c] = 1]
            /\ SetState(c, S!EndChange(S!BeginChange(state[c], S!Active)))

\* IIOPServer::callback(tserv, Accept) with a free slot; at the limit the
\* transport is deleted and nothing changes
Accept(c) ==
  /\ pc[Main] = "free" /\ ~stopping
  /\ life[c] = "none" /\ slots < ConnLimit
  /\ slots' = slots + 1
  /\ conns' = conns \cup {c}
  /\ GIOPConn(c) /\ start(c)
  /\ UNCHANGED <<clientVars, held, recVars, poolVars, lock, stopping, threadVars, fault>>

EOF(c) == Closed(c) \/ (c \in hungup /\ arrived[c] = Len(sent[c]))

\* the dispatcher finds c readable and calls do_read()
Select(c) ==
  /\ pc[Main] = "free" /\ ~stopping /\ c \in selected
  /\ EOF(c) \/ arrived[c] < Len(sent[c])
  /\ pc' = [pc EXCEPT ![Main] = "reading"] /\ on' = [on EXCEPT ![Main] = c]
  /\ UNCHANGED <<clientVars, connVars, recVars, poolVars, lock, stopping, job, fault>>

\* a whole message is read
ReadMessage ==
  /\ At(Main, "reading")
  /\ LET c == on[Main] IN
     /\ ~Closed(c) /\ arrived[c] < Len(sent[c]) /\ c \notin held
     /\ arrived' = [arrived EXCEPT ![c] = @ + 1]
     /\ LET m == sent[c][arrived[c] + 1] IN
        /\ job' = [job EXCEPT ![Main] = m]
        /\ selected' = IF m.kind \in {"garbled", "illframed"} THEN selected \ {c}
                                                             ELSE selected
  /\ pc' = [pc EXCEPT ![Main] = "read"]
  /\ UNCHANGED <<client, sent, hungup, replied, life, held, state, refcnt, conns, slots,
                 recVars, poolVars, lock, stopping, on, fault>>

\* input_ready() on a server's connection
input_ready ==
  /\ At(Main, "read") /\ job[Main].kind # "illframed"
  /\ LET c == on[Main] IN
     IF S!ActiveRefOK(state[c])
       THEN /\ SetState(c, S!active_ref(state[c]))
            /\ decode' = Append(decode, [conn |-> c, job |-> job[Main]])
            /\ IF job[Main].kind = "garbled" THEN Free(Main)
               ELSE Goto(Main, "reading")
            /\ UNCHANGED held
       ELSE held' = held \cup {c} /\ Free(Main) /\ UNCHANGED <<state, decode>>
  /\ UNCHANGED <<clientVars, life, refcnt, selected, conns, slots, recVars, orb,
                 lock, stopping, fault>>

\* a message do_read() gives up on
ReadError ==
  /\ At(Main, "read") /\ job[Main].kind = "illframed"
  /\ close_connection(on[Main])
  /\ Free(Main)
  /\ UNCHANGED <<clientVars, life, held, refcnt, selected, conns, slots, recVars,
                 decode, lock, stopping, fault>>

\* mutant: a connection with nothing to read is no longer watched
ReadEnd_Unselect ==
  /\ At(Main, "reading")
  /\ LET c == on[Main] IN
     /\ Closed(c) \/ arrived[c] = Len(sent[c])
     /\ selected' = selected \ {c}
     /\ IF EOF(c) THEN close_connection(c) ELSE UNCHANGED <<state, orb>>
  /\ Free(Main)
  /\ UNCHANGED <<clientVars, life, held, refcnt, conns, slots, recVars, decode,
                 lock, stopping, fault>>

\* there is nothing left to read
ReadEnd ==
  /\ At(Main, "reading")
  /\ LET c == on[Main] IN
     /\ Closed(c) \/ arrived[c] = Len(sent[c])
     /\ IF EOF(c) THEN selected' = selected \ {c} /\ close_connection(c)
                  ELSE UNCHANGED <<selected, state, orb>>
  /\ Free(Main)
  /\ UNCHANGED <<clientVars, life, held, refcnt, conns, slots, recVars, decode,
                 lock, stopping, fault>>

(***************************************************************************)
(* A worker of the DeCode pool: InputHandler::process(), handle_input().   *)
(***************************************************************************)

TakeInput(w) ==
  /\ pc[w] = "free" /\ decode # <<>>
  /\ LET m == Head(decode) IN
     /\ on' = [on EXCEPT ![w] = m.conn] /\ job' = [job EXCEPT ![w] = m.job]
     /\ pc' = [pc EXCEPT ![w] =
          CASE m.job.kind \in Request \cup {"cancel"} -> "input"
            [] m.job.kind = "close" -> "ignored"
            [] OTHER -> m.job.kind]
  /\ decode' = Tail(decode)
  /\ UNCHANGED <<clientVars, connVars, recVars, orb, lock, stopping, fault>>

\* the new record of a request, which the ORB finds by its hint
add_invoke(q) == /\ orbids' = [orbids EXCEPT ![q] = "active"]
                 /\ hint' = hint \cup {q}

\* mutant: the record takes no reference
HandleRequest_NoRef(w) ==
  /\ At(w, "input") /\ job[w].kind \in Request
  /\ add_invoke(Mine(w))
  /\ Goto(w, "decoded")
  /\ UNCHANGED <<clientVars, connVars, live, poolVars, lock, stopping, fault>>

\* handle_invoke_request(), handle_locate_request() up to active_deref()
HandleRequest(w) ==
  /\ At(w, "input") /\ job[w].kind \in Request
  /\ refcnt' = [refcnt EXCEPT ![on[w]] = @ + 1]
  /\ add_invoke(Mine(w))
  /\ Goto(w, "decoded")
  /\ UNCHANGED <<clientVars, life, held, state, selected, conns, slots, live, poolVars,
                 lock, stopping, fault>>

\* finds a record that is still active and deactivates it, under the locks
pull_invoke_reqid(q) ==
  orbids' = [orbids EXCEPT ![q] = IF @ = "active" THEN "pulled" ELSE @]

\* handle_cancel_request() up to active_deref()
CancelRequest(w) ==
  /\ At(w, "input") /\ job[w].kind = "cancel"
  /\ pull_invoke_reqid(Mine(w))
  /\ Goto(w, IF orbids[Mine(w)] = "active" THEN "cancelled" ELSE "ignored")
  /\ UNCHANGED <<clientVars, connVars, hint, live, poolVars, lock, stopping, fault>>

\* where a worker goes after active_deref()
AfterDecode == [decoded |-> "invoke", cancelled |-> "drop", ignored |-> "free",
                undecodable |-> "deref", garbled |-> "respond", error |-> "kill"]

AfterActiveDeref(w, l, s) ==
  /\ At(w, l)
  /\ SetState(on[w], s)
  /\ IF AfterDecode[l] = "free" THEN Free(w) ELSE Goto(w, AfterDecode[l])
  /\ UNCHANGED <<clientVars, life, held, refcnt, selected, conns, slots, recVars,
                 poolVars, lock, stopping, fault>>


\* mutant: a request that is cancelled too late gives back two
ActiveDeref_Twice(w) ==
  \E l \in DOMAIN AfterDecode :
    AfterActiveDeref(w, l, IF l = "ignored"
                             THEN S!active_deref(S!active_deref(state[on[w]]))
                             ELSE S!active_deref(state[on[w]]))

ActiveDeref(w) ==
  \E l \in DOMAIN AfterDecode : AfterActiveDeref(w, l, S!active_deref(state[on[w]]))

\* conn->deref() after a request that cannot be decoded
DerefUndecoded(w) ==
  /\ At(w, "deref") /\ DerefOK(on[w])
  /\ refcnt' = [refcnt EXCEPT ![on[w]] = @ - 1]
  /\ Goto(w, "respond")
  /\ UNCHANGED <<clientVars, life, held, state, selected, conns, slots, recVars,
                 poolVars, lock, stopping, fault>>

\* conn_error(conn) up to kill_conn()
Respond(w) ==
  /\ At(w, "respond")
  /\ output(on[w])
  /\ Goto(w, "kill")
  /\ UNCHANGED <<clientVars, life, held, refcnt, conns, slots, recVars, decode,
                 lock, stopping, fault>>

(***************************************************************************)
(* A worker goes on into the ORB, which comes back with the answer.        *)
(***************************************************************************)

\* ORB::invoke_async(), locate_async(): the up-call begins
Invoke(w) ==
  /\ pc[w] = "invoke"
  /\ live' = live \cup {Mine(w)}
  /\ Goto(w, "upcall")
  /\ UNCHANGED <<clientVars, connVars, orbids, hint, poolVars, lock, stopping, fault>>

\* it ends; handle_invoke_reply(), handle_locate_reply(): get_request_hint()
Answer(w) ==
  /\ pc[w] = "upcall"
  /\ IF (job[w].kind = "locate" \/ Mine(w) \in live) /\ Mine(w) \in hint
       THEN Goto(w, "pull") ELSE Free(w)
  /\ UNCHANGED <<clientVars, connVars, recVars, poolVars, lock, stopping, fault>>

\* pull_invoke_orbid(), which takes no lock: the test ...
Pull(w) ==
  /\ At(w, "pull")
  /\ Goto(w, IF orbids[Mine(w)] = "active" THEN "deactivate" ELSE "drop")
  /\ UNCHANGED <<clientVars, connVars, recVars, poolVars, lock, stopping, fault>>

\* ... and the assignment
Deactivate(w) ==
  /\ At(w, "deactivate")
  /\ orbids' = [orbids EXCEPT ![Mine(w)] = "pulled"]
  /\ Goto(w, "send")
  /\ UNCHANGED <<clientVars, connVars, hint, live, poolVars, lock, stopping, fault>>

\* the rest of handle_invoke_reply(), handle_locate_reply()
Reply(w) ==
  /\ At(w, "send")
  /\ LET c == on[w] IN
     IF job[w].kind = "locate" \/ (job[w].kind = "invoke" /\ Mine(w) \in live)
       THEN /\ output(c)
            /\ replied' = IF state[c].current = S!Active /\ c \notin hungup
                            THEN replied \cup {Mine(w)} ELSE replied
       ELSE UNCHANGED <<selected, state, orb, replied>>
  /\ Goto(w, "drop")
  /\ UNCHANGED <<client, sent, hungup, arrived, life, held, refcnt, conns, slots,
                 recVars, decode, lock, stopping, fault>>

\* del_invoke_orbid(): deref_conn() ...
Drop(w) ==
  /\ At(w, "drop")
  /\ deref_conn(on[w])
  /\ Goto(w, "erase")
  /\ UNCHANGED <<clientVars, life, held, state, selected, conns, recVars, decode,
                 lock, stopping, fault>>

\* ... and the deletion of the record
Erase(w) ==
  /\ At(w, "erase")
  /\ orbids' = [orbids EXCEPT ![Mine(w)] = "none"]
  /\ IF job[w].kind = "cancel" THEN Goto(w, "orbcancel") ELSE Free(w)
  /\ UNCHANGED <<clientVars, connVars, hint, live, poolVars, lock, stopping, fault>>

\* ORB::cancel() at the end of handle_cancel_request()
OrbCancel(w) ==
  /\ pc[w] = "orbcancel"
  /\ live' = Cancelled(Mine(w))
  /\ Free(w)
  /\ UNCHANGED <<clientVars, connVars, orbids, hint, poolVars, lock, stopping, fault>>

(***************************************************************************)
(* A worker of the ORB pool: MTDispatcher::process().                      *)
(***************************************************************************)

\* CloseConn: IIOPServer::callback(conn, Closed), that is kill_conn()
TakeClose(o) ==
  /\ pc[o] = "free" /\ orb # <<>> /\ Head(orb).ev = "CloseConn"
  /\ pc' = [pc EXCEPT ![o] = "kill"] /\ on' = [on EXCEPT ![o] = Head(orb).conn]
  /\ orb' = Tail(orb)
  /\ UNCHANGED <<clientVars, connVars, recVars, decode, lock, stopping, job, fault>>

\* KillConn: delete conn, if the assertion holds
TakeKill(o) ==
  /\ pc[o] = "free" /\ orb # <<>> /\ Head(orb).ev = "KillConn"
  /\ state[Head(orb).conn].current = S!Terminated
  /\ life' = [life EXCEPT ![Head(orb).conn] = "deleted"]
  /\ orb' = Tail(orb)
  /\ UNCHANGED <<clientVars, held, state, refcnt, selected, conns, slots, recVars,
                 decode, lock, stopping, threadVars, fault>>

(***************************************************************************)
(* kill_conn(), by a worker of either pool, and terminate() by these and   *)
(* by Main.                                                                *)
(***************************************************************************)

\* the shutdown takes care of every connection
KillReturn(t) ==
  /\ pc[t] = "kill" /\ stopping
  /\ Free(t)
  /\ UNCHANGED <<clientVars, connVars, recVars, poolVars, lock, stopping, fault>>

Kill(t) ==
  /\ At(t, "kill") /\ ~stopping /\ lock = Nobody
  /\ LET c == on[t] IN
     IF state[c].current \in {S!Active, S!InitShutdown}
       THEN /\ lock' = t
            /\ conns' = conns \ {c}
            /\ SetState(c, S!BeginChange(state[c], S!Shutdown))
            /\ Goto(t, "shutdown")
       ELSE Free(t) /\ UNCHANGED <<lock, conns, state>>
  /\ UNCHANGED <<clientVars, life, held, refcnt, selected, slots, recVars, poolVars,
                 stopping, fault>>

\* state_change(Shutdown) becomes effective
ShutdownEffective(t) ==
  /\ At(t, "shutdown") /\ S!ChangeEffective(state[on[t]])
  /\ SetState(on[t], S!EndChange(state[on[t]]))
  /\ Goto(t, "closing")
  /\ UNCHANGED <<clientVars, life, held, refcnt, selected, conns, slots, recVars,
                 poolVars, lock, stopping, fault>>

\* the transport is closed and no longer watched; state_change(Terminated)
CloseTransport(t) ==
  /\ At(t, "closing")
  /\ selected' = selected \ {on[t]}
  /\ SetState(on[t], S!BeginChange(state[on[t]], S!Terminated))
  /\ Goto(t, "terminate")
  /\ UNCHANGED <<clientVars, life, held, refcnt, conns, slots, recVars, poolVars,
                 lock, stopping, fault>>

TerminatedEffective(t) ==
  /\ At(t, "terminate") /\ S!ChangeEffective(state[on[t]])
  /\ SetState(on[t], S!EndChange(state[on[t]]))
  /\ IF t = Main THEN Free(Main) ELSE Goto(t, "abort")
  /\ UNCHANGED <<clientVars, life, held, refcnt, selected, conns, slots, recVars,
                 poolVars, lock, stopping, fault>>

ActiveRecs(c) == {q \in Rec : q[1] = c /\ orbids[q] = "active"}

\* abort_invoke_orbid() for a record of the connection, and its deletion
Abort(t) ==
  /\ At(t, "abort")
  /\ \E q \in ActiveRecs(on[t]) :
       /\ orbids' = [orbids EXCEPT ![q] = "none"]
       /\ hint' = hint \ {q} /\ live' = Cancelled(q)
  /\ UNCHANGED <<clientVars, connVars, poolVars, lock, stopping, threadVars, fault>>

\* the connection's own reference goes
KillEnd(t) ==
  /\ At(t, "abort") /\ ActiveRecs(on[t]) = {}
  /\ deref_conn(on[t])
  /\ lock' = Nobody
  /\ Free(t)
  /\ UNCHANGED <<clientVars, life, held, state, selected, conns, recVars, decode,
                 stopping, fault>>

(***************************************************************************)
(* IIOPServer::shutdown(), by Main.                                        *)
(***************************************************************************)

ShutdownBegin ==
  /\ MayShutdown /\ pc[Main] = "free" /\ ~stopping /\ lock = Nobody
  /\ stopping' = TRUE
  /\ UNCHANGED <<clientVars, connVars, recVars, poolVars, lock, threadVars, fault>>

\* conn_closed(); kill_conn() returns at once
ConnClosed(c) ==
  /\ stopping /\ pc[Main] = "free" /\ c \in conns
  /\ conns' = conns \ {c}
  /\ output(c)
  /\ pc' = [pc EXCEPT ![Main] = "bye"] /\ on' = [on EXCEPT ![Main] = c]
  /\ UNCHANGED <<clientVars, life, held, refcnt, slots, recVars, decode, lock, stopping,
                 job, fault>>

\* terminate()
Bye ==
  /\ At(Main, "bye")
  /\ IF S!MayChange(state[on[Main]], S!Shutdown)
       THEN /\ SetState(on[Main], S!BeginChange(state[on[Main]], S!Shutdown))
            /\ Goto(Main, "shutdown")
       ELSE Free(Main) /\ UNCHANGED state
  /\ UNCHANGED <<clientVars, life, held, refcnt, selected, conns, slots, recVars,
                 poolVars, lock, stopping, fault>>

\* ORB::cancel() and deletion of every record
ShutdownEnd ==
  /\ stopping /\ pc[Main] = "free" /\ conns = {}
  /\ orbids' = [q \in Rec |-> "none"] /\ live' = {q \in live : orbids[q] = "none"}
  /\ Goto(Main, "gone")
  /\ UNCHANGED <<clientVars, connVars, hint, poolVars, lock, stopping, fault>>

(***************************************************************************)
(* What goes wrong: the process does not survive these.                    *)
(***************************************************************************)

\* an assertion fails: in deref(), do_read(), MTDispatcher::process()
Aborts(t) ==
  \/ \E l \in {"deref", "drop"} : At(t, l) /\ ~DerefOK(on[t])
  \/ At(t, "abort") /\ ActiveRecs(on[t]) = {} /\ ~DerefOK(on[t])
  \/ t = Main /\ At(t, "reading") /\ on[t] \in held
  \/ /\ t \in OrbWorker /\ pc[t] = "free" /\ orb # <<>> /\ Head(orb).ev = "KillConn"
     /\ state[Head(orb).conn].current # S!Terminated

\* a deleted connection or record is used
UsesDeleted(t) == pc[t] \in UsesConn \cup UsesRec /\ ~(pc[t] = "kill" /\ stopping) /\ ~At(t, pc[t])

Fail(t) ==
  /\ \/ Aborts(t) /\ fault' = "abort"
     \/ UsesDeleted(t) /\ fault' = "stale"
  /\ UNCHANGED <<clientVars, connVars, recVars, poolVars, lock, stopping, threadVars>>

(***************************************************************************)
(* The specification.                                                      *)
(***************************************************************************)

Decode(w) ==
  \/ TakeInput(w) \/ HandleRequest(w) \/ CancelRequest(w) \/ ActiveDeref(w)
  \/ DerefUndecoded(w) \/ Respond(w) \/ Invoke(w) \/ Answer(w) \/ Pull(w)
  \/ Deactivate(w) \/ Reply(w) \/ Drop(w) \/ Erase(w) \/ OrbCancel(w)

terminate(t) == ShutdownEffective(t) \/ CloseTransport(t) \/ TerminatedEffective(t)

kill_conn(t) == KillReturn(t) \/ Kill(t) \/ terminate(t) \/ Abort(t) \/ KillEnd(t)

Read == \/ \E c \in Conn : Select(c)
        \/ ReadMessage \/ input_ready \/ ReadError \/ ReadEnd

shutdown == \/ \E c \in Conn : ConnClosed(c)
            \/ Bye \/ terminate(Main) \/ ShutdownEnd

Next ==
  /\ fault = "none"
  /\ \/ \E c \in Conn : Send(c) \/ Hangup(c) \/ Accept(c)
     \/ Read \/ ShutdownBegin \/ shutdown
     \/ \E w \in Worker : Decode(w) \/ kill_conn(w)
     \/ \E o \in OrbWorker : TakeClose(o) \/ TakeKill(o) \/ kill_conn(o)
     \/ \E t \in Thread : Fail(t)

\* every thread that can take a step takes one; clients and ORB::shutdown()
\* need not do anything
Fairness ==
  /\ WF_vars(fault = "none" /\ (Read \/ shutdown))
  /\ \A w \in Worker : WF_vars(fault = "none" /\ (Decode(w) \/ kill_conn(w)))
  /\ \A o \in OrbWorker :
       WF_vars(fault = "none" /\ (TakeClose(o) \/ TakeKill(o) \/ kill_conn(o)))

Spec == Init /\ [][Next]_vars /\ Fairness

(***************************************************************************)
(* Properties.                                                             *)
(***************************************************************************)

\* clients that wait for their replies, and for the server to close after a
\* last message, and send nothing the code is known to stumble on
Gentle(c) == /\ client[c] \notin Hasty
             /\ Speaks[client[c]] \cap {"oneway", "cancel", "undecodable", "error"} = {}

AllGentle == \A c \in Conn : life[c] = "none" \/ Gentle(c)

\* Gentle clients never bring the server down: whatever the interleaving of
\* reading, replying, closing and deleting, no assertion of orb/iop.cc or
\* orb/mt_dispatcher.cc fails and no deleted connection or record is used.
NoFault == AllGentle /\ ~stopping => fault = "none"

Queued(c) == {i \in DOMAIN decode : decode[i].conn = c}
Decoding(c) == {w \in Worker : on[w] = c /\ pc[w] \in DOMAIN AfterDecode \cup {"input"}}

\* The active references of a connection are the messages that are queued or
\* being decoded, so that terminate() waits for these and for nothing else:
\* every path of handle_input() gives back what input_ready() took, once.
ActiveRefsExact ==
  \A c \in Conn : state[c].active = Cardinality(Queued(c)) + Cardinality(Decoding(c))

\* the connection's own reference, which KillEnd gives back
OwnRef(c) == /\ life[c] = "open"
             /\ state[c].current = S!Terminated => \E t \in Thread : At(t, "abort") /\ on[t] = c
\* records whose reference is not given back
HeldRecs(c) == {q \in Rec : /\ q[1] = c /\ orbids[q] # "none"
                            /\ ~ \E w \in Worker : At(w, "erase") /\ Mine(w) = q}

\* _refcnt of a gentle client's connection counts its own reference and one
\* for each invocation record: it is neither deleted under a request nor kept.
RefcntExact ==
  ~stopping => \A c \in Conn : Gentle(c) =>
    refcnt[c] = Cardinality(HeldRecs(c)) + (IF OwnRef(c) THEN 1 ELSE 0)

\* no message is under way and every thread waits for one
Quiet == decode = <<>> /\ orb = <<>> /\ \A t \in Thread : pc[t] = "free"

OpenConns == {c \in Conn : life[c] = "open" /\ ~Closed(c)}

\* When nothing is going on, and as long as all clients are gentle,
\* -ORBConnLimit counts the open connections: the slot of every connection
\* that was closed has been given back.
SlotsReleased == AllGentle /\ Quiet /\ ~stopping => slots = Cardinality(OpenConns)

\* Nothing leads to a deleted connection of a gentle client any more: neither
\* the dispatcher, the server's list, a queue, an active record nor a thread.
NoDangling ==
  ~stopping => \A c \in Conn : Gentle(c) /\ life[c] = "deleted" =>
    /\ c \notin selected \cup conns
    /\ \A i \in DOMAIN decode : decode[i].conn # c
    /\ \A i \in DOMAIN orb : orb[i].conn # c
    /\ ActiveRecs(c) = {}
    /\ \A t \in Thread : on[t] = c => pc[t] \notin UsesConn

\* What keeps a connection, and what it takes up, is given back exactly once,
\* and nothing uses a connection after its deletion.
CountsExact == RefcntExact /\ SlotsReleased /\ NoDangling

\* A request of a gentle client is answered, unless the ORB shuts down or
\* another client brings it down first.
Answered ==
  \A c \in Conn : \A i \in 1..MaxMsg :
    (Gentle(c) /\ Awaits(c, i)) ~> (~Awaits(c, i) \/ stopping \/ fault # "none")

\* The connection of a gentle client that has gone is deleted in the end.
Reclaimed ==
  \A c \in Conn : (Gentle(c) /\ c \in hungup) ~>
                  (life[c] = "deleted" \/ stopping \/ fault # "none")

=============================================================================
