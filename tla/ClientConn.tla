------------------------------ MODULE ClientConn ------------------------------
(***************************************************************************)
(* The client side of GIOP connections (IIOPProxy and GIOPConn in          *)
(* orb/iop.cc, MTDispatcher) with the invocation records of the ORB core   *)
(* (orb/orb.cc), in the threaded concurrency model of clients, the         *)
(* default: each connection has a thread of its own that reads it.         *)
(*                                                                         *)
(* Threads: the callers, which send a request and wait for the answer; a   *)
(* reader per connection, which answers them and, when the server closes   *)
(* the connection in an orderly way, sends the calls under way again on a  *)
(* new one; the workers of the ORB pool, which close and delete broken     *)
(* connections; Main, which runs IIOPProxy::shutdown().                    *)
(*                                                                         *)
(* There is one server address and one object, to which each caller makes  *)
(* one call.  Marshalling, codecs, code sets, locate and bind requests and *)
(* servers that do not speak GIOP are not modelled.  What a caller does    *)
(* with a connection it has got too late (see Late) is not followed.       *)
(***************************************************************************)
EXTENDS Naturals, Sequences, FiniteSets

CONSTANTS
  Caller,      \* threads of the client, each with one call
  Oneway,      \* those whose call expects no response
  Impatient,   \* those that may time out or cancel
  Conn,        \* GIOPConn objects, and the reader thread of each
  NoCall, NoConn,
  OrbWorker,   \* threads of the ORB pool
  Main,
  ConnLimit,   \* -ORBConnLimit
  Events       \* what else happens: crash, close, error, refuse, shutdown

ASSUME ConstantsAssumption ==
  /\ Oneway \subseteq Caller /\ Impatient \subseteq Caller \ Oneway
  /\ Caller \cap Conn = {} /\ OrbWorker \cap (Caller \cup Conn) = {}
  /\ Main \notin Caller \cup Conn \cup OrbWorker /\ NoConn \notin Conn /\ NoCall \notin Caller
  /\ IsFiniteSet(Caller) /\ IsFiniteSet(Conn) /\ IsFiniteSet(OrbWorker)
  /\ ConnLimit \in Nat \ {0}
  /\ Events \subseteq {"crash", "close", "error", "refuse", "shutdown"}

S == INSTANCE StateRefCnt

Thread == Caller \cup Conn \cup OrbWorker \cup {Main}

VARIABLES
  peer,       \* the server's end of each connection
  requests,   \* the calls that have arrived there
  inbox,      \* what is on its way back
  status,     \* the ORBInvokeRec of each call, see Invocation
  outcome,
  executed,   \* how often a server has executed each call
  life,       \* GIOPConn objects: none, open, deleted
  state,      \* their StateRefCnt
  refcnt,     \* their _refcnt
  slots,      \* ResourceManager::_connection_count
  conns,      \* IIOPProxy::_conns: the connection to the address
  profconns,  \* IIOPProxy::_prof_conns: the connection of the profile
  active,     \* the object reference has an active profile
  ids,        \* IIOPProxy::_ids: the record of each call
  orb,        \* messages in the ORB pool
  pc,         \* where each thread is
  carries,    \* the call it sends or handles
  on,         \* the connection it sends on
  victim,     \* the connection it kills
  redo,       \* kill_conn()'s second argument
  kept,       \* records deleted without giving back their reference
  fault       \* none, or what the process did not survive, see Fail

serverVars == <<peer, requests, inbox, executed>>
callVars == <<status, outcome>>
connVars == <<life, state, refcnt, slots>>
cacheVars == <<conns, profconns, active>>
threadVars == <<pc, carries, on, victim, redo>>
vars == <<serverVars, callVars, connVars, cacheVars, ids, orb, threadVars, kept, fault>>

Message == {"reply", "close", "error"}
NoRec == [conn |-> NoConn, active |-> FALSE]

\* where a thread uses the connection it sends on, kills or reads
Sending == {"add", "output", "deref"}
Handling == {"pull", "delete", "answer", "giveback", "release"}
Cancelling == {"sendcancel", "derefcancel"}
Killing == {"unlist", "uncache", "shutdown", "join", "terminated", "pending",
            "abort", "redo"}
Reading == {"select", "reading", "closing"} \cup Handling
Pc == Sending \cup Handling \cup Cancelling \cup Killing \cup Reading \cup
      {"idle", "lookup", "connect", "cache", "ref", "wait", "delcancel", "done"}

TypeOK ==
  /\ peer \in [Conn -> {"up", "closing", "down"}]
  /\ requests \in [Conn -> SUBSET Caller]
  /\ \A c \in Conn : inbox[c] \in Seq([kind : Message, call : Caller \cup {NoCall}])
  /\ status \in [Caller -> {"unsent", "pending", "answered", "returned", "gone"}]
  /\ outcome \in [Caller -> {"none", "reply", "TRANSIENT", "COMM_FAILURE", "TIMEOUT"}]
  /\ executed \in [Caller -> 0..2]
  /\ life \in [Conn -> {"none", "open", "deleted"}]
  /\ state \in [Conn -> S!StateRefCnt(Cardinality(Thread) + 1)]
  /\ refcnt \in [Conn -> 0..(Cardinality(Caller) + 1)]
  /\ slots \in 0..ConnLimit
  /\ {conns, profconns} \subseteq Conn \cup {NoConn} /\ active \in BOOLEAN
  /\ ids \in [Caller -> [conn : Conn \cup {NoConn}, active : BOOLEAN]]
  /\ orb \in Seq([conn : Conn, ev : {"CloseConn", "KillConn"}])
  /\ pc \in [Thread -> Pc] /\ carries \in [Thread -> Caller \cup {NoCall}]
  /\ on \in [Thread -> Conn \cup {NoConn}]
  /\ victim \in [Thread -> Conn \cup {NoConn}] /\ redo \in [Thread -> BOOLEAN]
  /\ kept \subseteq Caller \X Conn
  /\ fault \in {"none", "abort", "stale", "late", "overtaken"}

Init ==
  /\ peer = [c \in Conn |-> "up"] /\ requests = [c \in Conn |-> {}]
  /\ inbox = [c \in Conn |-> <<>>] /\ executed = [q \in Caller |-> 0]
  /\ status = [q \in Caller |-> "unsent"] /\ outcome = [q \in Caller |-> "none"]
  /\ life = [c \in Conn |-> "none"] /\ state = [c \in Conn |-> S!Fresh]
  /\ refcnt = [c \in Conn |-> 0] /\ slots = 0
  /\ conns = NoConn /\ profconns = NoConn /\ active = FALSE
  /\ ids = [q \in Caller |-> NoRec] /\ orb = <<>>
  /\ pc = [t \in Thread |-> "idle"]
  /\ carries = [t \in Thread |-> IF t \in Caller THEN t ELSE NoCall]
  /\ on = [t \in Thread |-> NoConn]
  /\ victim = [t \in Thread |-> NoConn] /\ redo = [t \in Thread |-> FALSE]
  /\ kept = {} /\ fault = "none"

(***************************************************************************)
(* Helpers.                                                                *)
(***************************************************************************)

\* the connection thread t uses at l
Uses(t, l) == CASE l \in Sending -> on[t]
                [] l \in Cancelling -> ids[t].conn
                [] l \in Killing -> victim[t]
                [] l \in Reading -> t
                [] OTHER -> NoConn

\* the Request of a call that was cancelled is deleted with it
Dropped(q) == status[q] = "gone" /\ pc[q] = "done"
UsesRequest == {"add", "delete"}

\* thread t is at l, and what it uses there still exists
At(t, l) == /\ pc[t] = l
            /\ LET c == Uses(t, l) IN c # NoConn => life[c] = "open"
            /\ l \in UsesRequest => ~Dropped(carries[t])

Goto(t, l) == pc' = [pc EXCEPT ![t] = l]

SetState(c, s) == state' = [state EXCEPT ![c] = s]

close_connection(c) ==
  IF S!ShutdownOK(state[c])
    THEN /\ SetState(c, S!init_shutdown(state[c]))
         /\ orb' = Append(orb, [conn |-> c, ev |-> "CloseConn"])
    ELSE UNCHANGED <<state, orb>>

deref_conn(c) ==
  /\ refcnt[c] > 0                            \* the assertion in deref()
  /\ refcnt' = [refcnt EXCEPT ![c] = @ - 1]
  /\ IF refcnt[c] = 1
       THEN /\ orb' = Append(orb, [conn |-> c, ev |-> "KillConn"])
            /\ slots' = slots - 1
       ELSE UNCHANGED <<orb, slots>>

\* GIOPConn::output(): a write to a server that has gone may fail
Broken(c) == state[c].current = S!Active /\ peer[c] # "up"
output(c, arrived) ==
  \/ /\ Broken(c) /\ close_connection(c)
     /\ UNCHANGED requests
  \/ /\ requests' = IF state[c].current = S!Active /\ peer[c] = "up"
                      THEN [requests EXCEPT ![c] = @ \cup arrived] ELSE requests
     /\ UNCHANGED <<state, orb>>

\* ORB::answer_invoke(): a call that is in the ORB's table has no result yet
AnswerOK(q) == outcome[q] = "none"
answer_invoke(q, o) ==
  IF status[q] \in {"pending", "answered"} /\ q \notin Oneway
    THEN /\ AnswerOK(q)
         /\ outcome' = [outcome EXCEPT ![q] = o]
         /\ status' = [status EXCEPT ![q] = "answered"]
    ELSE UNCHANGED callVars

\* _transp->close() has not been called
Transport(c) == life[c] = "open" /\ state[c].new # S!Terminated

(***************************************************************************)
(* The server and the network, outside the program.                        *)
(***************************************************************************)

Serve(c) ==
  /\ peer[c] = "up"
  /\ \E q \in requests[c] :
       /\ requests' = [requests EXCEPT ![c] = @ \ {q}]
       /\ executed' = [executed EXCEPT ![q] = @ + 1]
       /\ inbox' = IF q \in Oneway \/ ~Transport(c) THEN inbox
                   ELSE [inbox EXCEPT ![c] = Append(@, [kind |-> "reply", call |-> q])]
  /\ UNCHANGED <<peer, callVars, connVars, cacheVars, ids, orb, threadVars, kept, fault>>

\* the server refuses what it has not executed and says why: CloseConnection
\* lets the client send its requests elsewhere, MessageError does not
ServerCloses(c, kind) ==
  /\ kind \in Events /\ Transport(c) /\ peer[c] = "up"
  /\ peer' = [peer EXCEPT ![c] = "closing"]
  /\ requests' = [requests EXCEPT ![c] = {}]
  /\ inbox' = [inbox EXCEPT ![c] = Append(@, [kind |-> kind, call |-> NoCall])]
  /\ UNCHANGED <<executed, callVars, connVars, cacheVars, ids, orb, threadVars, kept, fault>>

\* what was not received by then is lost
Crash(c) ==
  /\ "crash" \in Events /\ Transport(c) /\ peer[c] = "up"
  /\ peer' = [peer EXCEPT ![c] = "down"]
  /\ requests' = [requests EXCEPT ![c] = {}]
  /\ \E n \in 0..Len(inbox[c]) : inbox' = [inbox EXCEPT ![c] = SubSeq(@, 1, n)]
  /\ UNCHANGED <<executed, callVars, connVars, cacheVars, ids, orb, threadVars, kept, fault>>

(***************************************************************************)
(* IIOPProxy::invoke(), by a caller or, when a call is redone, a reader.   *)
(***************************************************************************)

Begin(q) ==
  /\ pc[q] = "idle" /\ q \in Caller
  /\ status' = [status EXCEPT ![q] = "pending"]
  /\ Goto(q, "lookup")
  /\ UNCHANGED <<serverVars, outcome, connVars, cacheVars, ids, orb, carries, on, victim,
                 redo, kept, fault>>

\* what the sender does next
Back(t) ==
  /\ on' = [on EXCEPT ![t] = NoConn]
  /\ IF t \notin Caller THEN Goto(t, "pending") /\ UNCHANGED status
     ELSE IF t \in Oneway
       THEN Goto(t, "done") /\ status' = [status EXCEPT ![t] = "returned"]
       ELSE Goto(t, "wait") /\ UNCHANGED status

\* make_conn() of an object: the connection of its active profile
Lookup(t) ==
  /\ pc[t] = "lookup"
  /\ IF active /\ profconns # NoConn
       THEN Goto(t, "ref") /\ on' = [on EXCEPT ![t] = profconns] /\ UNCHANGED active
       ELSE Goto(t, "connect") /\ active' = FALSE /\ UNCHANGED on
  /\ UNCHANGED <<serverVars, callVars, connVars, conns, profconns, ids, orb, carries,
                 victim, redo, kept, fault>>

\* make_conn() of the address, under the lock of _conns: the connection
\* there is, which must be active ...
FindConn(t) ==
  /\ pc[t] = "connect" /\ conns # NoConn /\ state[conns].current = S!Active
  /\ on' = [on EXCEPT ![t] = conns]
  /\ Goto(t, "cache")
  /\ UNCHANGED <<serverVars, callVars, connVars, cacheVars, ids, orb, carries, victim, redo,
                 kept, fault>>

\* ... or a new one.  It has its own reference and an active one, which is
\* that of its entry in _conns; its reader starts.
NewConn(t) ==
  /\ pc[t] = "connect" /\ conns = NoConn /\ slots < ConnLimit
  /\ \E d \in Conn : life[d] = "none"
  /\ LET c == CHOOSE d \in Conn : life[d] = "none" IN
       /\ life' = [life EXCEPT ![c] = "open"]
       /\ refcnt' = [refcnt EXCEPT ![c] = 1]
       /\ SetState(c, S!active_ref(S!EndChange(S!BeginChange(state[c], S!Active))))
       /\ conns' = c
       /\ on' = [on EXCEPT ![t] = c]
       /\ pc' = [pc EXCEPT ![t] = "cache", ![c] = "select"]
  /\ slots' = slots + 1
  /\ UNCHANGED <<serverVars, callVars, profconns, active, ids, orb, carries, victim, redo,
                 kept, fault>>

\* neither: invoke() answers the call itself.  When Conn is used up, which
\* bounds the model, the server refuses.
NoConnection(t) ==
  /\ pc[t] = "connect"
  /\ IF conns = NoConn
       THEN slots = ConnLimit \/ "refuse" \in Events \/ ~\E d \in Conn : life[d] = "none"
       ELSE state[conns].current # S!Active
  /\ \/ t \in Oneway /\ Back(t) /\ UNCHANGED outcome
     \/ /\ t \notin Oneway
        /\ answer_invoke(carries[t], "COMM_FAILURE")
        /\ Goto(t, IF t \in Caller THEN "wait" ELSE "pending")
        /\ UNCHANGED on
  /\ UNCHANGED <<serverVars, connVars, cacheVars, ids, orb, carries, victim, redo, kept, fault>>

Cache(t) ==
  /\ pc[t] = "cache"
  /\ active' = TRUE
  /\ profconns' = IF profconns = NoConn THEN on[t] ELSE profconns
  /\ Goto(t, "ref")
  /\ UNCHANGED <<serverVars, callVars, connVars, conns, ids, orb, carries, on, victim, redo,
                 kept, fault>>

\* make_conn() gives its caller no reference: the connection it returned may
\* by now be deleted, or closed so far that active_ref() is refused, or its
\* pending calls aborted already
Late(c) == \/ life[c] # "open"
           \/ ~S!ActiveRefOK(state[c])
           \/ state[c].current > S!InitShutdown

Ref(t) ==
  /\ pc[t] = "ref" /\ ~Late(on[t])
  /\ SetState(on[t], S!active_ref(state[on[t]]))
  /\ Goto(t, "add")
  /\ UNCHANGED <<serverVars, callVars, life, refcnt, slots, cacheVars, ids, orb, carries, on,
                 victim, redo, kept, fault>>

\* mutant: the record takes no reference
AddInvoke_NoRef(t) ==
  /\ At(t, "add")
  /\ IF carries[t] \in Oneway THEN UNCHANGED ids
     ELSE ids' = [ids EXCEPT ![carries[t]] = [conn |-> on[t], active |-> TRUE]]
  /\ Goto(t, "output")
  /\ UNCHANGED <<serverVars, callVars, connVars, cacheVars, orb, carries, on, victim, redo,
                 kept, fault>>

AddInvoke(t) ==
  /\ At(t, "add")
  /\ IF carries[t] \in Oneway THEN UNCHANGED <<ids, refcnt>>
     ELSE /\ ids' = [ids EXCEPT ![carries[t]] = [conn |-> on[t], active |-> TRUE]]
          /\ refcnt' = [refcnt EXCEPT ![on[t]] = @ + 1]
  /\ Goto(t, "output")
  /\ UNCHANGED <<serverVars, callVars, life, state, slots, cacheVars, orb, carries, on,
                 victim, redo, kept, fault>>

Output(t) ==
  /\ At(t, "output")
  /\ output(on[t], {carries[t]})
  /\ Goto(t, "deref")
  /\ UNCHANGED <<peer, inbox, executed, callVars, life, refcnt, slots, cacheVars, ids,
                 carries, on, victim, redo, kept, fault>>

\* mutant: invoke() gives its active reference back twice
ActiveDeref_Twice(t) ==
  /\ At(t, "deref")
  /\ SetState(on[t], S!active_deref(S!active_deref(state[on[t]])))
  /\ Back(t)
  /\ UNCHANGED <<serverVars, outcome, life, refcnt, slots, cacheVars, ids, orb, carries, victim,
                 redo, kept, fault>>

ActiveDeref(t) ==
  /\ At(t, "deref")
  /\ SetState(on[t], S!active_deref(state[on[t]]))
  /\ Back(t)
  /\ UNCHANGED <<serverVars, outcome, life, refcnt, slots, cacheVars, ids, orb, carries, victim,
                 redo, kept, fault>>

(***************************************************************************)
(* A caller that waits.                                                    *)
(***************************************************************************)

\* waitfor() returns, get_invoke_reply() takes the result
Return(q) ==
  /\ pc[q] = "wait" /\ status[q] = "answered"
  /\ status' = [status EXCEPT ![q] = "returned"]
  /\ Goto(q, "done")
  /\ UNCHANGED <<serverVars, outcome, connVars, cacheVars, ids, orb, carries, on, victim,
                 redo, kept, fault>>

\* waitfor() times out: the record goes, without its reference
TimeOut(q) ==
  /\ q \in Impatient /\ pc[q] = "wait" /\ status[q] = "pending"
  /\ ids[q].active
  /\ ids' = [ids EXCEPT ![q] = NoRec]
  /\ kept' = kept \cup {<<q, ids[q].conn>>}
  /\ answer_invoke(q, "TIMEOUT")
  /\ UNCHANGED <<serverVars, connVars, cacheVars, orb, threadVars, fault>>

\* ORB::cancel() of a deferred call, and IIOPProxy::cancel() if no one else
\* has pulled the record
Cancel(q) ==
  /\ q \in Impatient /\ pc[q] = "wait"
  /\ status' = [status EXCEPT ![q] = "gone"]
  /\ IF ids[q].active
       THEN ids' = [ids EXCEPT ![q].active = FALSE] /\ Goto(q, "sendcancel")
       ELSE Goto(q, "done") /\ UNCHANGED ids
  /\ UNCHANGED <<serverVars, outcome, connVars, cacheVars, orb, carries, on, victim, redo,
                 kept, fault>>

SendCancel(q) ==
  /\ At(q, "sendcancel")
  /\ output(ids[q].conn, {})
  /\ Goto(q, "derefcancel")
  /\ UNCHANGED <<peer, inbox, executed, callVars, life, refcnt, slots, cacheVars, ids,
                 carries, on, victim, redo, kept, fault>>

DerefCancel(q) ==
  /\ At(q, "derefcancel")
  /\ deref_conn(ids[q].conn)
  /\ Goto(q, "delcancel")
  /\ UNCHANGED <<serverVars, callVars, life, state, cacheVars, ids, carries, on, victim, redo,
                 kept, fault>>

DelCancel(q) ==
  /\ pc[q] = "delcancel"
  /\ ids' = [ids EXCEPT ![q] = NoRec]
  /\ Goto(q, "done")
  /\ UNCHANGED <<serverVars, callVars, connVars, cacheVars, orb, carries, on, victim, redo,
                 kept, fault>>

(***************************************************************************)
(* The reader of connection c, which is thread c: its dispatcher's loop,   *)
(* do_read(), and IIOPProxy::handle_input() in the same thread.            *)
(***************************************************************************)

Select(c) ==
  /\ At(c, "select") /\ state[c].current = S!Active
  /\ inbox[c] # <<>> \/ peer[c] # "up"
  /\ Goto(c, "reading")
  /\ UNCHANGED <<serverVars, callVars, connVars, cacheVars, ids, orb, carries, on, victim,
                 redo, kept, fault>>

LeaveLoop(c) ==
  /\ At(c, "select") /\ state[c].current # S!Active
  /\ Goto(c, "done")
  /\ UNCHANGED <<serverVars, callVars, connVars, cacheVars, ids, orb, carries, on, victim,
                 redo, kept, fault>>

\* a message that input_ready() refuses stays unread for ever
Read(c) ==
  /\ At(c, "reading") /\ inbox[c] # <<>>
  /\ inbox' = [inbox EXCEPT ![c] = Tail(@)]
  /\ LET m == Head(inbox[c]) IN
     IF ~S!ActiveRefOK(state[c])
       THEN Goto(c, "select") /\ UNCHANGED <<state, carries, redo>>
       ELSE /\ SetState(c, S!active_ref(state[c]))
            /\ Goto(c, IF m.kind = "reply" THEN "pull" ELSE "closing")
            /\ carries' = [carries EXCEPT ![c] = m.call]
            /\ redo' = [redo EXCEPT ![c] = (m.kind = "close")]
  /\ UNCHANGED <<peer, requests, executed, callVars, life, refcnt, slots, cacheVars, ids, orb,
                 on, victim, kept, fault>>

ReadEnd(c) ==
  /\ At(c, "reading") /\ inbox[c] = <<>>
  /\ IF peer[c] # "up" THEN close_connection(c) ELSE UNCHANGED <<state, orb>>
  /\ Goto(c, "select")
  /\ UNCHANGED <<serverVars, callVars, life, refcnt, slots, cacheVars, ids, carries, on,
                 victim, redo, kept, fault>>

\* mutant: the reply to a cancelled call keeps its active reference
Pull_Cancelled(c) ==
  /\ At(c, "pull")
  /\ LET q == carries[c] IN
     IF ids[q].active THEN ids' = [ids EXCEPT ![q].active = FALSE] /\ Goto(c, "delete")
                      ELSE Goto(c, "reading") /\ UNCHANGED ids
  /\ UNCHANGED <<serverVars, callVars, connVars, cacheVars, orb, carries, on, victim, redo,
                 kept, fault>>

\* pull_invoke(): who finds the record active has the call
Pull(c) ==
  /\ At(c, "pull")
  /\ LET q == carries[c] IN
     IF ids[q].active THEN ids' = [ids EXCEPT ![q].active = FALSE] /\ Goto(c, "delete")
                      ELSE Goto(c, "release") /\ UNCHANGED ids
  /\ UNCHANGED <<serverVars, callVars, connVars, cacheVars, orb, carries, on, victim, redo,
                 kept, fault>>

\* the results are decoded into the call's Request, then the record goes
Delete(c) ==
  /\ At(c, "delete")
  /\ ids' = [ids EXCEPT ![carries[c]] = NoRec]
  /\ Goto(c, "answer")
  /\ UNCHANGED <<serverVars, callVars, connVars, cacheVars, orb, carries, on, victim, redo,
                 kept, fault>>

Answer(c) ==
  /\ At(c, "answer")
  /\ answer_invoke(carries[c], "reply")
  /\ Goto(c, "giveback")
  /\ UNCHANGED <<serverVars, connVars, cacheVars, ids, orb, carries, on, victim, redo, kept,
                 fault>>

GiveBack(c) ==
  /\ At(c, "giveback")
  /\ deref_conn(c)
  /\ Goto(c, "release")
  /\ UNCHANGED <<serverVars, callVars, life, state, cacheVars, ids, carries, on, victim, redo,
                 kept, fault>>

Release(c) ==
  /\ At(c, "release")
  /\ SetState(c, S!active_deref(state[c]))
  /\ carries' = [carries EXCEPT ![c] = NoCall]
  /\ Goto(c, "reading")
  /\ UNCHANGED <<serverVars, callVars, life, refcnt, slots, cacheVars, ids, orb, on, victim,
                 redo, kept, fault>>

\* CloseConnection or MessageError
Closing(c) ==
  /\ At(c, "closing")
  /\ SetState(c, S!active_deref(state[c]))
  /\ victim' = [victim EXCEPT ![c] = c]
  /\ Goto(c, "unlist")
  /\ UNCHANGED <<serverVars, callVars, life, refcnt, slots, cacheVars, ids, orb, carries, on,
                 redo, kept, fault>>

(***************************************************************************)
(* IIOPProxy::kill_conn(victim[t], redo[t]).                               *)
(***************************************************************************)

Leave(t) ==
  /\ Goto(t, IF t \in Conn THEN "select" ELSE IF t = Main THEN "done" ELSE "idle")
  /\ victim' = [victim EXCEPT ![t] = NoConn] /\ redo' = [redo EXCEPT ![t] = FALSE]
  /\ carries' = [carries EXCEPT ![t] = NoCall]

\* who removes it from _conns kills it
Unlist(t) ==
  /\ At(t, "unlist")
  /\ IF conns = victim[t]
       THEN conns' = NoConn /\ Goto(t, "uncache") /\ UNCHANGED <<carries, victim, redo>>
       ELSE Leave(t) /\ UNCHANGED conns
  /\ UNCHANGED <<serverVars, callVars, connVars, profconns, active, ids, orb, on, kept, fault>>

\* ... gives back the active reference of its entry, and begins terminate()
Uncache(t) ==
  /\ At(t, "uncache")
  /\ profconns' = IF profconns = victim[t] THEN NoConn ELSE profconns
  /\ SetState(victim[t], S!BeginChange(S!active_deref(state[victim[t]]), S!Shutdown))
  /\ Goto(t, "shutdown")
  /\ UNCHANGED <<serverVars, callVars, life, refcnt, slots, conns, active, ids, orb, carries,
                 on, victim, redo, kept, fault>>

ShutdownEffective(t) ==
  /\ At(t, "shutdown") /\ S!ChangeEffective(state[victim[t]])
  /\ SetState(victim[t], S!EndChange(state[victim[t]]))
  /\ Goto(t, "join")
  /\ UNCHANGED <<serverVars, callVars, life, refcnt, slots, cacheVars, ids, orb, carries, on,
                 victim, redo, kept, fault>>

\* the reader is waited for, unless this is it; the transport is closed
Join(t) ==
  /\ At(t, "join") /\ (t = victim[t] \/ pc[victim[t]] = "done")
  /\ SetState(victim[t], S!BeginChange(state[victim[t]], S!Terminated))
  /\ inbox' = [inbox EXCEPT ![victim[t]] = <<>>]
  /\ Goto(t, "terminated")
  /\ UNCHANGED <<peer, requests, executed, callVars, life, refcnt, slots, cacheVars, ids, orb, carries, on,
                 victim, redo, kept, fault>>

TerminatedEffective(t) ==
  /\ At(t, "terminated") /\ S!ChangeEffective(state[victim[t]])
  /\ SetState(victim[t], S!EndChange(state[victim[t]]))
  /\ Goto(t, "pending")
  /\ UNCHANGED <<serverVars, callVars, life, refcnt, slots, cacheVars, ids, orb, carries, on,
                 victim, redo, kept, fault>>

PendingOn(c) == {q \in Caller : ids[q].conn = c /\ ids[q].active}

\* the next call that waits for an answer from the connection
NextPending(t) ==
  /\ At(t, "pending")
  /\ \E q \in PendingOn(victim[t]) : carries' = [carries EXCEPT ![t] = q]
  /\ Goto(t, IF redo[t] THEN "redo" ELSE "abort")
  /\ UNCHANGED <<serverVars, callVars, connVars, cacheVars, ids, orb, on, victim, redo, kept,
                 fault>>

\* del_invoke(pull_invoke()): nobody gives back the reference of the record
DropRec(t) ==
  LET q == carries[t] IN
  /\ ids[q].active                           \* the assertion in del_invoke()
  /\ ids' = [ids EXCEPT ![q] = NoRec]
  /\ kept' = kept \cup {<<q, ids[q].conn>>}

\* mutant: the caller is not told
Abort_Silent(t) ==
  /\ At(t, "abort") /\ DropRec(t)
  /\ Goto(t, "pending")
  /\ UNCHANGED <<serverVars, callVars, connVars, cacheVars, orb, carries, on, victim, redo,
                 fault>>

Abort(t) ==
  /\ At(t, "abort") /\ DropRec(t)
  /\ answer_invoke(carries[t], "TRANSIENT")
  /\ Goto(t, "pending")
  /\ UNCHANGED <<serverVars, connVars, cacheVars, orb, carries, on, victim, redo, fault>>

\* the reader sends the call again, from the start
Redo(t) ==
  /\ At(t, "redo") /\ DropRec(t)
  /\ Goto(t, IF status[carries[t]] = "pending" THEN "lookup" ELSE "pending")
  /\ UNCHANGED <<serverVars, callVars, connVars, cacheVars, orb, carries, on, victim, redo,
                 fault>>

\* mutant: the connection's own reference is kept
KillEnd_NoDeref(t) ==
  /\ At(t, "pending") /\ PendingOn(victim[t]) = {}
  /\ Leave(t)
  /\ UNCHANGED <<serverVars, callVars, connVars, cacheVars, ids, orb, on, kept, fault>>

KillEnd(t) ==
  /\ At(t, "pending") /\ PendingOn(victim[t]) = {}
  /\ deref_conn(victim[t])
  /\ Leave(t)
  /\ UNCHANGED <<serverVars, callVars, life, state, cacheVars, ids, on, kept, fault>>

(***************************************************************************)
(* MTDispatcher::process() in a worker of the ORB pool; IIOPProxy::        *)
(* shutdown().                                                             *)
(***************************************************************************)

\* mutant: a connection that broke is treated like one the server has closed
\* in an orderly way
TakeClose_Redo(o) ==
  /\ o \in OrbWorker /\ pc[o] = "idle" /\ orb # <<>> /\ Head(orb).ev = "CloseConn"
  /\ victim' = [victim EXCEPT ![o] = Head(orb).conn]
  /\ redo' = [redo EXCEPT ![o] = TRUE]
  /\ orb' = Tail(orb)
  /\ Goto(o, "unlist")
  /\ UNCHANGED <<serverVars, callVars, connVars, cacheVars, ids, carries, on, kept, fault>>

TakeClose(o) ==
  /\ o \in OrbWorker /\ pc[o] = "idle" /\ orb # <<>> /\ Head(orb).ev = "CloseConn"
  /\ victim' = [victim EXCEPT ![o] = Head(orb).conn]
  /\ redo' = [redo EXCEPT ![o] = FALSE]
  /\ orb' = Tail(orb)
  /\ Goto(o, "unlist")
  /\ UNCHANGED <<serverVars, callVars, connVars, cacheVars, ids, carries, on, kept, fault>>

\* the destructor waits for the reader
TakeKill(o) ==
  /\ o \in OrbWorker /\ pc[o] = "idle" /\ orb # <<>> /\ Head(orb).ev = "KillConn"
  /\ LET c == Head(orb).conn IN
     /\ state[c].current = S!Terminated /\ refcnt[c] = 0 /\ pc[c] = "done"
     /\ life' = [life EXCEPT ![c] = "deleted"]
  /\ orb' = Tail(orb)
  /\ UNCHANGED <<serverVars, callVars, state, refcnt, slots, cacheVars, ids, threadVars, kept,
                 fault>>

Shutdown ==
  /\ "shutdown" \in Events /\ pc[Main] = "idle"
  /\ IF conns = NoConn THEN Goto(Main, "done") /\ UNCHANGED victim
                       ELSE Goto(Main, "unlist") /\ victim' = [victim EXCEPT ![Main] = conns]
  /\ UNCHANGED <<serverVars, callVars, connVars, cacheVars, ids, orb, carries, on, redo, kept,
                 fault>>

(***************************************************************************)
(* What the process does not survive.                                      *)
(***************************************************************************)

\* an assertion about a connection fails: in deref(), MTDispatcher::process()
Aborts(t) ==
  \/ t \in Conn /\ At(t, "giveback") /\ refcnt[t] = 0
  \/ t \in Caller /\ At(t, "derefcancel") /\ refcnt[ids[t].conn] = 0
  \/ At(t, "pending") /\ PendingOn(victim[t]) = {} /\ refcnt[victim[t]] = 0
  \/ /\ t \in OrbWorker /\ pc[t] = "idle" /\ orb # <<>> /\ Head(orb).ev = "KillConn"
     /\ state[Head(orb).conn].current # S!Terminated

\* ... or one about a call: in set_answer_invoke(), del_invoke(), or when the
\* record of a call that has timed out is looked for
AbortsCall(t) ==
  \/ At(t, "answer") /\ ~AnswerOK(carries[t]) /\ status[carries[t]] # "gone"
  \/ \E l \in {"abort", "redo"} : At(t, l) /\ ~ids[carries[t]].active
  \/ At(t, "abort") /\ ~AnswerOK(carries[t]) /\ status[carries[t]] # "gone"
  \/ t \in Impatient /\ pc[t] = "wait" /\ status[t] = "pending" /\ ~ids[t].active
  \/ pc[t] \in UsesRequest /\ Dropped(carries[t])

\* a deleted connection is used
UsesDeleted(t) == LET c == Uses(t, pc[t]) IN c # NoConn /\ life[c] # "open"

\* ... by a thread that has a pointer to it but no reference: make_conn()
\* returned it, a CloseConn message carried it, or shutdown() copied it
UsesLate(t) == \/ pc[t] = "ref" /\ Late(on[t])
               \/ t \notin Conn /\ pc[t] = "unlist" /\ UsesDeleted(t)

\* overtaken: the call is one its caller gives up
FaultOf(t) ==
  CASE UsesLate(t) -> "late"
    [] ~UsesLate(t) /\ UsesDeleted(t) -> "stale"
    [] ~UsesDeleted(t) /\ AbortsCall(t) /\ carries[t] \in Impatient -> "overtaken"
    [] ~UsesDeleted(t) /\ AbortsCall(t) /\ carries[t] \notin Impatient -> "abort"
    [] Aborts(t) -> "abort"
    [] OTHER -> "none"

Fail(t) ==
  /\ FaultOf(t) # "none" /\ fault' = FaultOf(t)
  /\ UNCHANGED <<serverVars, callVars, connVars, cacheVars, ids, orb, threadVars, kept>>

(***************************************************************************)
(* The specification.                                                      *)
(***************************************************************************)

invoke(t) == \/ Lookup(t) \/ FindConn(t) \/ NewConn(t) \/ NoConnection(t) \/ Cache(t)
             \/ Ref(t) \/ AddInvoke(t) \/ Output(t) \/ ActiveDeref(t)

kill_conn(t) == \/ Unlist(t) \/ Uncache(t) \/ ShutdownEffective(t) \/ Join(t)
                \/ TerminatedEffective(t) \/ NextPending(t) \/ Abort(t) \/ Redo(t)
                \/ KillEnd(t)

CallStep(q) == Return(q) \/ SendCancel(q) \/ DerefCancel(q) \/ DelCancel(q)

Reader(c) == \/ Select(c) \/ LeaveLoop(c) \/ Read(c) \/ ReadEnd(c) \/ Pull(c) \/ Delete(c)
             \/ Answer(c) \/ GiveBack(c) \/ Release(c) \/ Closing(c)

Pool(o) == TakeClose(o) \/ TakeKill(o)

Next ==
  /\ fault = "none"
  /\ \/ \E c \in Conn : \/ Serve(c) \/ Crash(c) \/ Reader(c)
                        \/ \E k \in {"close", "error"} : ServerCloses(c, k)
     \/ \E q \in Caller : Begin(q) \/ CallStep(q) \/ TimeOut(q) \/ Cancel(q)
     \/ \E o \in OrbWorker : Pool(o)
     \/ Shutdown
     \/ \E t \in Thread : invoke(t) \/ kill_conn(t) \/ Fail(t)

\* threads run, into what they do not survive too, and a server that is there
\* answers; no call need be made, given up or cut off
Runs(t) == invoke(t) \/ kill_conn(t) \/ (pc[t] # "wait" /\ Fail(t))
Fairness ==
  /\ \A q \in Caller : WF_vars(fault = "none" /\ (CallStep(q) \/ Runs(q)))
  /\ \A c \in Conn : /\ WF_vars(fault = "none" /\ (Reader(c) \/ Runs(c)))
                     /\ WF_vars(fault = "none" /\ Serve(c))
  /\ \A o \in OrbWorker : WF_vars(fault = "none" /\ (Pool(o) \/ Runs(o)))
  /\ WF_vars(fault = "none" /\ Runs(Main))

Spec == Init /\ [][Next]_vars /\ Fairness

(***************************************************************************)
(* Properties.                                                             *)
(***************************************************************************)

\* No assertion of the client side fails and no deleted connection is used, by
\* threads that send, read, close and delete in any order, except through a
\* pointer the code keeps without a reference (UsesLate) and when a caller
\* gives a call up while another thread handles it.
NoFault == fault \in {"none", "late", "overtaken"}

\* who holds an active reference to c besides the entry in _conns
ActiveHolders(c) ==
  {t \in Thread : pc[t] \in Sending /\ on[t] = c} \cup
  {t \in {c} : pc[t] \in Handling \cup {"closing"}}
Entry(c) == conns = c \/ \E t \in Thread : pc[t] = "uncache" /\ victim[t] = c

\* The active references of a connection are its entry in _conns, the threads
\* that send on it and the reader while it handles a message: terminate()
\* waits for all of these, and for no one who will not give it back.
ActiveRefsExact ==
  \A c \in Conn : life[c] = "open" =>
    state[c].active = Cardinality(ActiveHolders(c)) + (IF Entry(c) THEN 1 ELSE 0)

\* the connection's own reference, which KillEnd gives back
OwnRef(c) == /\ life[c] = "open"
             /\ \/ state[c].current # S!Terminated
                \/ \E t \in Thread : /\ victim[t] = c
                                     /\ \/ pc[t] \in {"pending", "abort", "redo"}
                                        \/ pc[t] \in Sending \cup {"lookup", "connect", "cache", "ref"}

\* records with a reference of their own, or whose deleter has yet to give it back
HeldRecs(c) ==
  {q \in Caller : ids[q].conn = c /\ pc[q] # "delcancel"} \cup
  {q \in Caller : pc[c] \in {"answer", "giveback"} /\ carries[c] = q} \cup
  {q \in Caller : <<q, c>> \in kept}

\* _refcnt counts the connection itself and one for each call that waits for
\* an answer on it (or whose record was dropped with its reference): it is
\* neither deleted under a call nor kept after the last one; -ORBConnLimit
\* counts the connections with a reference.
RefcntExact ==
  /\ \A c \in Conn : life[c] = "open" =>
       refcnt[c] = Cardinality(HeldRecs(c)) + (IF OwnRef(c) THEN 1 ELSE 0)
  /\ slots = Cardinality({c \in Conn : refcnt[c] > 0})

\* Both reference counts are exact.
CountsExact == ActiveRefsExact /\ RefcntExact

I == INSTANCE Invocation WITH Call <- Caller

\* The calls are executed at most once and answered once, and a reply is the
\* answer of a server that has executed the call, although the client sends a
\* call again when a server has closed the connection.
ImplementsInvocation == I!Spec

\* A call that expects a response and is not given up returns in the end,
\* with a result or an exception, whatever happens to the connection.
AllAnswered ==
  \A q \in Caller \ (Oneway \cup Impatient) :
    status[q] = "pending" ~> (status[q] = "returned" \/ fault # "none")

\* A connection whose server has gone is deleted in the end and its slot given
\* back, unless a record was dropped with its reference.
Reclaimed ==
  \A c \in Conn : (life[c] = "open" /\ peer[c] # "up") ~>
                  (\/ life[c] = "deleted" \/ fault # "none"
                   \/ \E q \in Caller : <<q, c>> \in kept)
===============================================================================
