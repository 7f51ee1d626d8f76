-------------------------- MODULE ServerConnProofs --------------------------
(***************************************************************************)
(* Proofs about the server side of GIOP connections, for any set of        *)
(* connections and of threads, any kinds of clients, well-behaved or not,  *)
(* and any number of messages.                                             *)
(*                                                                         *)
(* Shape says where each thread may be and what the queues may hold; it is *)
(* inductive by itself.  Counts says what the messages that were read hold *)
(* of their connection: one active reference from the moment the main      *)
(* thread hands a message over until a worker has decoded it, and at most  *)
(* one reference of an invocation record, counted from the moment the      *)
(* message is read.  The counts of TypeOK follow: a connection never has   *)
(* more active references than messages, nor more references than messages *)
(* and its own.                                                            *)
(*                                                                         *)
(* GentleInv, the rest, is about clients that wait for their replies and   *)
(* send nothing the code is known to stumble on, until the ORB shuts down. *)
(* It follows every message of a gentle client through the server: where   *)
(* it is (Tokens), what its record looks like (Records), who closes the    *)
(* connection (Stages), that nothing is read from then on (Deaf), and what *)
(* refers to the connection (Refs).  Each step is shown to keep this of    *)
(* the connection it works on (SendGood, ReadMessageGood, ...) and to      *)
(* leave the others alone (ReadOthers, DecodeOthers, ...).                 *)
(***************************************************************************)
EXTENDS ServerConn, FiniteSetTheorems, SequenceTheorems, TLAPS

(***************************************************************************)
(* Cardinalities of sets, and the number of messages of a kind in a queue, *)
(* which references are counted with.                                      *)
(***************************************************************************)

\* how many messages of a queue are of a kind
CountIn(q, P) == Cardinality({i \in DOMAIN q : q[i] \in P})

\* A message that is queued counts for one.
LEMMA AppendCount ==
  ASSUME NEW M, NEW q \in Seq(M), NEW m \in M, NEW P
  PROVE  /\ CountIn(q, P) \in Nat
         /\ CountIn(Append(q, m), P) = CountIn(q, P) + (IF m \in P THEN 1 ELSE 0)
<1> DEFINE n == Len(q)
           A == {i \in DOMAIN q : q[i] \in P}
           B == {i \in DOMAIN Append(q, m) : Append(q, m)[i] \in P}
<1>1. n \in Nat /\ DOMAIN q = 1..n
  BY LenProperties
<1>2. /\ DOMAIN Append(q, m) = 1..(n + 1)
      /\ Append(q, m)[n + 1] = m
      /\ \A i \in 1..n : Append(q, m)[i] = q[i]
  BY <1>1
<1>3. IsFiniteSet(A) /\ Cardinality(A) \in Nat
  <2>1. IsFiniteSet(1..n)
    BY <1>1, FS_Interval
  <2>2. A \in SUBSET (1..n)
    BY <1>1
  <2>3. IsFiniteSet(A)
    BY <2>1, <2>2, FS_Subset
  <2> QED
    BY <2>3, FS_CardinalityType
<1>4. n + 1 \notin A
  BY <1>1
<1>5. B = IF m \in P THEN A \cup {n + 1} ELSE A
  <2> HIDE DEF n
  <2> QED
    BY <1>1, <1>2
<1>6. Cardinality(A \cup {n + 1}) = Cardinality(A) + 1
  <2> HIDE DEF A
  <2> QED
    BY <1>3, <1>4, FS_AddElement
<1>7. CountIn(q, P) = Cardinality(A) /\ CountIn(Append(q, m), P) = Cardinality(B)
  BY DEF CountIn
<1> HIDE DEF A, B
<1> QED
  BY <1>3, <1>5, <1>6, <1>7

\* A message that is taken counts no more.
LEMMA TailCount ==
  ASSUME NEW M, NEW q \in Seq(M), q # <<>>, NEW P
  PROVE  /\ CountIn(q, P) \in Nat /\ CountIn(Tail(q), P) \in Nat
         /\ CountIn(q, P) = CountIn(Tail(q), P) + (IF Head(q) \in P THEN 1 ELSE 0)
<1> DEFINE n == Len(q)
           A == {i \in DOMAIN q : q[i] \in P}
           B == {i \in DOMAIN Tail(q) : Tail(q)[i] \in P}
           C == {i \in 2..n : q[i] \in P}
           f == [i \in B |-> i + 1]
<1>1. n \in Nat /\ n > 0 /\ DOMAIN q = 1..n /\ Head(q) = q[1]
  BY LenProperties
<1>2. /\ DOMAIN Tail(q) = 1..(n - 1)
      /\ \A i \in 1..(n - 1) : Tail(q)[i] = q[i + 1]
  <2>1. Len(Tail(q)) = n - 1 /\ Tail(q) \in Seq(M)
    BY HeadTailProperties
  <2>2. DOMAIN Tail(q) = 1..Len(Tail(q))
    BY <2>1, LenProperties
  <2> QED
    BY <2>1, <2>2, HeadTailProperties
<1> HIDE DEF n
<1>3. IsFiniteSet(B) /\ Cardinality(B) \in Nat
  <2>1. IsFiniteSet(1..(n - 1))
    BY <1>1, FS_Interval
  <2>2. B \in SUBSET (1..(n - 1))
    BY <1>2
  <2>3. IsFiniteSet(B)
    BY <2>1, <2>2, FS_Subset
  <2> QED
    BY <2>3, FS_CardinalityType
<1>4. f \in Bijection(B, C)
  <2>1. \A i \in B : i + 1 \in C /\ i \in Int
    BY <1>1, <1>2
  <2>2. \A j \in C : j - 1 \in B /\ (j - 1) + 1 = j
    BY <1>1, <1>2
  <2>3. f \in [B -> C] /\ \A i, j \in B : f[i] = f[j] => i = j
    BY <2>1
  <2>4. \A j \in C : \E i \in B : f[i] = j
    BY <2>2
  <2> HIDE DEF f, B, C
  <2> QED
    BY <2>3, <2>4 DEF Bijection, Injection, IsInjective, Surjection
<1>5. IsFiniteSet(C) /\ Cardinality(C) = Cardinality(B)
  <2> HIDE DEF f, B, C
  <2> QED
    BY <1>3, <1>4, FS_Bijection DEF ExistsBijection
<1>6. A = IF Head(q) \in P THEN C \cup {1} ELSE C
  BY <1>1
<1>7. 1 \notin C
  BY <1>1
<1>8. Cardinality(C \cup {1}) = Cardinality(C) + 1
  <2> HIDE DEF C
  <2> QED
    BY <1>5, <1>7, FS_AddElement
<1>9. CountIn(q, P) = Cardinality(A) /\ CountIn(Tail(q), P) = Cardinality(B)
  BY DEF CountIn
<1> HIDE DEF A, B, C
<1> QED
  BY <1>3, <1>5, <1>6, <1>8, <1>9

\* Nothing counts for 0.
LEMMA NoneCount ==
  ASSUME NEW M, NEW q \in Seq(M), NEW P
  PROVE  /\ CountIn(q, P) \in Nat
         /\ CountIn(q, P) = 0 <=> \A i \in DOMAIN q : q[i] \notin P
<1> DEFINE A == {i \in DOMAIN q : q[i] \in P}
<1>1. IsFiniteSet(A)
  <2>1. IsFiniteSet(1..Len(q))
    BY LenProperties, FS_Interval
  <2>2. A \in SUBSET (1..Len(q))
    BY LenProperties
  <2> QED
    BY <2>1, <2>2, FS_Subset
<1>2. Cardinality(A) \in Nat
  BY <1>1, FS_CardinalityType
<1>3. Cardinality(A) = 0 <=> A = {}
  BY <1>1, FS_EmptySet
<1> QED
  BY <1>2, <1>3 DEF CountIn

\* A step that concerns one element of a set.
LEMMA MoveCount ==
  ASSUME NEW U, IsFiniteSet(U), NEW A \in SUBSET U, NEW B \in SUBSET U, NEW t,
         \A u \in U : u # t => (u \in A <=> u \in B)
  PROVE  /\ Cardinality(A) \in Nat /\ Cardinality(B) \in Nat
         /\ Cardinality(B) + (IF t \in A THEN 1 ELSE 0) =
              Cardinality(A) + (IF t \in B THEN 1 ELSE 0)
<1>1. IsFiniteSet(A) /\ IsFiniteSet(B)
  BY FS_Subset
<1>2. Cardinality(A) \in Nat /\ Cardinality(B) \in Nat
  BY <1>1, FS_CardinalityType
<1>3. CASE t \in A /\ t \notin B
  <2>1. A = B \cup {t}
    BY <1>3
  <2> QED
    BY <1>1, <1>2, <1>3, <2>1, FS_AddElement
<1>4. CASE t \in B /\ t \notin A
  <2>1. B = A \cup {t}
    BY <1>4
  <2> QED
    BY <1>1, <1>2, <1>4, <2>1, FS_AddElement
<1>5. CASE t \in A <=> t \in B
  <2>1. A = B
    BY <1>5
  <2> QED
    BY <1>2, <2>1
<1> QED
  BY <1>2, <1>3, <1>4, <1>5

-----------------------------------------------------------------------------
(***************************************************************************)
(* The shape of the state: types without bounds, and where threads can be. *)
(***************************************************************************)
QueuedMsg == [conn : Conn, job : {j \in Job : j.kind # "illframed"}]
OrbMsg == [conn : Conn, ev : {"CloseConn", "KillConn"}]
ConnState == [current : S!ExecState, new : S!ExecState, active : Int]

ClientShape ==
  /\ client \in [Conn -> Client] /\ sent \in [Conn -> Seq(Job)] /\ arrived \in [Conn -> Nat]
  /\ \A c \in Conn : Len(sent[c]) <= MaxMsg /\ arrived[c] <= Len(sent[c])
  /\ hungup \subseteq Conn /\ replied \subseteq Rec

ConnShape ==
  /\ life \in [Conn -> {"none", "open", "deleted"}] /\ held \subseteq Conn
  /\ state \in [Conn -> ConnState] /\ refcnt \in [Conn -> Nat]
  /\ selected \subseteq Conn /\ conns \subseteq Conn /\ slots \in 0..(CountMod - 1)

RecShape ==
  /\ orbids \in [Rec -> {"none", "active", "pulled"}]
  /\ hint \subseteq Rec /\ live \subseteq Rec

PoolShape == decode \in Seq(QueuedMsg) /\ orb \in Seq(OrbMsg)

MainOnly == {"reading", "read", "bye", "gone"}
KillPc == {"kill", "shutdown", "closing", "terminate", "abort"}
PcOf(t) == IF t = Main THEN MainOnly \cup {"free", "shutdown", "closing", "terminate"}
           ELSE IF t \in OrbWorker THEN KillPc \cup {"free"}
           ELSE Pc \ MainOnly
Away == {"free", "gone"}

ThreadShape ==
  /\ pc \in [Thread -> Pc] /\ on \in [Thread -> Conn \cup {NoConn}] /\ job \in [Thread -> Job]
  /\ \A t \in Thread : /\ pc[t] \in PcOf(t)
                       /\ on[t] = NoConn <=> pc[t] \in Away

GlobalShape == /\ lock \in Thread \cup {Nobody} /\ stopping \in BOOLEAN
               /\ fault \in {"none", "abort", "stale"}

Shape == ClientShape /\ ConnShape /\ RecShape /\ PoolShape /\ ThreadShape /\ GlobalShape

\* The variables have their shape at first.
LEMMA InitShape == Init => Shape
<1> SUFFICES ASSUME Init PROVE Shape
  OBVIOUS
<1>1. ClientShape
  BY ConstantsAssumption DEF Init, ClientShape
<1>2. ConnShape
  <2>1. S!Fresh \in ConnState
    BY DEF S!Fresh, S!Initial, S!ExecState, ConnState
  <2> QED
    BY <2>1, ConstantsAssumption DEF Init, ConnShape
<1>3. RecShape
  BY DEF Init, RecShape
<1>4. PoolShape
  BY DEF Init, PoolShape
<1>5. ThreadShape
  <2>1. NoJob \in Job
    BY ConstantsAssumption DEF NoJob, Job, Message
  <2>2. "free" \in Pc /\ \A t \in Thread : "free" \in PcOf(t)
    BY DEF Pc, PcOf, KillPc, MainOnly
  <2> QED
    BY <2>1, <2>2 DEF Init, ThreadShape, Away
<1>6. GlobalShape
  BY DEF Init, GlobalShape
<1> QED
  BY <1>1, <1>2, <1>3, <1>4, <1>5, <1>6 DEF Shape

\* A thread goes on.
LEMMA GotoShape ==
  ASSUME ThreadShape, NEW t \in Thread, NEW l \in PcOf(t), Goto(t, l),
         l \in Away <=> pc[t] \in Away
  PROVE  ThreadShape'
<1>1. l \in Pc
  BY DEF PcOf, MainOnly, KillPc, Pc, UsesConn
<1> QED
  BY <1>1 DEF ThreadShape, Goto

\* A thread is done.
LEMMA FreeShape ==
  ASSUME ThreadShape, NEW t \in Thread, Free(t)
  PROVE  ThreadShape'
<1>1. NoJob \in Job
  BY ConstantsAssumption DEF NoJob, Job, Message
<1>2. "free" \in Pc /\ "free" \in PcOf(t) /\ "free" \in Away
  BY DEF PcOf, MainOnly, KillPc, Pc, Away
<1> HIDE DEF PcOf, Away
<1> QED
  BY <1>1, <1>2 DEF ThreadShape, Free

\* A thread that is at work works on a connection.
LEMMA Busy ==
  ASSUME Shape, NEW t \in Thread, pc[t] \notin Away
  PROVE  on[t] \in Conn
BY DEF Shape, ThreadShape

\* What the methods of StateRefCnt make of a state.
LEMMA StateMethods ==
  ASSUME NEW s \in ConnState
  PROVE  /\ s.current \in 0..4 /\ s.new \in 0..4 /\ s.active \in Int
         /\ S!active_ref(s) \in ConnState
         /\ S!active_ref(s).current = s.current /\ S!active_ref(s).new = s.new
         /\ S!active_ref(s).active = s.active + 1
         /\ S!active_deref(s) \in ConnState
         /\ S!active_deref(s).current = s.current /\ S!active_deref(s).new = s.new
         /\ S!active_deref(s).active = s.active - 1
         /\ \A n \in 0..4 : /\ S!BeginChange(s, n) \in ConnState
                            /\ S!BeginChange(s, n).current = s.current
                            /\ S!BeginChange(s, n).new = n
                            /\ S!BeginChange(s, n).active = s.active
         /\ S!EndChange(s) \in ConnState
         /\ S!EndChange(s).current = (IF s.new > s.current THEN s.new ELSE s.current)
         /\ S!EndChange(s).new = s.new /\ S!EndChange(s).active = s.active
         /\ S!init_shutdown(s) \in ConnState
         /\ S!init_shutdown(s).current = 2 /\ S!init_shutdown(s).new = 2
         /\ S!init_shutdown(s).active = s.active
<1>1. /\ s = [current |-> s.current, new |-> s.new, active |-> s.active]
      /\ s.current \in 0..4 /\ s.new \in 0..4 /\ s.active \in Int
  BY DEF ConnState, S!ExecState
<1>2. \A x, y \in 0..4, n \in Int : [current |-> x, new |-> y, active |-> n] \in ConnState
  BY DEF ConnState, S!ExecState
<1> HIDE DEF ConnState
<1>3. S!active_ref(s) = [current |-> s.current, new |-> s.new, active |-> s.active + 1]
  BY <1>1 DEF S!active_ref
<1>4. S!active_deref(s) = [current |-> s.current, new |-> s.new, active |-> s.active - 1]
  BY <1>1 DEF S!active_deref
<1>5. ASSUME NEW n \in 0..4
      PROVE  S!BeginChange(s, n) = [current |-> s.current, new |-> n, active |-> s.active]
  BY <1>1 DEF S!BeginChange
<1>6. S!EndChange(s) = [current |-> IF s.new > s.current THEN s.new ELSE s.current,
                        new |-> s.new, active |-> s.active]
  BY <1>1 DEF S!EndChange
<1>7. S!init_shutdown(s) = [current |-> 2, new |-> 2, active |-> s.active]
  <2> DEFINE r == [s EXCEPT !.current = 2]
  <2>1. r = [current |-> 2, new |-> s.new, active |-> s.active]
    BY <1>1
  <2>2. S!init_shutdown(s) = [r EXCEPT !.new = 2]
    BY <1>1 DEF S!init_shutdown, S!InitShutdown
  <2> HIDE DEF r
  <2> QED
    BY <2>1, <2>2
<1>8. s.active + 1 \in Int /\ s.active - 1 \in Int
  BY <1>1
<1>9. \A n \in 0..4 : /\ S!BeginChange(s, n) \in ConnState
                      /\ S!BeginChange(s, n).current = s.current
                      /\ S!BeginChange(s, n).new = n
                      /\ S!BeginChange(s, n).active = s.active
  BY <1>1, <1>2, <1>5
<1>10. /\ S!active_ref(s) \in ConnState /\ S!active_deref(s) \in ConnState
       /\ S!EndChange(s) \in ConnState /\ S!init_shutdown(s) \in ConnState
  <2>1. S!active_ref(s) \in ConnState /\ S!active_deref(s) \in ConnState
    BY <1>1, <1>2, <1>3, <1>4, <1>8
  <2>2. S!EndChange(s) \in ConnState
    BY <1>1, <1>2, <1>6
  <2>3. S!init_shutdown(s) \in ConnState
    BY <1>1, <1>2, <1>7
  <2> QED
    BY <2>1, <2>2, <2>3
<1> QED
  BY <1>1, <1>3, <1>4, <1>6, <1>7, <1>9, <1>10

\* The state of one connection changes.
LEMMA SetStateShape ==
  ASSUME ConnShape, NEW c \in Conn, NEW s \in ConnState, SetState(c, s)
  PROVE  /\ state' \in [Conn -> ConnState] /\ state'[c] = s
         /\ \A d \in Conn : d # c => state'[d] = state[d]
BY DEF ConnShape, SetState

\* What the helpers that close, write and count do to a connection.
LEMMA CloseShape ==
  ASSUME ConnShape, PoolShape, NEW c \in Conn, close_connection(c)
  PROVE  /\ state' \in [Conn -> ConnState] /\ orb' \in Seq(OrbMsg)
         /\ \A d \in Conn : state'[d].active = state[d].active
<1>1. [conn |-> c, ev |-> "CloseConn"] \in OrbMsg
  BY DEF OrbMsg
<1>2. /\ S!init_shutdown(state[c]) \in ConnState
      /\ S!init_shutdown(state[c]).active = state[c].active
  BY StateMethods DEF ConnShape
<1>3. CASE S!ShutdownOK(state[c])
  <2>1. /\ SetState(c, S!init_shutdown(state[c]))
        /\ orb' = Append(orb, [conn |-> c, ev |-> "CloseConn"])
    BY <1>3 DEF close_connection
  <2>2. orb' \in Seq(OrbMsg)
    BY <1>1, <2>1 DEF PoolShape
  <2> QED
    BY <1>2, <2>1, <2>2, SetStateShape
<1>4. CASE ~S!ShutdownOK(state[c])
  BY <1>4 DEF close_connection, ConnShape, PoolShape
<1> QED
  BY <1>3, <1>4

\* output() keeps the types of what it changes, and the active references.
LEMMA OutputShape ==
  ASSUME ConnShape, PoolShape, NEW c \in Conn, output(c)
  PROVE  /\ state' \in [Conn -> ConnState] /\ orb' \in Seq(OrbMsg) /\ selected' \subseteq Conn
         /\ \A d \in Conn : state'[d].active = state[d].active
<1>1. CASE Broken(c)
  BY <1>1, CloseShape DEF output, ConnShape
<1>2. CASE ~Broken(c)
  BY <1>2 DEF output, ConnShape, PoolShape
<1> QED
  BY <1>1, <1>2

\* deref() keeps the types of what it changes, and adds to no count.
LEMMA DerefShape ==
  ASSUME ConnShape, PoolShape, NEW c \in Conn, deref_conn(c)
  PROVE  /\ refcnt' \in [Conn -> Nat] /\ orb' \in Seq(OrbMsg) /\ slots' \in 0..(CountMod - 1)
         /\ \A d \in Conn : refcnt'[d] <= refcnt[d]
<1>1. [conn |-> c, ev |-> "KillConn"] \in OrbMsg
  BY DEF OrbMsg
<1>2. refcnt' \in [Conn -> Nat] /\ \A d \in Conn : refcnt'[d] <= refcnt[d]
  <2>1. /\ refcnt \in [Conn -> Nat] /\ refcnt[c] > 0
        /\ refcnt' = [refcnt EXCEPT ![c] = @ - 1]
    BY DEF deref_conn, DerefOK, ConnShape
  <2>2. refcnt[c] - 1 \in Nat
    BY <2>1
  <2> QED
    BY <2>1, <2>2
<1>3. orb' \in Seq(OrbMsg)
  <2>1. orb' = orb \/ orb' = Append(orb, [conn |-> c, ev |-> "KillConn"])
    BY DEF deref_conn
  <2> QED
    BY <1>1, <2>1 DEF PoolShape
<1>4. slots' \in 0..(CountMod - 1)
  BY ConstantsAssumption DEF deref_conn, ConnShape
<1> QED
  BY <1>2, <1>3, <1>4

\* The clients and the main thread keep the shape.
LEMMA ClientsShape ==
  ASSUME Shape, NEW c \in Conn, Send(c) \/ Hangup(c) \/ Accept(c)
  PROVE  Shape'
<1> USE DEF Shape
<1>1. CASE Send(c)
  <2>1. PICK k \in Message, n \in 1..MaxMsg :
          sent' = [sent EXCEPT ![c] = Append(@, [kind |-> k, n |-> n])]
    <3>1. PICK k \in Speaks[client[c]] :
            \E n \in IF k = "cancel" THEN {i \in DOMAIN sent[c] : sent[c][i].kind \in Request}
                                     ELSE {Len(sent[c]) + 1} :
              sent' = [sent EXCEPT ![c] = Append(@, [kind |-> k, n |-> n])]
      BY <1>1 DEF Send
    <3>2. k \in Message
      BY ConstantsAssumption DEF ClientShape
    <3>3. /\ Len(sent[c]) \in Nat /\ DOMAIN sent[c] = 1..Len(sent[c]) /\ Len(sent[c]) < MaxMsg
      BY <1>1 DEF Send, ClientShape
    <3>4. (IF k = "cancel" THEN {i \in DOMAIN sent[c] : sent[c][i].kind \in Request}
                           ELSE {Len(sent[c]) + 1}) \subseteq 1..MaxMsg
      BY <3>3, ConstantsAssumption
    <3> QED
      BY <3>1, <3>2, <3>4
  <2>2. [kind |-> k, n |-> n] \in Job
    BY DEF Job
  <2>3. sent' \in [Conn -> Seq(Job)]
    BY <2>1, <2>2 DEF ClientShape
  <2>4. \A d \in Conn : Len(sent'[d]) <= MaxMsg /\ arrived[d] <= Len(sent'[d])
    <3>1. /\ Len(sent[c]) \in Nat /\ Len(sent[c]) < MaxMsg /\ arrived[c] <= Len(sent[c])
          /\ arrived[c] \in Nat
      BY <1>1 DEF Send, ClientShape
    <3>2. Len(sent'[c]) = Len(sent[c]) + 1
      BY <2>1, <2>2 DEF ClientShape
    <3>3. \A d \in Conn : d # c => sent'[d] = sent[d]
      BY <2>1 DEF ClientShape
    <3>4. MaxMsg \in Nat
      BY ConstantsAssumption
    <3>5. \A d \in Conn : Len(sent[d]) <= MaxMsg /\ arrived[d] <= Len(sent[d])
      BY DEF ClientShape
    <3> QED
      BY <3>1, <3>2, <3>3, <3>4, <3>5
  <2>5. ClientShape'
    BY <1>1, <2>3, <2>4 DEF Send, ClientShape
  <2> QED
    BY <1>1, <2>5 DEF Send, connVars, recVars, poolVars, threadVars, ConnShape, RecShape,
       PoolShape, ThreadShape, GlobalShape
<1>2. CASE Hangup(c)
  <2>1. ClientShape'
    BY <1>2 DEF Hangup, ClientShape
  <2> QED
    BY <1>2, <2>1 DEF Hangup, connVars, recVars, poolVars, threadVars, ConnShape, RecShape,
       PoolShape, ThreadShape, GlobalShape
<1>3. CASE Accept(c)
  <2> DEFINE s == S!EndChange(S!BeginChange(state[c], S!Active))
  <2>1. s \in ConnState
    BY StateMethods DEF ConnShape, S!Active
  <2>2. slots' \in 0..(CountMod - 1)
    BY <1>3, ConstantsAssumption DEF Accept, ConnShape
  <2>3. state' \in [Conn -> ConnState] /\ refcnt' \in [Conn -> Nat]
    <3> HIDE DEF s
    <3>1. SetState(c, s) /\ refcnt' = [refcnt EXCEPT ![c] = 1]
      BY <1>3 DEF Accept, start, s
    <3> QED
      BY <2>1, <3>1, SetStateShape DEF ConnShape
  <2>4. ConnShape'
    BY <1>3, <2>2, <2>3 DEF Accept, GIOPConn, ConnShape
  <2> QED
    BY <1>3, <2>4 DEF Accept, clientVars, recVars, poolVars, threadVars, ClientShape, RecShape,
       PoolShape, ThreadShape, GlobalShape
<1> QED
  BY <1>1, <1>2, <1>3

\* A thread that reads a message keeps the shape.
LEMMA ReadShape ==
  ASSUME Shape, Read
  PROVE  Shape'
<1> USE DEF Shape
<1>1. Main \in Thread /\ \A l \in MainOnly \cup {"free", "shutdown", "closing", "terminate"} : l \in PcOf(Main)
  BY DEF Thread, PcOf
<1>2. CASE \E c \in Conn : Select(c)
  <2>1. PICK c \in Conn : Select(c)
    BY <1>2
  <2>2. "reading" \in Pc /\ "reading" \notin Away /\ "reading" \in PcOf(Main)
    BY <1>1 DEF Pc, UsesConn, Away, MainOnly
  <2>3. ThreadShape'
    BY <1>1, <2>1, <2>2, ConstantsAssumption DEF Select, ThreadShape
  <2> QED
    BY <2>1, <2>3 DEF Select, clientVars, connVars, recVars, poolVars, ClientShape, ConnShape,
       RecShape, PoolShape, GlobalShape
<1>3. CASE ReadMessage
  <2> DEFINE c == on[Main]
             m == sent[c][arrived[c] + 1]
  <2>1. c \in Conn
    BY <1>1, <1>3, Busy DEF ReadMessage, At, Away
  <2>2. arrived[c] \in Nat /\ arrived[c] + 1 <= Len(sent[c]) /\ m \in Job
    BY <1>3, <2>1 DEF ReadMessage, ClientShape
  <2>3. ClientShape'
    BY <1>3, <2>1, <2>2 DEF ReadMessage, ClientShape
  <2>4. ConnShape'
    BY <1>3 DEF ReadMessage, ConnShape
  <2>5. ThreadShape'
    <3>1. /\ job' = [job EXCEPT ![Main] = m] /\ pc' = [pc EXCEPT ![Main] = "read"]
          /\ on' = on /\ pc[Main] = "reading"
      BY <1>3 DEF ReadMessage, At
    <3>2. "read" \in Pc /\ "read" \notin Away /\ "read" \in PcOf(Main) /\ "reading" \notin Away
      BY <1>1 DEF Pc, UsesConn, Away, MainOnly
    <3> HIDE DEF m
    <3> QED
      BY <1>1, <2>2, <3>1, <3>2 DEF ThreadShape
  <2> QED
    BY <1>3, <2>3, <2>4, <2>5 DEF ReadMessage, recVars, poolVars, RecShape, PoolShape,
       GlobalShape
<1>4. CASE input_ready
  <2> DEFINE c == on[Main]
  <2>1. c \in Conn
    BY <1>1, <1>4, Busy DEF input_ready, At, Away
  <2>2. ThreadShape'
    <3>1. Free(Main) \/ Goto(Main, "reading")
      BY <1>4 DEF input_ready
    <3>2. "reading" \in PcOf(Main) /\ "reading" \notin Away /\ pc[Main] \notin Away
      BY <1>1, <1>4 DEF MainOnly, Away, input_ready, At
    <3> QED
      BY <1>1, <3>1, <3>2, FreeShape, GotoShape
  <2>3. /\ state' \in [Conn -> ConnState] /\ held' \subseteq Conn
        /\ decode' \in Seq(QueuedMsg)
    <3>1. CASE S!ActiveRefOK(state[c])
      <4>1. [conn |-> c, job |-> job[Main]] \in QueuedMsg
        BY <1>1, <1>4, <2>1 DEF QueuedMsg, input_ready, ThreadShape
      <4>2. S!active_ref(state[c]) \in ConnState
        BY <2>1, StateMethods DEF ConnShape
      <4>3. /\ SetState(c, S!active_ref(state[c])) /\ held' = held
            /\ decode' = Append(decode, [conn |-> c, job |-> job[Main]])
        BY <1>4, <3>1 DEF input_ready
      <4> QED
        BY <2>1, <4>1, <4>2, <4>3, SetStateShape DEF ConnShape, PoolShape
    <3>2. CASE ~S!ActiveRefOK(state[c])
      BY <1>4, <2>1, <3>2 DEF input_ready, ConnShape, PoolShape
    <3> QED
      BY <3>1, <3>2
  <2>4. ConnShape' /\ PoolShape'
    BY <1>4, <2>3 DEF input_ready, ConnShape, PoolShape
  <2> QED
    BY <1>4, <2>2, <2>4 DEF input_ready, clientVars, recVars, ClientShape, RecShape, GlobalShape
<1>5. CASE ReadError
  <2>1. on[Main] \in Conn
    BY <1>1, <1>5, Busy DEF ReadError, At, Away
  <2>2. ThreadShape'
    BY <1>1, <1>5, FreeShape DEF ReadError
  <2>3. state' \in [Conn -> ConnState] /\ orb' \in Seq(OrbMsg)
    BY <1>5, <2>1, CloseShape DEF ReadError
  <2>4. ConnShape' /\ PoolShape'
    BY <1>5, <2>3 DEF ReadError, ConnShape, PoolShape
  <2> QED
    BY <1>5, <2>2, <2>4 DEF ReadError, clientVars, recVars, ClientShape, RecShape, GlobalShape
<1>6. CASE ReadEnd
  <2> DEFINE c == on[Main]
  <2>1. c \in Conn
    BY <1>1, <1>6, Busy DEF ReadEnd, At, Away
  <2>2. ThreadShape'
    BY <1>1, <1>6, FreeShape DEF ReadEnd
  <2>3. /\ state' \in [Conn -> ConnState] /\ orb' \in Seq(OrbMsg) /\ selected' \subseteq Conn
    <3>1. CASE EOF(c)
      BY <1>6, <2>1, <3>1, CloseShape DEF ReadEnd, ConnShape
    <3>2. CASE ~EOF(c)
      BY <1>6, <3>2 DEF ReadEnd, ConnShape, PoolShape
    <3> QED
      BY <3>1, <3>2
  <2>4. ConnShape' /\ PoolShape'
    BY <1>6, <2>3 DEF ReadEnd, ConnShape, PoolShape
  <2> QED
    BY <1>6, <2>2, <2>4 DEF ReadEnd, clientVars, recVars, ClientShape, RecShape, GlobalShape
<1> QED
  BY <1>2, <1>3, <1>4, <1>5, <1>6 DEF Read

\* The workers of the DeCode pool keep the shape.
LEMMA DecodeShape ==
  ASSUME Shape, NEW w \in Worker, Decode(w)
  PROVE  Shape'
<1> USE DEF Shape
<1>1. /\ w \in Thread
      /\ \A l \in Pc \ MainOnly : l \in PcOf(w)
      /\ PcOf(w) \subseteq Pc \ MainOnly
  BY ConstantsAssumption DEF Thread, PcOf
<1>2. CASE TakeInput(w)
  <2> DEFINE m == Head(decode)
             l == CASE m.job.kind \in Request \cup {"cancel"} -> "input"
                    [] m.job.kind = "close" -> "ignored"
                    [] OTHER -> m.job.kind
  <2>1. m \in QueuedMsg /\ Tail(decode) \in Seq(QueuedMsg)
    BY <1>2, HeadTailProperties DEF TakeInput, PoolShape
  <2>2. m.conn \in Conn /\ m.job \in Job /\ m.job.kind \in Message \ {"illframed"}
    BY <2>1 DEF QueuedMsg, Job
  <2>3. l \in {"input", "ignored", "undecodable", "garbled", "error"}
    <3> HIDE DEF m
    <3> QED
      BY <2>2 DEF Message, Request
  <2>4. l \in Pc /\ l \notin MainOnly /\ l \notin Away
    BY <2>3 DEF Pc, UsesConn, MainOnly, Away
  <2>5. /\ on' = [on EXCEPT ![w] = m.conn] /\ job' = [job EXCEPT ![w] = m.job]
        /\ pc' = [pc EXCEPT ![w] = l] /\ decode' = Tail(decode)
        /\ UNCHANGED <<clientVars, connVars, recVars, orb, lock, stopping, fault>>
    BY <1>2 DEF TakeInput
  <2> HIDE DEF m, l
  <2>6. ThreadShape'
    BY <1>1, <2>2, <2>4, <2>5, ConstantsAssumption DEF ThreadShape
  <2>7. PoolShape'
    BY <2>1, <2>5 DEF PoolShape
  <2> QED
    BY <2>5, <2>6, <2>7 DEF clientVars, connVars, recVars, ClientShape, ConnShape, RecShape,
       GlobalShape
<1>3. CASE ~TakeInput(w)
  <2>1. pc[w] \notin Away
    BY <1>3 DEF Decode, HandleRequest, CancelRequest, ActiveDeref, AfterActiveDeref, AfterDecode,
       DerefUndecoded, Respond, Invoke, Answer, Pull, Deactivate, Reply, Drop, Erase, OrbCancel,
       At, Away
  <2>2. on[w] \in Conn /\ Mine(w) \in Rec
    <3>1. on[w] \in Conn
      BY <1>1, <2>1, Busy
    <3>2. job[w].n \in 1..MaxMsg
      BY <1>1 DEF ThreadShape, Job
    <3> QED
      BY <3>1, <3>2 DEF Mine, Rec
  <2>3. ThreadShape'
    <3>1. \/ Free(w)
          \/ \E l \in Pc \ (MainOnly \cup Away) : Goto(w, l)
      <4>1. CASE HandleRequest(w) \/ CancelRequest(w) \/ DerefUndecoded(w) \/ Respond(w)
        BY <4>1 DEF HandleRequest, CancelRequest, DerefUndecoded, Respond, Pc, UsesConn, MainOnly,
           Away
      <4>2. CASE Invoke(w) \/ Answer(w) \/ Pull(w) \/ Deactivate(w) \/ Reply(w) \/ Drop(w)
                 \/ Erase(w) \/ OrbCancel(w)
        BY <4>2 DEF Invoke, Answer, Pull, Deactivate, Reply, Drop, Erase, OrbCancel, Pc, UsesRec,
           MainOnly, Away
      <4>3. CASE ActiveDeref(w)
        <5>1. PICK l \in DOMAIN AfterDecode :
                IF AfterDecode[l] = "free" THEN Free(w) ELSE Goto(w, AfterDecode[l])
          BY <4>3 DEF ActiveDeref, AfterActiveDeref
        <5>2. AfterDecode[l] # "free" => AfterDecode[l] \in Pc \ (MainOnly \cup Away)
          BY DEF AfterDecode, Pc, UsesConn, UsesRec, MainOnly, Away
        <5> QED
          BY <5>1, <5>2
      <4> QED
        BY <1>3, <4>1, <4>2, <4>3 DEF Decode
    <3>2. ASSUME NEW l \in Pc \ (MainOnly \cup Away), Goto(w, l) PROVE ThreadShape'
      BY <1>1, <2>1, <3>2, GotoShape
    <3> QED
      BY <1>1, <3>1, <3>2, FreeShape
  <2>4. CASE HandleRequest(w)
    <3>1. ConnShape' /\ RecShape'
      BY <2>2, <2>4 DEF HandleRequest, add_invoke, ConnShape, RecShape
    <3> QED
      BY <2>3, <2>4, <3>1 DEF HandleRequest, clientVars, poolVars, ClientShape, PoolShape,
         GlobalShape
  <2>5. CASE CancelRequest(w)
    <3>1. RecShape'
      BY <2>2, <2>5 DEF CancelRequest, pull_invoke_reqid, RecShape
    <3> QED
      BY <2>3, <2>5, <3>1 DEF CancelRequest, clientVars, connVars, poolVars, ClientShape,
         ConnShape, PoolShape, GlobalShape
  <2>6. CASE ActiveDeref(w)
    <3>1. S!active_deref(state[on[w]]) \in ConnState
      BY <2>2, StateMethods DEF ConnShape
    <3>2. SetState(on[w], S!active_deref(state[on[w]]))
      BY <2>6 DEF ActiveDeref, AfterActiveDeref
    <3>3. state' \in [Conn -> ConnState]
      BY <2>2, <3>1, <3>2, SetStateShape
    <3> QED
      BY <2>3, <2>6, <3>3 DEF ActiveDeref, AfterActiveDeref, clientVars, recVars, poolVars,
         ClientShape, ConnShape, RecShape, PoolShape, GlobalShape
  <2>7. CASE DerefUndecoded(w)
    <3>1. refcnt' \in [Conn -> Nat]
      <4>1. /\ refcnt \in [Conn -> Nat] /\ refcnt[on[w]] > 0
            /\ refcnt' = [refcnt EXCEPT ![on[w]] = @ - 1]
        BY <2>7 DEF DerefUndecoded, DerefOK, ConnShape
      <4>2. refcnt[on[w]] - 1 \in Nat
        BY <2>2, <4>1
      <4> QED
        BY <4>1, <4>2
    <3> QED
      BY <2>3, <2>7, <3>1 DEF DerefUndecoded, clientVars, recVars, poolVars, ClientShape,
         ConnShape, RecShape, PoolShape, GlobalShape
  <2>8. CASE Respond(w)
    <3>1. /\ state' \in [Conn -> ConnState] /\ orb' \in Seq(OrbMsg) /\ selected' \subseteq Conn
      BY <2>2, <2>8, OutputShape DEF Respond
    <3> QED
      BY <2>3, <2>8, <3>1 DEF Respond, clientVars, recVars, ClientShape, ConnShape, RecShape,
         PoolShape, GlobalShape
  <2>9. CASE Reply(w)
    <3>1. /\ state' \in [Conn -> ConnState] /\ orb' \in Seq(OrbMsg) /\ selected' \subseteq Conn
      <4>1. CASE output(on[w])
        BY <2>2, <4>1, OutputShape
      <4>2. CASE UNCHANGED <<selected, state, orb>>
        BY <4>2 DEF ConnShape, PoolShape
      <4> QED
        BY <2>9, <4>1, <4>2 DEF Reply
    <3>2. replied' \subseteq Rec
      BY <2>2, <2>9 DEF Reply, ClientShape
    <3> QED
      BY <2>3, <2>9, <3>1, <3>2 DEF Reply, recVars, ClientShape, ConnShape, RecShape,
         PoolShape, GlobalShape
  <2>10. CASE Drop(w)
    <3>1. /\ refcnt' \in [Conn -> Nat] /\ orb' \in Seq(OrbMsg) /\ slots' \in 0..(CountMod - 1)
      BY <2>2, <2>10, DerefShape DEF Drop
    <3> QED
      BY <2>3, <2>10, <3>1 DEF Drop, clientVars, recVars, ClientShape, ConnShape, RecShape,
         PoolShape, GlobalShape
  <2>11. CASE Invoke(w) \/ Answer(w) \/ Pull(w) \/ Deactivate(w) \/ Erase(w) \/ OrbCancel(w)
    <3>1. RecShape'
      <4>1. CASE Invoke(w) \/ Answer(w) \/ Pull(w)
        BY <2>2, <4>1 DEF Invoke, Answer, Pull, recVars, RecShape
      <4>2. CASE Deactivate(w) \/ Erase(w)
        BY <2>2, <4>2 DEF Deactivate, Erase, RecShape
      <4>3. CASE OrbCancel(w)
        BY <4>3 DEF OrbCancel, Cancelled, RecShape
      <4> QED
        BY <2>11, <4>1, <4>2, <4>3
    <3>2. UNCHANGED <<clientVars, connVars, poolVars, lock, stopping, fault>>
      BY <2>11 DEF Invoke, Answer, Pull, Deactivate, Erase, OrbCancel
    <3> QED
      BY <2>3, <3>1, <3>2 DEF clientVars, connVars, poolVars, ClientShape, ConnShape, PoolShape,
         GlobalShape
  <2> QED
    BY <1>3, <2>4, <2>5, <2>6, <2>7, <2>8, <2>9, <2>10, <2>11 DEF Decode
<1> QED
  BY <1>2, <1>3

\* The threads that close and delete connections keep the shape.
LEMMA TakeShape ==
  ASSUME Shape, NEW o \in OrbWorker, TakeClose(o) \/ TakeKill(o)
  PROVE  Shape'
<1> USE DEF Shape
<1>1. o \in Thread /\ PcOf(o) = KillPc \cup {"free"}
  BY ConstantsAssumption DEF Thread, PcOf
<1>2. Head(orb) \in OrbMsg /\ Tail(orb) \in Seq(OrbMsg) /\ Head(orb).conn \in Conn
  <2>1. orb # <<>> /\ orb \in Seq(OrbMsg)
    BY DEF TakeClose, TakeKill, PoolShape
  <2>2. Head(orb) \in OrbMsg /\ Tail(orb) \in Seq(OrbMsg)
    BY <2>1, HeadTailProperties
  <2> QED
    BY <2>2 DEF OrbMsg
<1>3. CASE TakeClose(o)
  <2>1. "kill" \in Pc /\ "kill" \in KillPc /\ "kill" \notin Away
    BY DEF Pc, UsesConn, KillPc, Away
  <2>2. ThreadShape'
    BY <1>1, <1>2, <1>3, <2>1, ConstantsAssumption DEF TakeClose, ThreadShape
  <2> QED
    BY <1>2, <1>3, <2>2 DEF TakeClose, clientVars, connVars, recVars, ClientShape, ConnShape,
       RecShape, PoolShape, GlobalShape
<1>4. CASE TakeKill(o)
  BY <1>2, <1>4 DEF TakeKill, clientVars, recVars, threadVars, ClientShape, ConnShape, RecShape,
     PoolShape, ThreadShape, GlobalShape
<1> QED
  BY <1>3, <1>4

\* The steps of kill_conn() keep the shape.
LEMMA KillShape ==
  ASSUME Shape, NEW t \in Thread, kill_conn(t)
  PROVE  Shape'
<1> USE DEF Shape
<1>1. pc[t] \in KillPc
  BY DEF kill_conn, KillReturn, Kill, terminate, ShutdownEffective, CloseTransport,
     TerminatedEffective, Abort, KillEnd, At, KillPc
<1>2. on[t] \in Conn /\ pc[t] \notin Away
  BY <1>1, Busy DEF KillPc, Away
<1>3. /\ \A l \in {"shutdown", "closing", "terminate"} : l \in PcOf(t) /\ l \notin Away
      /\ t # Main => "abort" \in PcOf(t) /\ "abort" \notin Away
  BY ConstantsAssumption DEF PcOf, KillPc, MainOnly, Pc, UsesConn, Away, Thread
<1>4. CASE KillReturn(t) \/ Abort(t)
  <2>1. ThreadShape'
    BY <1>4, FreeShape DEF KillReturn, Abort, threadVars, ThreadShape
  <2>2. RecShape'
    BY <1>4 DEF KillReturn, Abort, recVars, RecShape, Cancelled
  <2>3. UNCHANGED <<clientVars, connVars, poolVars, lock, stopping, fault>>
    BY <1>4 DEF KillReturn, Abort
  <2> QED
    BY <2>1, <2>2, <2>3 DEF clientVars, connVars, poolVars, ClientShape, ConnShape, PoolShape,
       GlobalShape
<1>5. CASE Kill(t)
  <2>1. ThreadShape'
    BY <1>2, <1>3, <1>5, FreeShape, GotoShape DEF Kill
  <2>2. S!BeginChange(state[on[t]], S!Shutdown) \in ConnState
    BY <1>2, StateMethods DEF ConnShape, S!Shutdown
  <2>3. state' \in [Conn -> ConnState] /\ conns' \subseteq Conn /\ lock' \in Thread \cup {Nobody}
    <3>1. CASE SetState(on[t], S!BeginChange(state[on[t]], S!Shutdown))
      BY <1>2, <1>5, <2>2, <3>1, SetStateShape DEF Kill, ConnShape, GlobalShape
    <3>2. CASE UNCHANGED <<lock, conns, state>>
      BY <3>2 DEF ConnShape, GlobalShape
    <3> QED
      BY <1>5, <3>1, <3>2 DEF Kill
  <2> QED
    BY <1>5, <2>1, <2>3 DEF Kill, clientVars, recVars, poolVars, ClientShape, ConnShape, RecShape,
       PoolShape, GlobalShape
<1>6. CASE terminate(t)
  <2>1. /\ S!EndChange(state[on[t]]) \in ConnState
        /\ S!BeginChange(state[on[t]], S!Terminated) \in ConnState
    BY <1>2, StateMethods DEF ConnShape, S!Terminated
  <2>2. ThreadShape'
    BY <1>2, <1>3, <1>6, FreeShape, GotoShape DEF terminate, ShutdownEffective, CloseTransport,
       TerminatedEffective
  <2>3. state' \in [Conn -> ConnState]
    BY <1>2, <1>6, <2>1, SetStateShape DEF terminate, ShutdownEffective, CloseTransport,
       TerminatedEffective
  <2>4. selected' \subseteq Conn
    BY <1>6 DEF terminate, ShutdownEffective, CloseTransport, TerminatedEffective, ConnShape
  <2>5. UNCHANGED <<clientVars, life, held, refcnt, conns, slots, recVars, poolVars, lock,
                    stopping, fault>>
    BY <1>6 DEF terminate, ShutdownEffective, CloseTransport, TerminatedEffective
  <2> QED
    BY <2>2, <2>3, <2>4, <2>5 DEF clientVars, recVars, poolVars, ClientShape, ConnShape, RecShape,
       PoolShape, GlobalShape
<1>7. CASE KillEnd(t)
  <2>1. /\ refcnt' \in [Conn -> Nat] /\ orb' \in Seq(OrbMsg) /\ slots' \in 0..(CountMod - 1)
    BY <1>2, <1>7, DerefShape DEF KillEnd
  <2>2. ThreadShape'
    BY <1>7, FreeShape DEF KillEnd
  <2> QED
    BY <1>7, <2>1, <2>2 DEF KillEnd, clientVars, recVars, ClientShape, ConnShape, RecShape,
       PoolShape, GlobalShape
<1> QED
  BY <1>4, <1>5, <1>6, <1>7 DEF kill_conn

\* shutdown() keeps the shape.
LEMMA ShutdownShape ==
  ASSUME Shape, shutdown \/ ShutdownBegin
  PROVE  Shape'
<1> USE DEF Shape
<1>1. /\ Main \in Thread
      /\ \A l \in MainOnly \cup {"free", "shutdown", "closing", "terminate"} : l \in PcOf(Main)
  BY DEF Thread, PcOf
<1>2. CASE ShutdownBegin
  BY <1>2 DEF ShutdownBegin, clientVars, connVars, recVars, poolVars, threadVars, ClientShape,
     ConnShape, RecShape, PoolShape, ThreadShape, GlobalShape
<1>3. CASE \E c \in Conn : ConnClosed(c)
  <2>1. PICK c \in Conn : ConnClosed(c)
    BY <1>3
  <2>2. /\ state' \in [Conn -> ConnState] /\ orb' \in Seq(OrbMsg) /\ selected' \subseteq Conn
    BY <2>1, OutputShape DEF ConnClosed
  <2>3. "bye" \in Pc /\ "bye" \notin Away /\ "bye" \in PcOf(Main)
    BY <1>1 DEF Pc, UsesConn, Away, MainOnly
  <2>4. ThreadShape'
    BY <1>1, <2>1, <2>3, ConstantsAssumption DEF ConnClosed, ThreadShape
  <2> QED
    BY <2>1, <2>2, <2>4 DEF ConnClosed, clientVars, recVars, ClientShape, ConnShape, RecShape,
       PoolShape, GlobalShape
<1>4. CASE Bye
  <2>1. on[Main] \in Conn /\ pc[Main] \notin Away
    BY <1>1, <1>4, Busy DEF Bye, At, Away
  <2>2. S!BeginChange(state[on[Main]], S!Shutdown) \in ConnState
    BY <2>1, StateMethods DEF ConnShape, S!Shutdown
  <2>3. ThreadShape'
    <3>1. "shutdown" \notin Away
      BY DEF Away
    <3> QED
      BY <1>1, <1>4, <2>1, <3>1, FreeShape, GotoShape DEF Bye
  <2>4. state' \in [Conn -> ConnState]
    BY <1>4, <2>1, <2>2, SetStateShape DEF Bye, ConnShape
  <2> QED
    BY <1>4, <2>3, <2>4 DEF Bye, clientVars, recVars, poolVars, ClientShape, ConnShape, RecShape,
       PoolShape, GlobalShape
<1>5. CASE terminate(Main)
  BY <1>1, <1>5, KillShape DEF kill_conn
<1>6. CASE ShutdownEnd
  <2>1. ThreadShape'
    BY <1>1, <1>6, GotoShape DEF ShutdownEnd, Away, MainOnly
  <2>2. RecShape'
    BY <1>6 DEF ShutdownEnd, RecShape
  <2> QED
    BY <1>6, <2>1, <2>2 DEF ShutdownEnd, clientVars, connVars, poolVars, ClientShape, ConnShape,
       PoolShape, GlobalShape
<1> QED
  BY <1>2, <1>3, <1>4, <1>5, <1>6 DEF shutdown

\* Every step keeps the shape.
LEMMA NextShape == Shape /\ [Next]_vars => Shape'
<1> SUFFICES ASSUME Shape, [Next]_vars PROVE Shape'
  OBVIOUS
<1>1. CASE UNCHANGED vars
  BY <1>1 DEF vars, clientVars, connVars, recVars, poolVars, threadVars, Shape, ClientShape,
     ConnShape, RecShape, PoolShape, ThreadShape, GlobalShape
<1>2. CASE \E c \in Conn : Send(c) \/ Hangup(c) \/ Accept(c)
  BY <1>2, ClientsShape
<1>3. CASE Read \/ ShutdownBegin \/ shutdown
  BY <1>3, ReadShape, ShutdownShape
<1>4. CASE \E w \in Worker : Decode(w) \/ kill_conn(w)
  BY <1>4, DecodeShape, KillShape DEF Thread
<1>5. CASE \E o \in OrbWorker : TakeClose(o) \/ TakeKill(o) \/ kill_conn(o)
  BY <1>5, TakeShape, KillShape DEF Thread
<1>6. CASE \E t \in Thread : Fail(t)
  BY <1>6 DEF Fail, clientVars, connVars, recVars, poolVars, threadVars, Shape, ClientShape,
     ConnShape, RecShape, PoolShape, ThreadShape, GlobalShape
<1> QED
  BY <1>1, <1>2, <1>3, <1>4, <1>5, <1>6 DEF Next

-----------------------------------------------------------------------------
(***************************************************************************)
(* The active references.                                                  *)
(***************************************************************************)
Decodes == DOMAIN AfterDecode \cup {"input"}
For(c) == {m \in QueuedMsg : m.conn = c}
Inputs(c) == {w \in Worker : on[w] = c /\ pc[w] = "input"}
\* the message the main thread has read and not handed over
Reads(c) == IF pc[Main] = "read" /\ on[Main] = c THEN 1 ELSE 0

\* A message that was read has at most one active reference, and at most one
\* reference of its record, which it takes when it has been queued.
Counted(c) ==
  /\ state[c].active = CountIn(decode, For(c)) + Cardinality(Decoding(c))
  /\ state[c].active + Reads(c) <= arrived[c]
  /\ refcnt[c] + CountIn(decode, For(c)) + Cardinality(Inputs(c)) + Reads(c) <= arrived[c] + 1
  /\ life[c] = "none" => arrived[c] = 0

Counts == \A c \in Conn : Counted(c)

\* What Goto changes, thread by thread.
LEMMA GotoEffect ==
  ASSUME ThreadShape, NEW t \in Thread, NEW l, Goto(t, l)
  PROVE  \A u \in Thread : /\ pc'[u] = IF u = t THEN l ELSE pc[u]
                           /\ on'[u] = on[u] /\ job'[u] = job[u]
BY DEF ThreadShape, Goto

\* What Free changes, thread by thread.
LEMMA FreeEffect ==
  ASSUME ThreadShape, NEW t \in Thread, Free(t)
  PROVE  \A u \in Thread : /\ pc'[u] = IF u = t THEN "free" ELSE pc[u]
                           /\ on'[u] = IF u = t THEN NoConn ELSE on[u]
                           /\ job'[u] = IF u = t THEN NoJob ELSE job[u]
BY DEF ThreadShape, Free

\* the numbers are numbers
LEMMA CountTypes ==
  ASSUME Shape, NEW c \in Conn
  PROVE  /\ CountIn(decode, For(c)) \in Nat
         /\ IsFiniteSet(Decoding(c)) /\ Cardinality(Decoding(c)) \in Nat
         /\ IsFiniteSet(Inputs(c)) /\ Cardinality(Inputs(c)) \in Nat
         /\ Cardinality(Inputs(c)) <= Cardinality(Decoding(c))
         /\ Reads(c) \in Nat /\ refcnt[c] \in Nat /\ arrived[c] \in Nat
         /\ state[c] \in ConnState /\ state[c].active \in Int
<1>1. CountIn(decode, For(c)) \in Nat
  BY NoneCount DEF Shape, PoolShape
<1>2. IsFiniteSet(Decoding(c))
  BY ConstantsAssumption, FS_Subset, Decoding(c) \in SUBSET Worker DEF Decoding
<1>3. Inputs(c) \in SUBSET Decoding(c)
  BY DEF Inputs, Decoding
<1>4. /\ IsFiniteSet(Inputs(c)) /\ Cardinality(Inputs(c)) <= Cardinality(Decoding(c))
  BY <1>2, <1>3, FS_Subset
<1>5. Cardinality(Decoding(c)) \in Nat /\ Cardinality(Inputs(c)) \in Nat
  BY <1>2, <1>4, FS_CardinalityType
<1>6. state[c] \in ConnState /\ state[c].active \in Int
  BY DEF Shape, ConnShape, ConnState
<1>7. Reads(c) \in Nat /\ refcnt[c] \in Nat /\ arrived[c] \in Nat
  BY DEF Reads, Shape, ConnShape, ClientShape
<1> QED
  BY <1>1, <1>2, <1>4, <1>5, <1>6, <1>7

\* A step that is not about a message on its way to be decoded.
LEMMA StillCounts ==
  ASSUME Shape, Counts, decode' = decode, arrived' = arrived, refcnt' \in [Conn -> Nat],
         \A c \in Conn : /\ state'[c].active = state[c].active /\ refcnt'[c] <= refcnt[c]
                         /\ Reads(c)' <= Reads(c) /\ Reads(c)' \in Nat
                         /\ life'[c] = "none" => life[c] = "none",
         \A w \in Worker : \/ pc'[w] = pc[w] /\ on'[w] = on[w]
                           \/ pc'[w] \notin Decodes /\ pc[w] \notin Decodes
  PROVE  Counts'
<1> SUFFICES ASSUME NEW c \in Conn PROVE Counted(c)'
  BY DEF Counts
<1>1. Decoding(c)' = Decoding(c) /\ Inputs(c)' = Inputs(c)
  BY DEF Decoding, Inputs, Decodes
<1>2. Counted(c)
  BY DEF Counts
<1>3. refcnt'[c] \in Nat
  OBVIOUS
<1> QED
  BY <1>1, <1>2, <1>3, CountTypes DEF Counted

\* The same when one thread moves.
LEMMA MoveCounts ==
  ASSUME Shape, Counts, decode' = decode, arrived' = arrived, refcnt' \in [Conn -> Nat],
         \A c \in Conn : /\ state'[c].active = state[c].active /\ refcnt'[c] <= refcnt[c]
                         /\ life'[c] = "none" => life[c] = "none",
         NEW t \in Thread,
         \A u \in Thread : u # t => pc'[u] = pc[u] /\ on'[u] = on[u],
         t \in Worker => pc[t] \notin Decodes /\ pc'[t] \notin Decodes,
         t = Main => pc'[Main] # "read"
  PROVE  Counts'
<1>1. \A w \in Worker : \/ pc'[w] = pc[w] /\ on'[w] = on[w]
                        \/ pc'[w] \notin Decodes /\ pc[w] \notin Decodes
  BY DEF Thread
<1>2. \A c \in Conn : Reads(c)' <= Reads(c) /\ Reads(c)' \in Nat
  BY DEF Reads, Thread
<1> QED
  BY <1>1, <1>2, StillCounts

\* The main thread: a message is read, then handed over.
LEMMA ReadCounts ==
  ASSUME Shape, Shape', Counts, Read
  PROVE  Counts'
<1> USE DEF Shape
<1>1. Main \in Thread /\ Main \notin Worker
  BY ConstantsAssumption DEF Thread
<1>2. CASE \E c \in Conn : Select(c)
  <2>1. \A u \in Thread : u # Main => pc'[u] = pc[u] /\ on'[u] = on[u]
    BY <1>1, <1>2 DEF Select, ThreadShape
  <2>2. pc'[Main] # "read"
    BY <1>1, <1>2 DEF Select, ThreadShape
  <2>3. UNCHANGED <<decode, arrived, state, refcnt, life>>
    BY <1>2 DEF Select, clientVars, connVars, poolVars
  <2>4. \A c \in Conn : refcnt'[c] <= refcnt[c]
    BY <2>3 DEF ConnShape
  <2> QED
    BY <1>1, <2>1, <2>2, <2>3, <2>4, MoveCounts DEF ConnShape
<1>3. CASE ReadMessage
  <2> DEFINE c == on[Main]
  <2>1. /\ c \in Conn /\ life[c] = "open" /\ pc[Main] = "reading"
        /\ arrived' = [arrived EXCEPT ![c] = @ + 1] /\ pc' = [pc EXCEPT ![Main] = "read"]
        /\ UNCHANGED <<decode, on, state, refcnt, life>>
    BY <1>1, <1>3, Busy DEF ReadMessage, At, Away, UsesConn, poolVars
  <2>2. \A w \in Worker : pc'[w] = pc[w]
    BY <1>1, <2>1 DEF ThreadShape, Thread
  <2> SUFFICES ASSUME NEW d \in Conn PROVE Counted(d)'
    BY DEF Counts
  <2>3. /\ Counted(d) /\ Decoding(d)' = Decoding(d) /\ Inputs(d)' = Inputs(d)
        /\ CountIn(decode, For(d))' = CountIn(decode, For(d))
    BY <2>1, <2>2 DEF Counts, Decoding, Inputs, CountIn, For
  <2>4. arrived'[d] + Reads(d) = arrived[d] + Reads(d)' /\ Reads(d)' \in Nat
    BY <1>1, <2>1 DEF Reads, ClientShape, ThreadShape
  <2>5. life'[d] = "none" => d # c
    BY <2>1
  <2>6. d # c => arrived'[d] = arrived[d]
    BY <2>1 DEF ClientShape
  <2> QED
    <3>1. arrived'[d] \in Nat
      BY DEF ClientShape
    <3>2. state' = state /\ refcnt' = refcnt /\ life' = life
      BY <2>1
    <3> HIDE DEF c
    <3> QED
      BY <2>3, <2>4, <2>5, <2>6, <3>1, <3>2, CountTypes DEF Counted
<1>4. CASE input_ready
  <2> DEFINE c == on[Main]
             m == [conn |-> c, job |-> job[Main]]
  <2>1. /\ c \in Conn /\ pc[Main] = "read"
        /\ UNCHANGED <<arrived, refcnt, life>>
    BY <1>1, <1>4, Busy DEF input_ready, At, Away, clientVars
  <2>2. Free(Main) \/ Goto(Main, "reading")
    BY <1>4 DEF input_ready
  <2>3. /\ \A u \in Thread : u # Main => pc'[u] = pc[u] /\ on'[u] = on[u]
        /\ pc'[Main] # "read"
    BY <1>1, <2>2, GotoEffect, FreeEffect
  <2>4. CASE S!ActiveRefOK(state[c])
    <3>1. /\ SetState(c, S!active_ref(state[c])) /\ decode' = Append(decode, m)
      BY <1>4, <2>4 DEF input_ready
    <3>2. m \in QueuedMsg
      <4>1. job[Main] \in Job /\ job[Main].kind # "illframed"
        BY <1>1, <1>4 DEF input_ready, ThreadShape
      <4> QED
        BY <2>1, <4>1 DEF QueuedMsg
    <3>3. /\ state'[c].active = state[c].active + 1
          /\ \A d \in Conn : d # c => state'[d] = state[d]
      <4>1. state[c] \in ConnState /\ state[c].active \in Int
        BY <2>1 DEF ConnShape, ConnState
      <4>2. /\ S!active_ref(state[c]) \in ConnState
            /\ S!active_ref(state[c]).active = state[c].active + 1
        BY <4>1, StateMethods
      <4> HIDE DEF c
      <4> QED
        BY <2>1, <3>1, <4>2, SetStateShape
    <3> SUFFICES ASSUME NEW d \in Conn PROVE Counted(d)'
      BY DEF Counts
    <3>4. /\ Counted(d) /\ Decoding(d)' = Decoding(d) /\ Inputs(d)' = Inputs(d)
      BY <1>1, <2>3 DEF Counts, Decoding, Inputs, Thread
    <3>5. CountIn(decode', For(d)) = CountIn(decode, For(d)) + (IF d = c THEN 1 ELSE 0)
      <4>1. m \in For(d) <=> d = c
        BY <3>2 DEF For
      <4> HIDE DEF m
      <4> QED
        BY <3>1, <3>2, <4>1, AppendCount DEF PoolShape
    <3>6. Reads(d)' + (IF d = c THEN 1 ELSE 0) = Reads(d) /\ Reads(d)' = 0
      BY <2>1, <2>3 DEF Reads
    <3>7. CountIn(decode, For(d))' = CountIn(decode', For(d))
      BY DEF CountIn, For
    <3>8. CASE d = c
      <4> HIDE DEF c
      <4> QED
        BY <2>1, <3>3, <3>4, <3>5, <3>6, <3>7, <3>8, CountTypes DEF Counted
    <3>9. CASE d # c
      <4> HIDE DEF c
      <4> QED
        BY <2>1, <3>3, <3>4, <3>5, <3>6, <3>7, <3>9, CountTypes DEF Counted
    <3> QED
      BY <3>8, <3>9
  <2>5. CASE ~S!ActiveRefOK(state[c])
    <3>1. UNCHANGED <<decode, state>>
      BY <1>4, <2>5 DEF input_ready
    <3>2. \A d \in Conn : refcnt'[d] <= refcnt[d]
      BY <2>1 DEF ConnShape
    <3> QED
      BY <1>1, <2>1, <2>3, <3>1, <3>2, MoveCounts DEF ConnShape
  <2> QED
    BY <2>4, <2>5
<1>5. CASE ReadError \/ ReadEnd
  <2> DEFINE c == on[Main]
  <2>1. c \in Conn
    BY <1>1, <1>5, Busy DEF ReadError, ReadEnd, At, Away
  <2>2. \A d \in Conn : state'[d].active = state[d].active
    <3>1. close_connection(c) \/ state' = state
      BY <1>5 DEF ReadError, ReadEnd
    <3> QED
      BY <2>1, <3>1, CloseShape
  <2>3. Free(Main) /\ UNCHANGED <<decode, arrived, refcnt, life>>
    BY <1>5 DEF ReadError, ReadEnd, clientVars
  <2>4. /\ \A u \in Thread : u # Main => pc'[u] = pc[u] /\ on'[u] = on[u]
        /\ pc'[Main] # "read"
    BY <1>1, <2>3, FreeEffect
  <2>5. \A d \in Conn : refcnt'[d] <= refcnt[d]
    BY <2>3 DEF ConnShape
  <2> QED
    BY <1>1, <2>2, <2>3, <2>4, <2>5, MoveCounts DEF ConnShape
<1> QED
  BY <1>2, <1>3, <1>4, <1>5 DEF Read

\* A new connection has its own reference, and no message yet.
LEMMA ClientsCounts ==
  ASSUME Shape, Shape', Counts, NEW c \in Conn, Send(c) \/ Hangup(c) \/ Accept(c)
  PROVE  Counts'
<1> USE DEF Shape
<1>1. CASE Send(c) \/ Hangup(c)
  <2>1. UNCHANGED <<decode, arrived, refcnt, state, life, pc, on>>
    BY <1>1 DEF Send, Hangup, connVars, poolVars, threadVars
  <2>2. \A d \in Conn : refcnt'[d] <= refcnt[d] /\ Reads(d)' <= Reads(d) /\ Reads(d)' \in Nat
    BY <2>1 DEF Reads, ConnShape
  <2> QED
    BY <2>1, <2>2, StillCounts DEF ConnShape
<1>2. CASE Accept(c)
  <2>1. /\ life[c] = "none" /\ life' = [life EXCEPT ![c] = "open"]
        /\ refcnt' = [refcnt EXCEPT ![c] = 1]
        /\ SetState(c, S!EndChange(S!BeginChange(state[c], S!Active)))
        /\ UNCHANGED <<decode, arrived, pc, on>>
    BY <1>2 DEF Accept, GIOPConn, start, clientVars, poolVars, threadVars
  <2>2. \A d \in Conn : state'[d].active = state[d].active
    <3>1. /\ S!BeginChange(state[c], S!Active) \in ConnState
          /\ S!BeginChange(state[c], S!Active).active = state[c].active
      BY StateMethods DEF ConnShape, S!Active
    <3>2. /\ S!EndChange(S!BeginChange(state[c], S!Active)) \in ConnState
          /\ S!EndChange(S!BeginChange(state[c], S!Active)).active = state[c].active
      BY <3>1, StateMethods
    <3> QED
      BY <2>1, <3>2, SetStateShape
  <2> SUFFICES ASSUME NEW d \in Conn PROVE Counted(d)'
    BY DEF Counts
  <2>3. /\ Counted(d) /\ Decoding(d)' = Decoding(d) /\ Inputs(d)' = Inputs(d)
        /\ CountIn(decode, For(d))' = CountIn(decode, For(d)) /\ Reads(d)' = Reads(d)
    BY <2>1 DEF Counts, Decoding, Inputs, CountIn, For, Reads
  <2>4. d # c => refcnt'[d] = refcnt[d] /\ life'[d] = life[d]
    BY <2>1 DEF ConnShape
  <2>5. d = c => refcnt'[d] = 1 /\ life'[d] = "open" /\ arrived[d] = 0
    BY <2>1, <2>3 DEF ConnShape, Counted
  <2> QED
    BY <2>1, <2>2, <2>3, <2>4, <2>5, CountTypes DEF Counted
<1> QED
  BY <1>1, <1>2

\* The workers: a message that is taken keeps its reference until active_deref().
LEMMA DecodeCounts ==
  ASSUME Shape, Shape', Counts, NEW w \in Worker, Decode(w)
  PROVE  Counts'
<1> USE DEF Shape
<1>1. w \in Thread /\ w # Main
  BY ConstantsAssumption DEF Thread
<1>2. CASE TakeInput(w)
  <2> DEFINE m == Head(decode)
  <2>1. /\ pc[w] = "free" /\ decode # <<>> /\ m \in QueuedMsg /\ decode' = Tail(decode)
        /\ on' = [on EXCEPT ![w] = m.conn]
        /\ \A u \in Thread : u # w => pc'[u] = pc[u]
        /\ UNCHANGED <<arrived, state, refcnt, life>>
    BY <1>2, HeadTailProperties DEF TakeInput, PoolShape, ThreadShape, clientVars, connVars
  <2>2. m.job.kind \in Message \ {"illframed"} /\ pc'[w] \in Decodes
    <3>1. m.job.kind \in Message \ {"illframed"}
      BY <2>1 DEF QueuedMsg, Job
    <3>2. pc'[w] = CASE m.job.kind \in Request \cup {"cancel"} -> "input"
                     [] m.job.kind = "close" -> "ignored"
                     [] OTHER -> m.job.kind
      BY <1>1, <1>2 DEF TakeInput, ThreadShape
    <3> HIDE DEF m
    <3> QED
      BY <3>1, <3>2 DEF Message, Request, Decodes, AfterDecode
  <2>3. "free" \notin Decodes
    BY DEF Decodes, AfterDecode
  <2> SUFFICES ASSUME NEW d \in Conn PROVE Counted(d)'
    BY DEF Counts
  <2>4. Counted(d) /\ Reads(d)' = Reads(d)
    BY <1>1, <2>1 DEF Counts, Reads, ThreadShape, Thread
  <2>5. on'[w] = m.conn /\ \A u \in Worker : u # w => on'[u] = on[u]
    BY <1>1, <2>1 DEF ThreadShape, Thread
  <2> DEFINE n == IF d = m.conn THEN 1 ELSE 0
  <2>6. Cardinality(Decoding(d)') = Cardinality(Decoding(d)) + n
    <3>1. Decoding(d)' = IF d = m.conn THEN Decoding(d) \cup {w} ELSE Decoding(d)
      BY <1>1, <2>1, <2>2, <2>3, <2>5 DEF Decoding, Decodes, Thread
    <3>2. w \notin Decoding(d)
      BY <2>1, <2>3 DEF Decoding, Decodes
    <3>3. IsFiniteSet(Decoding(d)) /\ Cardinality(Decoding(d)) \in Nat
      BY CountTypes
    <3>4. Cardinality(Decoding(d) \cup {w}) = Cardinality(Decoding(d)) + 1
      BY <3>2, <3>3, FS_AddElement
    <3> QED
      BY <3>1, <3>3, <3>4
  <2>7. Cardinality(Inputs(d)') <= Cardinality(Inputs(d)) + n
    <3>1. Inputs(d)' \in SUBSET (IF d = m.conn THEN Inputs(d) \cup {w} ELSE Inputs(d))
      BY <2>1, <2>5 DEF Inputs, Thread
    <3>2. /\ IsFiniteSet(Inputs(d) \cup {w})
          /\ Cardinality(Inputs(d) \cup {w}) <= Cardinality(Inputs(d)) + 1
      <4>1. IsFiniteSet(Inputs(d)) /\ Cardinality(Inputs(d)) \in Nat
        BY CountTypes
      <4> QED
        BY <4>1, FS_AddElement
    <3> HIDE DEF m
    <3> DEFINE A == Inputs(d)
               B == Inputs(d)'
    <3>5. IsFiniteSet(A) /\ Cardinality(A) \in Nat
      BY CountTypes
    <3> HIDE DEF A, B
    <3>3. CASE d = m.conn
      <4>1. Cardinality(B) <= Cardinality(A \cup {w})
        BY <3>1, <3>2, <3>3, FS_Subset DEF A, B
      <4>2. Cardinality(B) \in Nat
        BY <3>1, <3>2, <3>3, FS_Subset, FS_CardinalityType DEF A, B
      <4>3. Cardinality(A \cup {w}) <= Cardinality(A) + 1 /\ Cardinality(A \cup {w}) \in Nat
        BY <3>2, FS_CardinalityType DEF A
      <4>4. n = 1
        BY <3>3
      <4> HIDE DEF n
      <4>5. Cardinality(B) <= Cardinality(A) + n
        BY <3>5, <4>1, <4>2, <4>3, <4>4
      <4> QED
        BY <4>5 DEF A, B
    <3>4. CASE d # m.conn
      <4>1. Cardinality(B) <= Cardinality(A)
        BY <3>1, <3>4, <3>5, FS_Subset DEF A, B
      <4>2. n = 0
        BY <3>4
      <4> QED
        BY <3>5, <4>1, <4>2 DEF A, B
    <3> QED
      BY <3>3, <3>4
  <2>8. CountIn(decode, For(d)) = CountIn(decode', For(d)) + n /\ CountIn(decode', For(d)) \in Nat
    <3>1. m \in For(d) <=> d = m.conn
      BY <2>1 DEF For
    <3> QED
      BY <2>1, <3>1, TailCount DEF PoolShape
  <2>9. CountIn(decode, For(d))' = CountIn(decode', For(d))
    BY DEF CountIn, For
  <2>10. Cardinality(Inputs(d)') \in Nat /\ n \in Nat
    <3>1. Inputs(d)' \in SUBSET Worker
      BY DEF Inputs
    <3> QED
      BY <3>1, FS_Subset, FS_CardinalityType, ConstantsAssumption
  <2>11. state'[d] = state[d] /\ arrived'[d] = arrived[d] /\ refcnt'[d] = refcnt[d] /\ life'[d] = life[d]
    BY <2>1
  <2> HIDE DEF m, n
  <2>12. /\ Cardinality(Decoding(d))' = Cardinality(Decoding(d)')
         /\ Cardinality(Inputs(d))' = Cardinality(Inputs(d)')
    OBVIOUS
  <2> QED
    BY <2>4, <2>6, <2>7, <2>8, <2>9, <2>10, <2>11, <2>12, CountTypes DEF Counted
<1>3. CASE HandleRequest(w) \/ CancelRequest(w)
  <2> DEFINE c == on[w]
             l == IF HandleRequest(w) THEN "decoded"
                  ELSE IF orbids[Mine(w)] = "active" THEN "cancelled" ELSE "ignored"
  <2>1. /\ pc[w] = "input" /\ c \in Conn /\ Goto(w, l)
        /\ UNCHANGED <<arrived, decode, state, life>>
    <3>1. pc[w] = "input" /\ UNCHANGED <<arrived, decode, state, life>>
      BY <1>3 DEF HandleRequest, CancelRequest, At, clientVars, connVars, poolVars
    <3>2. Goto(w, l)
      BY <1>3 DEF HandleRequest, CancelRequest
    <3> QED
      BY <1>1, <3>1, <3>2, Busy DEF Away
  <2>2. l \in Decodes /\ l # "input"
    BY DEF Decodes, AfterDecode
  <2> HIDE DEF l
  <2>3. \A u \in Thread : pc'[u] = (IF u = w THEN l ELSE pc[u]) /\ on'[u] = on[u]
    BY <1>1, <2>1, GotoEffect
  <2> SUFFICES ASSUME NEW d \in Conn PROVE Counted(d)'
    BY DEF Counts
  <2> DEFINE n == IF d = c THEN 1 ELSE 0
  <2>4. /\ Counted(d) /\ Decoding(d)' = Decoding(d) /\ Reads(d)' = Reads(d)
        /\ CountIn(decode, For(d))' = CountIn(decode, For(d))
    BY <1>1, <2>1, <2>2, <2>3 DEF Counts, Decoding, Decodes, Reads, Thread, CountIn, For
  <2>5. Cardinality(Inputs(d)') + n = Cardinality(Inputs(d)) /\ Cardinality(Inputs(d)') \in Nat
    <3>1. Inputs(d)' = Inputs(d) \ {w} /\ (w \in Inputs(d) <=> d = c)
      BY <2>1, <2>2, <2>3 DEF Inputs, Thread
    <3>2. IsFiniteSet(Inputs(d)')
      BY <3>1, CountTypes, FS_RemoveElement
    <3> HIDE DEF c
    <3> QED
      BY <3>1, <3>2, CountTypes, FS_RemoveElement, FS_CardinalityType
  <2>6. refcnt'[d] <= refcnt[d] + n /\ refcnt'[d] \in Nat
    <3>1. refcnt' = refcnt \/ refcnt' = [refcnt EXCEPT ![c] = @ + 1]
      BY <1>3 DEF HandleRequest, CancelRequest, connVars
    <3> QED
      BY <2>1, <3>1 DEF ConnShape
  <2>7. Cardinality(Decoding(d))' = Cardinality(Decoding(d)) /\ n \in Nat
    BY <2>4
  <2> HIDE DEF n, c
  <2> QED
    BY <2>1, <2>4, <2>5, <2>6, <2>7, CountTypes DEF Counted
<1>4. CASE ActiveDeref(w)
  <2> DEFINE c == on[w]
  <2>1. PICK l \in DOMAIN AfterDecode : AfterActiveDeref(w, l, S!active_deref(state[on[w]]))
    BY <1>4 DEF ActiveDeref
  <2>2. /\ pc[w] = l /\ SetState(c, S!active_deref(state[c]))
        /\ Free(w) \/ Goto(w, AfterDecode[l])
        /\ UNCHANGED <<arrived, decode, refcnt, life>>
    BY <2>1 DEF AfterActiveDeref, At, clientVars, poolVars
  <2>3. /\ l \in Decodes /\ l \notin Away /\ l # "input"
        /\ AfterDecode[l] \notin Decodes /\ "free" \notin Decodes
    BY DEF Decodes, AfterDecode, Away
  <2>4. c \in Conn
    BY <1>1, <2>2, <2>3, Busy
  <2>5. /\ \A u \in Thread : u # w => pc'[u] = pc[u] /\ on'[u] = on[u]
        /\ pc'[w] \notin Decodes
    BY <1>1, <2>2, <2>3, GotoEffect, FreeEffect
  <2>6. /\ state'[c].active = state[c].active - 1
        /\ \A d \in Conn : d # c => state'[d] = state[d]
    BY <2>2, <2>4, StateMethods, SetStateShape DEF ConnShape
  <2> SUFFICES ASSUME NEW d \in Conn PROVE Counted(d)'
    BY DEF Counts
  <2> DEFINE n == IF d = c THEN 1 ELSE 0
  <2>7. /\ Counted(d) /\ Inputs(d)' = Inputs(d) /\ Reads(d)' = Reads(d)
        /\ CountIn(decode, For(d))' = CountIn(decode, For(d))
    BY <1>1, <2>2, <2>3, <2>5 DEF Counts, Inputs, Decodes, Reads, Thread, CountIn, For
  <2>8. Cardinality(Decoding(d)') + n = Cardinality(Decoding(d))
        /\ Cardinality(Decoding(d)') \in Nat
    <3>1. Decoding(d)' = Decoding(d) \ {w} /\ (w \in Decoding(d) <=> d = c)
      BY <2>2, <2>3, <2>5 DEF Decoding, Decodes, Thread
    <3>2. IsFiniteSet(Decoding(d)')
      BY <3>1, CountTypes, FS_RemoveElement
    <3> HIDE DEF c
    <3> QED
      BY <3>1, <3>2, CountTypes, FS_RemoveElement, FS_CardinalityType
  <2>9. state'[d].active + n = state[d].active /\ refcnt'[d] = refcnt[d] /\ n \in Nat
    BY <2>2, <2>4, <2>6, CountTypes
  <2>10. /\ Cardinality(Decoding(d))' = Cardinality(Decoding(d)')
         /\ arrived'[d] = arrived[d] /\ life'[d] = life[d]
    BY <2>2
  <2>11. state'[d].active \in Int
    BY CountTypes, <2>9 DEF ConnShape, ConnState
  <2> HIDE DEF n, c
  <2> QED
    BY <2>7, <2>8, <2>9, <2>10, <2>11, CountTypes DEF Counted
<1>5. CASE \/ DerefUndecoded(w) \/ Respond(w) \/ Invoke(w) \/ Answer(w) \/ Pull(w)
           \/ Deactivate(w) \/ Reply(w) \/ Drop(w) \/ Erase(w) \/ OrbCancel(w)
  <2> DEFINE L == Pc \ (Decodes \cup Away)
  <2>1. UNCHANGED <<decode, arrived, life>>
    BY <1>5 DEF DerefUndecoded, Respond, Invoke, Answer, Pull, Deactivate, Reply, Drop, Erase,
       OrbCancel, clientVars, connVars, poolVars
  <2>2. pc[w] \in L
    BY <1>5 DEF DerefUndecoded, Respond, Invoke, Answer, Pull, Deactivate, Reply, Drop, Erase,
       OrbCancel, At, Pc, UsesConn, UsesRec, Decodes, AfterDecode, Away
  <2>3. Free(w) \/ \E l \in L : Goto(w, l)
    BY <1>5 DEF DerefUndecoded, Respond, Invoke, Answer, Pull, Deactivate, Reply, Drop, Erase,
       OrbCancel, Pc, UsesConn, UsesRec, Decodes, AfterDecode, Away
  <2>4. "free" \notin Decodes
    BY DEF Decodes, AfterDecode
  <2>5. /\ \A u \in Thread : u # w => pc'[u] = pc[u] /\ on'[u] = on[u]
        /\ pc'[w] \notin Decodes
    BY <1>1, <2>3, <2>4, GotoEffect, FreeEffect
  <2>6. on[w] \in Conn
    BY <1>1, <2>2, Busy
  <2>7. \A d \in Conn : state'[d].active = state[d].active
    <3>1. output(on[w]) \/ state' = state
      BY <1>5 DEF DerefUndecoded, Respond, Invoke, Answer, Pull, Deactivate, Reply, Drop, Erase,
         OrbCancel, connVars
    <3> QED
      BY <2>6, <3>1, OutputShape
  <2>8. \A d \in Conn : refcnt'[d] <= refcnt[d]
    <3>1. CASE DerefUndecoded(w)
      BY <2>6, <3>1 DEF DerefUndecoded, ConnShape
    <3>2. CASE Drop(w)
      BY <2>6, <3>2, DerefShape DEF Drop
    <3>3. CASE refcnt' = refcnt
      BY <3>3 DEF ConnShape
    <3> QED
      BY <1>5, <3>1, <3>2, <3>3 DEF Respond, Invoke, Answer, Pull, Deactivate, Reply, Erase,
         OrbCancel, connVars
  <2> QED
    BY <1>1, <2>1, <2>2, <2>5, <2>7, <2>8, MoveCounts DEF ConnShape
<1> QED
  BY <1>2, <1>3, <1>4, <1>5 DEF Decode

\* The threads that close and delete connections.
LEMMA TakeCounts ==
  ASSUME Shape, Shape', Counts, NEW o \in OrbWorker, TakeClose(o) \/ TakeKill(o)
  PROVE  Counts'
<1> USE DEF Shape
<1>1. o \in Thread /\ o \notin Worker /\ o # Main
  BY ConstantsAssumption DEF Thread
<1>2. CASE TakeClose(o)
  <2>1. UNCHANGED <<decode, arrived, state, refcnt, life>>
    BY <1>2 DEF TakeClose, clientVars, connVars
  <2>2. \A u \in Thread : u # o => pc'[u] = pc[u] /\ on'[u] = on[u]
    BY <1>1, <1>2 DEF TakeClose, ThreadShape
  <2>3. \A c \in Conn : refcnt'[c] <= refcnt[c]
    BY <2>1 DEF ConnShape
  <2> QED
    BY <1>1, <2>1, <2>2, <2>3, MoveCounts DEF ConnShape
<1>3. CASE TakeKill(o)
  <2>1. /\ UNCHANGED <<decode, arrived, state, refcnt, pc, on>>
        /\ life' = [life EXCEPT ![Head(orb).conn] = "deleted"]
    BY <1>3 DEF TakeKill, clientVars, threadVars
  <2>2. \A c \in Conn : /\ refcnt'[c] <= refcnt[c] /\ Reads(c)' <= Reads(c) /\ Reads(c)' \in Nat
                        /\ life'[c] = "none" => life[c] = "none"
    BY <2>1 DEF ConnShape, Reads
  <2> QED
    BY <2>1, <2>2, StillCounts DEF ConnShape
<1> QED
  BY <1>2, <1>3

\* The steps of kill_conn() keep the active references counted.
LEMMA KillCounts ==
  ASSUME Shape, Shape', Counts, NEW t \in Thread, kill_conn(t)
  PROVE  Counts'
<1> USE DEF Shape
<1>1. /\ pc[t] \in KillPc
      /\ Free(t) \/ UNCHANGED threadVars \/ \E l \in KillPc : Goto(t, l)
      /\ UNCHANGED <<decode, arrived, life>>
  BY DEF kill_conn, KillReturn, Kill, terminate, ShutdownEffective, CloseTransport,
     TerminatedEffective, Abort, KillEnd, At, KillPc, clientVars, connVars, poolVars
<1>2. on[t] \in Conn
  BY <1>1, Busy DEF KillPc, Away
<1>3. KillPc \cap Decodes = {} /\ "free" \notin Decodes /\ "read" \notin KillPc
  BY DEF KillPc, Decodes, AfterDecode
<1>4. /\ \A u \in Thread : u # t => pc'[u] = pc[u] /\ on'[u] = on[u]
      /\ pc'[t] \notin Decodes /\ pc'[t] # "read"
  BY <1>1, <1>3, GotoEffect, FreeEffect DEF threadVars
<1>5. \A d \in Conn : state'[d].active = state[d].active
  <2>1. /\ S!BeginChange(state[on[t]], S!Shutdown) \in ConnState
        /\ S!BeginChange(state[on[t]], S!Shutdown).active = state[on[t]].active
        /\ S!BeginChange(state[on[t]], S!Terminated) \in ConnState
        /\ S!BeginChange(state[on[t]], S!Terminated).active = state[on[t]].active
        /\ S!EndChange(state[on[t]]) \in ConnState
        /\ S!EndChange(state[on[t]]).active = state[on[t]].active
    BY <1>2, StateMethods DEF ConnShape, S!Shutdown, S!Terminated
  <2>2. \/ state' = state
        \/ SetState(on[t], S!BeginChange(state[on[t]], S!Shutdown))
        \/ SetState(on[t], S!BeginChange(state[on[t]], S!Terminated))
        \/ SetState(on[t], S!EndChange(state[on[t]]))
    BY DEF kill_conn, KillReturn, Kill, terminate, ShutdownEffective, CloseTransport,
       TerminatedEffective, Abort, KillEnd, connVars
  <2> QED
    BY <1>2, <2>1, <2>2, SetStateShape
<1>6. \A d \in Conn : refcnt'[d] <= refcnt[d]
  <2>1. refcnt' = refcnt \/ deref_conn(on[t])
    BY DEF kill_conn, KillReturn, Kill, terminate, ShutdownEffective, CloseTransport,
       TerminatedEffective, Abort, KillEnd, connVars
  <2> QED
    BY <1>2, <2>1, DerefShape DEF ConnShape
<1> QED
  BY <1>1, <1>3, <1>4, <1>5, <1>6, MoveCounts DEF ConnShape

\* shutdown() keeps the active references counted.
LEMMA ShutdownCounts ==
  ASSUME Shape, Shape', Counts, shutdown \/ ShutdownBegin
  PROVE  Counts'
<1> USE DEF Shape
<1>1. Main \in Thread /\ Main \notin Worker
  BY ConstantsAssumption DEF Thread
<1>2. CASE ShutdownBegin \/ ShutdownEnd
  <2>1. UNCHANGED <<decode, arrived, state, refcnt, life>>
    BY <1>2 DEF ShutdownBegin, ShutdownEnd, clientVars, connVars, poolVars
  <2>2. UNCHANGED threadVars \/ Goto(Main, "gone")
    BY <1>2 DEF ShutdownBegin, ShutdownEnd
  <2>3. pc[Main] = "free"
    BY <1>2 DEF ShutdownBegin, ShutdownEnd
  <2>4. /\ \A u \in Thread : u # Main => pc'[u] = pc[u] /\ on'[u] = on[u]
        /\ pc'[Main] # "read"
    BY <1>1, <2>2, <2>3, GotoEffect DEF threadVars
  <2>5. \A c \in Conn : refcnt'[c] <= refcnt[c]
    BY <2>1 DEF ConnShape
  <2> QED
    BY <1>1, <2>1, <2>4, <2>5, MoveCounts DEF ConnShape
<1>3. CASE \E c \in Conn : ConnClosed(c)
  <2>1. PICK c \in Conn : ConnClosed(c)
    BY <1>3
  <2>2. /\ UNCHANGED <<decode, arrived, refcnt, life>> /\ output(c)
        /\ pc' = [pc EXCEPT ![Main] = "bye"] /\ on' = [on EXCEPT ![Main] = c]
    BY <2>1 DEF ConnClosed, clientVars
  <2>3. \A d \in Conn : state'[d].active = state[d].active /\ refcnt'[d] <= refcnt[d]
    BY <2>2, OutputShape DEF ConnShape
  <2>4. /\ \A u \in Thread : u # Main => pc'[u] = pc[u] /\ on'[u] = on[u]
        /\ pc'[Main] # "read"
    BY <1>1, <2>2 DEF ThreadShape
  <2> QED
    BY <1>1, <2>2, <2>3, <2>4, MoveCounts DEF ConnShape
<1>4. CASE Bye
  <2>1. on[Main] \in Conn
    BY <1>1, <1>4, Busy DEF Bye, At, Away
  <2>2. /\ UNCHANGED <<decode, arrived, refcnt, life>>
        /\ Free(Main) \/ Goto(Main, "shutdown")
        /\ state' = state \/ SetState(on[Main], S!BeginChange(state[on[Main]], S!Shutdown))
    BY <1>4 DEF Bye, clientVars, poolVars
  <2>3. \A d \in Conn : state'[d].active = state[d].active
    <3>1. /\ S!BeginChange(state[on[Main]], S!Shutdown) \in ConnState
          /\ S!BeginChange(state[on[Main]], S!Shutdown).active = state[on[Main]].active
      BY <2>1, StateMethods DEF ConnShape, S!Shutdown
    <3> QED
      BY <2>1, <2>2, <3>1, SetStateShape
  <2>4. /\ \A u \in Thread : u # Main => pc'[u] = pc[u] /\ on'[u] = on[u]
        /\ pc'[Main] # "read"
    BY <1>1, <2>2, GotoEffect, FreeEffect
  <2>5. \A c \in Conn : refcnt'[c] <= refcnt[c]
    BY <2>2 DEF ConnShape
  <2> QED
    BY <1>1, <2>2, <2>3, <2>4, <2>5, MoveCounts DEF ConnShape
<1>5. CASE terminate(Main)
  BY <1>1, <1>5, KillCounts DEF kill_conn
<1> QED
  BY <1>2, <1>3, <1>4, <1>5 DEF shutdown

-----------------------------------------------------------------------------
\* The invariant of the connections: the shape of the state, and what the
\* messages that were read hold of a connection.
THEOREM Invariance == Spec => [](Shape /\ Counts)
<1>1. Init => Shape /\ Counts
  <2> SUFFICES ASSUME Init PROVE Shape /\ Counts
    OBVIOUS
  <2>1. Shape
    BY InitShape
  <2> SUFFICES ASSUME NEW c \in Conn PROVE Counted(c)
    BY <2>1 DEF Counts
  <2>2. Decoding(c) = {} /\ Inputs(c) = {}
    BY DEF Init, Decoding, Inputs, Thread, AfterDecode
  <2>3. CountIn(decode, For(c)) = 0
    <3>1. decode \in Seq(QueuedMsg) /\ DOMAIN decode = {}
      BY <2>1 DEF Init, Shape, PoolShape
    <3> QED
      BY <3>1, NoneCount
  <2>4. Reads(c) = 0 /\ state[c].active = 0 /\ refcnt[c] = 0 /\ arrived[c] = 0
    BY DEF Init, Reads, Thread, S!Fresh
  <2>5. Cardinality(Decoding(c)) = 0 /\ Cardinality(Inputs(c)) = 0
    BY <2>2, FS_EmptySet
  <2>6. /\ state[c].active = CountIn(decode, For(c)) + Cardinality(Decoding(c))
        /\ state[c].active + Reads(c) <= arrived[c]
    BY <2>3, <2>4, <2>5
  <2>7. refcnt[c] + CountIn(decode, For(c)) + Cardinality(Inputs(c)) + Reads(c) <= arrived[c] + 1
    BY <2>3, <2>4, <2>5
  <2> QED
    BY <2>4, <2>6, <2>7 DEF Counted
<1>2. Shape /\ Counts /\ [Next]_vars => (Shape /\ Counts)'
  <2> SUFFICES ASSUME Shape, Counts, [Next]_vars PROVE Shape' /\ Counts'
    OBVIOUS
  <2>1. Shape'
    BY NextShape
  <2>2. CASE UNCHANGED vars
    <3>1. UNCHANGED <<decode, arrived, state, refcnt, life, pc, on>>
      BY <2>2 DEF vars, clientVars, connVars, poolVars, threadVars
    <3>2. \A c \in Conn : refcnt'[c] <= refcnt[c] /\ Reads(c)' <= Reads(c) /\ Reads(c)' \in Nat
      BY <3>1 DEF Reads, Shape, ConnShape
    <3> QED
      BY <2>1, <3>1, <3>2, StillCounts DEF Shape, ConnShape
  <2>3. CASE \E c \in Conn : Send(c) \/ Hangup(c) \/ Accept(c)
    BY <2>1, <2>3, ClientsCounts
  <2>4. CASE Read \/ ShutdownBegin \/ shutdown
    BY <2>1, <2>4, ReadCounts, ShutdownCounts
  <2>5. CASE \E w \in Worker : Decode(w) \/ kill_conn(w)
    BY <2>1, <2>5, DecodeCounts, KillCounts DEF Thread
  <2>6. CASE \E o \in OrbWorker : TakeClose(o) \/ TakeKill(o) \/ kill_conn(o)
    BY <2>1, <2>6, TakeCounts, KillCounts DEF Thread
  <2>7. CASE \E t \in Thread : Fail(t)
    <3>1. UNCHANGED <<decode, arrived, state, refcnt, life, pc, on>>
      BY <2>7 DEF Fail, clientVars, connVars, poolVars, threadVars
    <3>2. \A c \in Conn : refcnt'[c] <= refcnt[c] /\ Reads(c)' <= Reads(c) /\ Reads(c)' \in Nat
      BY <3>1 DEF Reads, Shape, ConnShape
    <3> QED
      BY <2>1, <3>1, <3>2, StillCounts DEF Shape, ConnShape
  <2> QED
    BY <2>1, <2>2, <2>3, <2>4, <2>5, <2>6, <2>7 DEF Next
<1> QED
  BY <1>1, <1>2, PTL DEF Spec

\* The active references of a connection are the messages that are queued or
\* being decoded: terminate() waits for these and for nothing else.
THEOREM ActiveRefsAlwaysExact == Spec => []ActiveRefsExact
<1>1. Shape /\ Counts => ActiveRefsExact
  <2> SUFFICES ASSUME Shape, Counts, NEW c \in Conn
               PROVE  state[c].active = Cardinality(Queued(c)) + Cardinality(Decoding(c))
    BY DEF ActiveRefsExact
  <2>1. \A i \in DOMAIN decode : decode[i] \in For(c) <=> decode[i].conn = c
    BY DEF Shape, PoolShape, For
  <2>2. {i \in DOMAIN decode : decode[i] \in For(c)} = Queued(c)
    BY <2>1 DEF Queued
  <2> QED
    BY <2>2 DEF Counts, Counted, CountIn
<1> QED
  BY Invariance, <1>1, PTL

\* The types, with their bounds: a connection never has more active references
\* than messages, nor more references than messages and its own.
THEOREM TypeCorrect == Spec => []TypeOK
<1>1. Shape /\ Counts => TypeOK
  <2> SUFFICES ASSUME Shape, Counts PROVE TypeOK
    OBVIOUS
  <2>1. state \in [Conn -> S!StateRefCnt(MaxMsg)] /\ refcnt \in [Conn -> 0..(MaxMsg + 1)]
    <3> SUFFICES ASSUME NEW c \in Conn
                 PROVE  state[c] \in S!StateRefCnt(MaxMsg) /\ refcnt[c] \in 0..(MaxMsg + 1)
      BY DEF Shape, ConnShape
    <3>1. state[c].active \in 0..MaxMsg /\ refcnt[c] \in 0..(MaxMsg + 1)
      <4>1. arrived[c] \in Nat /\ Len(sent[c]) \in Nat /\ arrived[c] <= Len(sent[c])
            /\ Len(sent[c]) <= MaxMsg /\ MaxMsg \in Nat
        BY ConstantsAssumption DEF Shape, ClientShape
      <4>2. Counted(c)
        BY DEF Counts
      <4>3. state[c].active <= arrived[c] /\ refcnt[c] <= arrived[c] + 1 /\ state[c].active \in Nat
        BY <4>2, CountTypes DEF Counted
      <4> QED
        BY <4>1, <4>3, CountTypes
    <3>2. state[c] \in [current : S!ExecState, new : S!ExecState, active : Int]
      BY DEF Shape, ConnShape, ConnState
    <3> QED
      BY <3>1, <3>2 DEF S!StateRefCnt
  <2>2. /\ client \in [Conn -> Client]
        /\ \A c \in Conn : /\ sent[c] \in Seq(Job) /\ Len(sent[c]) <= MaxMsg
                           /\ arrived[c] \in 0..Len(sent[c])
        /\ hungup \subseteq Conn /\ replied \subseteq Rec
    BY DEF Shape, ClientShape
  <2>3. decode \in Seq([conn : Conn, job : Job])
        /\ orb \in Seq([conn : Conn, ev : {"CloseConn", "KillConn"}])
    <3>1. QueuedMsg \subseteq [conn : Conn, job : Job]
      BY DEF QueuedMsg
    <3>2. decode \in Seq(QueuedMsg) /\ orb \in Seq(OrbMsg)
      BY DEF Shape, PoolShape
    <3>3. /\ Len(decode) \in Nat /\ DOMAIN decode = 1..Len(decode)
          /\ decode \in [1..Len(decode) -> QueuedMsg]
      BY <3>2, LenProperties
    <3> DEFINE M == [conn : Conn, job : Job]
    <3>4. decode \in [1..Len(decode) -> M]
      BY <3>1, <3>3
    <3> HIDE DEF M
    <3>5. decode \in Seq(M)
      BY <3>3, <3>4
    <3> QED
      BY <3>2, <3>5 DEF OrbMsg, M
  <2> QED
    BY <2>1, <2>2, <2>3 DEF TypeOK, Shape, ConnShape, RecShape, ThreadShape, GlobalShape
<1> QED
  BY Invariance, <1>1, PTL

-----------------------------------------------------------------------------
(***************************************************************************)
(* Gentle clients.                                                         *)
(***************************************************************************)

\* the locked part of kill_conn()
Locked == {"shutdown", "closing", "terminate", "abort"}
\* where a worker of the DeCode pool has a record
HasRec == {"decoded", "invoke", "upcall", "pull", "deactivate", "send", "drop", "erase"}
Live == {"upcall", "pull", "deactivate", "send"}
\* the last messages gentle clients send
LastKinds == {"garbled", "illframed"}

Is(c, x, y) == state[c].current = x /\ state[c].new = y
Running(c) == Is(c, 1, 1)
Ending(c) == c \in hungup \/ SaidLast(c)
\* the main thread has read the last message
ReadLast(c) == \E i \in 1..arrived[c] : sent[c][i].kind \in LastKinds
Quit(c) == ReadLast(c) \/ ~Running(c)

\* how often a message of c is queued
Waits(c, j) == CountIn(decode, {[conn |-> c, job |-> j]})
Closes(c) == CountIn(orb, {[conn |-> c, ev |-> "CloseConn"]})
Kills(c) == CountIn(orb, {[conn |-> c, ev |-> "KillConn"]})
\* t has a message of c in hand
Has(t, c) == t \in Worker \cup {Main} /\ on[t] = c /\ (t = Main => pc[t] = "read")
\* its message has the connection closed
Breaks(t, c) == /\ Has(t, c)
                /\ \/ t \in Worker /\ pc[t] \in {"garbled", "respond", "kill"}
                   \/ t = Main /\ job[t].kind \in LastKinds
Told(t, c) == t \in OrbWorker /\ pc[t] = "kill" /\ on[t] = c

\* A connection that is not made yet is untouched, and no one knows of it.
Unborn(c) ==
  /\ sent[c] = <<>> /\ arrived[c] = 0 /\ c \notin hungup \cup held \cup selected \cup conns
  /\ state[c] = S!Fresh /\ refcnt[c] = 0 /\ Closes(c) = 0 /\ Kills(c) = 0
  /\ \A t \in Thread : on[t] # c
  /\ \A j \in Job : Waits(c, j) = 0
  /\ \A n \in 1..MaxMsg : <<c, n>> \notin replied /\ orbids[<<c, n>>] = "none"

\* A gentle client says one last thing, when it has its replies, and closes
\* its end when the server has, or has nothing to say.
Talk(c) ==
  /\ \A i \in DOMAIN sent[c] : /\ sent[c][i].kind \in {"invoke", "locate", "close"} \cup LastKinds
                               /\ sent[c][i].n = i
                               /\ sent[c][i].kind \in LastKinds => i = Len(sent[c])
  /\ Ending(c) => HasReplies(c)
  /\ c \in hungup => ~SaidLast(c) \/ Closed(c)
  /\ \A n \in 1..MaxMsg : <<c, n>> \in replied => n <= arrived[c]

\* A message is in one place, and not answered before its record goes.
Queues(c, j) ==
  /\ Waits(c, j) \in {0, 1}
  /\ Waits(c, j) > 0 => /\ j.n <= arrived[c] /\ j = sent[c][j.n]
                        /\ j.kind # "illframed" /\ <<c, j.n>> \notin replied
Holds(t, c) ==
  /\ job[t].n <= arrived[c] /\ job[t] = sent[c][job[t].n] /\ Waits(c, job[t]) = 0
  /\ <<c, job[t].n>> \in replied => pc[t] \in {"drop", "erase"}
Tokens(c) ==
  /\ \A j \in Job : Queues(c, j)
  /\ \A t \in Thread : Has(t, c) => Holds(t, c)
  /\ \A t, u \in Thread : Has(t, c) /\ Has(u, c) /\ job[t].n = job[u].n => t = u

\* What a worker has in hand says where it is and what its record looks like.
AtWork(w) ==
  /\ pc[w] \in {"input", "ignored", "garbled", "respond"} \cup KillPc \cup HasRec
  /\ job[w].kind # "illframed"
  /\ pc[w] \in HasRec \cup {"input"} <=> job[w].kind \in {"invoke", "locate"}
  /\ pc[w] = "ignored" <=> job[w].kind = "close"
  /\ pc[w] \in {"decoded", "invoke", "upcall", "pull", "deactivate"} => orbids[Mine(w)] = "active"
  /\ pc[w] \in {"send", "drop", "erase"} => orbids[Mine(w)] = "pulled"
  /\ pc[w] \in HasRec => Mine(w) \in hint
  /\ pc[w] \in Live => Mine(w) \in live
Records(c) ==
  /\ \A w \in Worker : on[w] = c => AtWork(w)
  /\ \A n \in 1..MaxMsg : orbids[<<c, n>>] # "none" =>
       \E w \in Worker : on[w] = c /\ job[w].n = n /\ pc[w] \in HasRec

\* The state goes with the one who closes the connection.
Stage(t, c) ==
  /\ pc[t] = "shutdown" => state[c].current \in {1, 2} /\ state[c].new = 3
  /\ pc[t] = "closing" => Is(c, 3, 3)
  /\ pc[t] = "terminate" => Is(c, 3, 4)
  /\ pc[t] = "abort" => Is(c, 4, 4)
  /\ Breaks(t, c) => Running(c)
  /\ Told(t, c) => Is(c, 2, 2) /\ Closes(c) = 0
Stages(c) ==
  /\ Is(c, 1, 1) \/ Is(c, 2, 2) \/ Is(c, 1, 3) \/ Is(c, 2, 3) \/ Is(c, 3, 3) \/ Is(c, 3, 4) \/ Is(c, 4, 4)
  /\ \A t \in Thread : on[t] = c => Stage(t, c)
  /\ \A t, u \in Thread : Told(t, c) /\ Told(u, c) => t = u
  /\ Closes(c) \in {0, 1} /\ (Closes(c) = 1 => Is(c, 2, 2))
  /\ Is(c, 2, 2) => Closes(c) = 1 \/ \E t \in Thread : Told(t, c)
  /\ state[c].new > state[c].current \/ Is(c, 3, 3) =>
       \E t \in Thread : on[t] = c /\ pc[t] \in Locked
  /\ \A j \in Job : Waits(c, j) > 0 /\ j.kind = "garbled" => Running(c)

\* Nothing is read once the connection is to be closed.
Deaf(c) ==
  /\ c \notin held
  /\ Quit(c) => /\ c \notin selected /\ arrived[c] = Len(sent[c]) /\ Ending(c)
                /\ on[Main] = c => pc[Main] = "read" /\ job[Main].kind \in LastKinds
  /\ state[c].current \in {3, 4} => state[c].active = 0
  /\ state[c].new >= 3 => c \notin conns

\* It has its own reference until it has been killed; the last reference that
\* is given back has it deleted, once.
Own(c) == state[c].current # 4 \/ \E t \in Thread : pc[t] = "abort" /\ on[t] = c
Held(c) == {q \in Rec : /\ q[1] = c /\ orbids[q] # "none"
                        /\ ~ \E w \in Worker : pc[w] = "erase" /\ Mine(w) = q}
Refs(c) ==
  /\ refcnt[c] = Cardinality(Held(c)) + (IF Own(c) THEN 1 ELSE 0)
  /\ Kills(c) = IF refcnt[c] = 0 /\ life[c] = "open" THEN 1 ELSE 0
  /\ life[c] = "deleted" => refcnt[c] = 0

Good(c) == Talk(c) /\ Tokens(c) /\ Records(c) /\ Stages(c) /\ Deaf(c) /\ Refs(c)
Tame(c) == IF life[c] = "none" THEN Unborn(c) ELSE Good(c)
Mutex == /\ pc[Main] \in {"free", "reading", "read"}
         /\ \A t \in Thread : pc[t] \in Locked => lock = t
InUse == {c \in Conn : refcnt[c] > 0}
Slots == AllGentle => slots = Cardinality(InUse) /\ fault = "none"
GentleInv == ~stopping =>
  Mutex /\ Slots /\ \A c \in Conn : Gentle(c) \/ life[c] = "none" => Tame(c)

-----------------------------------------------------------------------------
(***************************************************************************)
(* What keeps the parts of the invariant.                                  *)
(***************************************************************************)
\* the thread t is the only one that moves
Only(t) == \A u \in Thread : u # t => pc'[u] = pc[u] /\ on'[u] = on[u] /\ job'[u] = job[u]
SameSent(c) == sent'[c] = sent[c] /\ arrived'[c] = arrived[c] /\ (c \in hungup' <=> c \in hungup)
SameTalk(c) == /\ SameSent(c)
               /\ \A n \in 1..MaxMsg : <<c, n>> \in replied' <=> <<c, n>> \in replied
SameRec(q) == orbids'[q] = orbids[q] /\ (q \in hint' <=> q \in hint) /\ (q \in live' <=> q \in live)
SameRecs(c) == \A n \in 1..MaxMsg : SameRec(<<c, n>>)
SameQueue(c) == \A j \in Job : Waits(c, j)' = Waits(c, j)
SameOrb(c) == Closes(c)' = Closes(c) /\ Kills(c)' = Kills(c)
SameState(c) == state'[c].current = state[c].current /\ state'[c].new = state[c].new
SameThread(t) == pc'[t] = pc[t] /\ on'[t] = on[t] /\ job'[t] = job[t]
Rest(c) ==
  /\ SameTalk(c) /\ SameRecs(c) /\ SameQueue(c) /\ SameOrb(c)
  /\ state'[c] = state[c] /\ refcnt'[c] = refcnt[c] /\ life'[c] = life[c]
  /\ c \in selected' <=> c \in selected
  /\ c \in held' <=> c \in held
  /\ c \in conns' <=> c \in conns
Untouched(c) ==
  /\ Rest(c)
  /\ \A t \in Thread : on[t] = c \/ on'[t] = c => SameThread(t)

\* What was read and answered is as before.
SamePast(c) == /\ arrived'[c] = arrived[c] /\ \A i \in 1..arrived[c] : sent'[c][i] = sent[c][i]
               /\ \A n \in 1..MaxMsg : <<c, n>> \in replied' <=> <<c, n>> \in replied
\* t keeps its message
Keeps(t, c) == /\ Has(t, c) /\ job'[t] = job[t]
               /\ pc[t] \in {"drop", "erase"} => pc'[t] \in {"drop", "erase"}

\* What is said of the client depends on what it has sent and heard.
LEMMA TalkKept ==
  ASSUME NEW c \in Conn, Talk(c), SameTalk(c), state[c].new = 4 => state'[c].new = 4
  PROVE  Talk(c)'
<1>1. (SaidLast(c)' <=> SaidLast(c)) /\ (Ending(c)' <=> Ending(c))
  BY DEF SaidLast, Ending, SameTalk, SameSent
<1>2. HasReplies(c)' <=> HasReplies(c)
  BY DEF HasReplies, Awaits, SameTalk, SameSent
<1>3. Closed(c) => Closed(c)'
  BY DEF Closed, S!Terminated
<1> QED
  BY <1>1, <1>2, <1>3 DEF Talk, SameTalk, SameSent

\* A step that takes up no message keeps the places of the messages.
LEMMA TokensKept ==
  ASSUME NEW c \in Conn, Shape, Tokens(c), SamePast(c), SameQueue(c),
         \A t \in Thread : Has(t, c)' => Keeps(t, c)
  PROVE  Tokens(c)'
<1>4. arrived[c] \in Nat /\ MaxMsg \in Nat
  BY ConstantsAssumption DEF Shape, ClientShape
<1>1. ASSUME NEW j \in Job PROVE Queues(c, j)'
  <2>1. Waits(c, j)' = Waits(c, j) /\ j.n \in 1..MaxMsg /\ Queues(c, j)
    BY DEF SameQueue, Job, Tokens
  <2> QED
    BY <1>4, <2>1 DEF Queues, SamePast
<1>2. ASSUME NEW t \in Thread, Has(t, c)' PROVE Holds(t, c)'
  <2>1. Has(t, c) /\ job'[t] = job[t] /\ Holds(t, c)
    BY <1>2 DEF Tokens, Keeps
  <2>2. job[t] \in Job
    BY DEF Shape, ThreadShape
  <2>3. Waits(c, job[t])' = Waits(c, job[t])
    <3>1. PICK j \in Job : j = job[t] /\ j = job'[t]
      BY <2>1, <2>2
    <3>2. Waits(c, j)' = Waits(c, j)
      BY DEF SameQueue
    <3> QED
      BY <3>1, <3>2 DEF Waits
  <2>4. job[t].n \in 1..MaxMsg
    BY <2>2 DEF Job
  <2>5. pc[t] \in {"drop", "erase"} => pc'[t] \in {"drop", "erase"}
    BY <1>2 DEF Keeps
  <2> QED
    BY <1>4, <2>1, <2>3, <2>4, <2>5 DEF Holds, SamePast
<1>3. ASSUME NEW t \in Thread, NEW u \in Thread, Has(t, c)', Has(u, c)', job'[t].n = job'[u].n
      PROVE  t = u
  BY <1>3 DEF Tokens, Keeps
<1> QED
  BY <1>1, <1>2, <1>3 DEF Tokens

\* A worker moves and no record changes.
LEMMA RecordsKept ==
  ASSUME NEW c \in Conn, Shape, Records(c), SameRecs(c), NEW t \in Thread, Only(t),
         t \in Worker /\ on'[t] = c => AtWork(t)',
         t \in Worker /\ on[t] = c /\ pc[t] \in HasRec =>
           on'[t] = c /\ job'[t] = job[t] /\ pc'[t] \in HasRec
  PROVE  Records(c)'
<1>1. ASSUME NEW w \in Worker, on'[w] = c PROVE AtWork(w)'
  <2>1. CASE w = t
    BY <1>1, <2>1
  <2>2. CASE w # t
    <3>1. w \in Thread /\ SameThread(w)
      BY <2>2 DEF Only, SameThread, Thread
    <3>2. on[w] = c /\ AtWork(w)
      BY <1>1, <3>1 DEF Records, SameThread
    <3>3. Mine(w)' = Mine(w) /\ Mine(w) = <<c, job[w].n>> /\ job[w].n \in 1..MaxMsg
      BY <3>1, <3>2 DEF Mine, SameThread, Shape, ThreadShape, Job
    <3>4. SameRec(Mine(w))
      BY <3>3 DEF SameRecs
    <3> QED
      BY <3>1, <3>2, <3>3, <3>4 DEF AtWork, SameThread, SameRec
  <2> QED
    BY <2>1, <2>2
<1>2. ASSUME NEW n \in 1..MaxMsg, orbids'[<<c, n>>] # "none"
      PROVE  \E w \in Worker : on'[w] = c /\ job'[w].n = n /\ pc'[w] \in HasRec
  <2>1. orbids[<<c, n>>] # "none"
    BY <1>2 DEF SameRecs, SameRec
  <2>2. PICK w \in Worker : on[w] = c /\ job[w].n = n /\ pc[w] \in HasRec
    BY <2>1 DEF Records
  <2>3. on'[w] = c /\ job'[w] = job[w] /\ pc'[w] \in HasRec
    BY <2>2 DEF Only, Thread
  <2> QED
    BY <2>2, <2>3
<1> QED
  BY <1>1, <1>2 DEF Records

\* A worker changes its record.
LEMMA RecordsMoved ==
  ASSUME NEW c \in Conn, Shape, Records(c), NEW w \in Worker, Only(w), on[w] = c,
         \A u \in Worker : u # w /\ on[u] = c => job[u].n # job[w].n,
         \A n \in 1..MaxMsg : n # job[w].n => SameRec(<<c, n>>),
         on'[w] = c => AtWork(w)',
         orbids'[Mine(w)] # "none" => on'[w] = c /\ job'[w] = job[w] /\ pc'[w] \in HasRec
  PROVE  Records(c)'
<1>1. ASSUME NEW u \in Worker, on'[u] = c PROVE AtWork(u)'
  <2>1. CASE u = w
    BY <1>1, <2>1
  <2>2. CASE u # w
    <3>1. u \in Thread /\ SameThread(u)
      BY <2>2 DEF Only, SameThread, Thread
    <3>2. on[u] = c /\ AtWork(u) /\ job[u].n # job[w].n
      BY <1>1, <2>2, <3>1 DEF Records, SameThread
    <3>3. Mine(u)' = Mine(u) /\ Mine(u) = <<c, job[u].n>> /\ job[u].n \in 1..MaxMsg
      BY <3>1, <3>2 DEF Mine, SameThread, Shape, ThreadShape, Job
    <3>4. SameRec(Mine(u))
      BY <3>2, <3>3
    <3> QED
      BY <3>1, <3>2, <3>3, <3>4 DEF AtWork, SameThread, SameRec
  <2> QED
    BY <2>1, <2>2
<1>2. ASSUME NEW n \in 1..MaxMsg, orbids'[<<c, n>>] # "none"
      PROVE  \E u \in Worker : on'[u] = c /\ job'[u].n = n /\ pc'[u] \in HasRec
  <2>1. CASE n = job[w].n
    BY <1>2, <2>1 DEF Mine
  <2>2. CASE n # job[w].n
    <3>1. orbids[<<c, n>>] # "none"
      BY <1>2, <2>2 DEF SameRec
    <3>2. PICK u \in Worker : on[u] = c /\ job[u].n = n /\ pc[u] \in HasRec
      BY <3>1 DEF Records
    <3>3. SameThread(u)
      BY <2>2, <3>2 DEF Only, Thread, SameThread
    <3> QED
      BY <3>2, <3>3 DEF SameThread
  <2> QED
    BY <2>1, <2>2
<1> QED
  BY <1>1, <1>2 DEF Records

\* A step that does not change the state of the connection.
LEMMA StagesKept ==
  ASSUME NEW c \in Conn, Stages(c), SameState(c), Closes(c)' = Closes(c),
         \A j \in Job : Waits(c, j)' > 0 /\ j.kind = "garbled" => Waits(c, j) > 0 \/ Running(c),
         \A t \in Thread : /\ Told(t, c)' <=> Told(t, c)
                           /\ Breaks(t, c)' => Breaks(t, c) \/ Running(c)
                           /\ (on[t] = c /\ pc[t] \in Locked) \/ (on'[t] = c /\ pc'[t] \in Locked) =>
                                on'[t] = on[t] /\ pc'[t] = pc[t]
  PROVE  Stages(c)'
<1>1. \A x, y : Is(c, x, y)' <=> Is(c, x, y)
  BY DEF Is, SameState
<1>2. Running(c)' <=> Running(c)
  BY <1>1 DEF Running
<1>3. ASSUME NEW t \in Thread, on'[t] = c PROVE Stage(t, c)'
  <2>1. pc'[t] \in Locked => Stage(t, c) /\ pc'[t] = pc[t]
    BY <1>3 DEF Stages
  <2>2. Breaks(t, c)' => Running(c)
    BY DEF Stages, Stage, Breaks, Has
  <2>3. Told(t, c)' => Is(c, 2, 2) /\ Closes(c) = 0
    BY DEF Stages, Stage, Told
  <2>4. /\ pc'[t] = "shutdown" => state'[c].current \in {1, 2} /\ state'[c].new = 3
        /\ pc'[t] = "closing" => Is(c, 3, 3)'
        /\ pc'[t] = "terminate" => Is(c, 3, 4)'
        /\ pc'[t] = "abort" => Is(c, 4, 4)'
    BY <1>1, <2>1 DEF Stage, Locked, SameState
  <2> QED
    BY <1>1, <1>2, <2>2, <2>3, <2>4 DEF Stage
<1>4. \A t, u \in Thread : Told(t, c)' /\ Told(u, c)' => t = u
  BY DEF Stages
<1>5. Is(c, 2, 2) => Closes(c) = 1 \/ \E t \in Thread : Told(t, c)'
  BY DEF Stages
<1>6. state'[c].new > state'[c].current \/ Is(c, 3, 3) =>
        \E t \in Thread : on'[t] = c /\ pc'[t] \in Locked
  BY DEF Stages, SameState
<1>7. \A j \in Job : Waits(c, j)' > 0 /\ j.kind = "garbled" => Running(c)
  BY DEF Stages
<1> QED
  BY <1>1, <1>2, <1>3, <1>4, <1>5, <1>6, <1>7 DEF Stages

\* A step that reads nothing and stops nothing.
LEMMA DeafKept ==
  ASSUME NEW c \in Conn, Deaf(c), SameSent(c), SameState(c),
         c \in held' => c \in held, c \in selected' => c \in selected, c \in conns' => c \in conns,
         state[c].active = 0 /\ state[c].current \in {3, 4} => state'[c].active = 0,
         on'[Main] = c => SameThread(Main)
  PROVE  Deaf(c)'
<1>1. (SaidLast(c)' <=> SaidLast(c)) /\ (Ending(c)' <=> Ending(c))
  BY DEF SaidLast, Ending, SameTalk, SameSent
<1>2. Quit(c)' <=> Quit(c)
  BY DEF Quit, ReadLast, Running, Is, SameTalk, SameSent, SameState
<1> QED
  BY <1>1, <1>2 DEF Deaf, SameTalk, SameSent, SameState, SameThread

\* A step that changes no reference.
LEMMA RefsKept ==
  ASSUME NEW c \in Conn, Refs(c), refcnt'[c] = refcnt[c], life'[c] = life[c],
         Kills(c)' = Kills(c), Held(c)' = Held(c), Own(c)' <=> Own(c)
  PROVE  Refs(c)'
BY DEF Refs

\* The records that hold a reference stay when they and those who erase them do.
LEMMA HeldKept ==
  ASSUME NEW c \in Conn, Shape, Shape',
         \A n \in 1..MaxMsg : orbids'[<<c, n>>] # "none" <=> orbids[<<c, n>>] # "none",
         \A w \in Worker : (on[w] = c /\ pc[w] = "erase") \/ (on'[w] = c /\ pc'[w] = "erase") => SameThread(w)
  PROVE  Held(c)' = Held(c)
<1> SUFFICES ASSUME NEW q \in Rec, q[1] = c
             PROVE  /\ orbids'[q] # "none" <=> orbids[q] # "none"
                    /\ (\E w \in Worker : pc'[w] = "erase" /\ Mine(w)' = q) <=>
                         (\E w \in Worker : pc[w] = "erase" /\ Mine(w) = q)
  BY DEF Held
<1>1. PICK n \in 1..MaxMsg : q = <<c, n>>
  BY DEF Rec
<1>2. \A w \in Worker : pc'[w] = "erase" /\ Mine(w)' = q <=> pc[w] = "erase" /\ Mine(w) = q
  <2> SUFFICES ASSUME NEW w \in Worker
               PROVE  pc'[w] = "erase" /\ Mine(w)' = q <=> pc[w] = "erase" /\ Mine(w) = q
    OBVIOUS
  <2>1. Mine(w) = q => on[w] = c
    BY <1>1 DEF Mine
  <2>2. Mine(w)' = q => on'[w] = c
    BY <1>1 DEF Mine
  <2>3. SameThread(w) => Mine(w)' = Mine(w) /\ pc'[w] = pc[w]
    BY DEF SameThread, Mine
  <2> QED
    BY <2>1, <2>2, <2>3
<1> QED
  BY <1>1, <1>2

\* A connection no step touches is as before.
LEMMA Elsewhere ==
  ASSUME NEW c \in Conn, Shape, Shape', Tame(c), Untouched(c)
  PROVE  Tame(c)'
<1>1. SameTalk(c) /\ SameRecs(c) /\ SameQueue(c) /\ SameOrb(c) /\ SameState(c)
  BY DEF Untouched, Rest, SameState
<1>2. ASSUME NEW t \in Thread, on[t] = c \/ on'[t] = c PROVE SameThread(t)
  BY <1>2 DEF Untouched, Rest
<1>3. \A t \in Thread : /\ Has(t, c)' <=> Has(t, c)
                        /\ Breaks(t, c)' <=> Breaks(t, c)
                        /\ Told(t, c)' <=> Told(t, c)
  BY <1>2 DEF Has, Breaks, Told, SameThread
<1>4. CASE life[c] = "none"
  <2>1. Unborn(c)
    BY <1>4 DEF Tame
  <2>2. \A t \in Thread : on'[t] # c
    BY <1>2, <2>1 DEF Unborn, SameThread
  <2>3. c \notin hungup' \cup held' \cup selected' \cup conns'
    BY <1>1, <2>1 DEF Unborn, SameTalk, SameSent, Untouched, Rest
  <2>4. sent'[c] = <<>> /\ arrived'[c] = 0 /\ state'[c] = S!Fresh /\ refcnt'[c] = 0
    BY <1>1, <2>1 DEF Unborn, SameTalk, SameSent, Untouched, Rest
  <2>5. Closes(c)' = 0 /\ Kills(c)' = 0 /\ \A j \in Job : Waits(c, j)' = 0
    BY <1>1, <2>1 DEF Unborn, SameOrb, SameQueue
  <2>6. \A n \in 1..MaxMsg : <<c, n>> \notin replied' /\ orbids'[<<c, n>>] = "none"
    BY <1>1, <2>1 DEF Unborn, SameTalk, SameSent, SameRecs, SameRec
  <2> QED
    BY <1>4, <2>2, <2>3, <2>4, <2>5, <2>6 DEF Tame, Unborn, Untouched, Rest
<1>5. CASE life[c] # "none"
  <2>1. Talk(c) /\ Tokens(c) /\ Records(c) /\ Stages(c) /\ Deaf(c) /\ Refs(c)
    BY <1>5 DEF Tame, Good
  <2>2. Talk(c)'
    BY <1>1, <2>1, TalkKept DEF SameState
  <2>3. Tokens(c)'
    <3>1. \A t \in Thread : Has(t, c)' => Keeps(t, c)
      BY <1>2, <1>3 DEF SameThread, Has, Keeps
    <3> QED
      BY <1>1, <2>1, <3>1, TokensKept DEF SameTalk, SameSent, SamePast
  <2>4. Records(c)'
    <3>1. ASSUME NEW w \in Worker, on'[w] = c PROVE AtWork(w)'
      <4>1. w \in Thread /\ SameThread(w) /\ on[w] = c /\ AtWork(w)
        BY <1>2, <2>1, <3>1 DEF Thread, SameThread, Records
      <4>2. Mine(w)' = Mine(w) /\ Mine(w) = <<c, job[w].n>> /\ job[w].n \in 1..MaxMsg
        BY <4>1 DEF Mine, SameThread, Shape, ThreadShape, Job
      <4>3. SameRec(Mine(w))
        BY <1>1, <4>2 DEF SameRecs
      <4> QED
        BY <4>1, <4>2, <4>3 DEF AtWork, SameThread, SameRec
    <3>2. ASSUME NEW n \in 1..MaxMsg, orbids'[<<c, n>>] # "none"
          PROVE  \E w \in Worker : on'[w] = c /\ job'[w].n = n /\ pc'[w] \in HasRec
      <4>1. orbids[<<c, n>>] # "none"
        BY <1>1, <3>2 DEF SameRecs, SameRec
      <4>2. PICK w \in Worker : on[w] = c /\ job[w].n = n /\ pc[w] \in HasRec
        BY <2>1, <4>1 DEF Records
      <4>3. SameThread(w)
        BY <1>2, <4>2 DEF Thread
      <4> QED
        BY <4>2, <4>3 DEF SameThread
    <3> QED
      BY <3>1, <3>2 DEF Records
  <2>5. Stages(c)'
    <3>1. \A t \in Thread :
            (on[t] = c /\ pc[t] \in Locked) \/ (on'[t] = c /\ pc'[t] \in Locked) =>
              on'[t] = on[t] /\ pc'[t] = pc[t]
      BY <1>2 DEF SameThread
    <3>2. \A j \in Job : Waits(c, j)' = Waits(c, j)
      BY <1>1 DEF SameQueue
    <3>3. Closes(c)' = Closes(c)
      BY <1>1 DEF SameOrb
    <3> QED
      BY <1>1, <1>3, <2>1, <3>1, <3>2, <3>3, StagesKept
  <2>6. Deaf(c)'
    <3>1. on'[Main] = c => SameThread(Main)
      BY <1>2 DEF Thread
    <3> QED
      BY <1>1, <2>1, <3>1, DeafKept DEF SameTalk, Untouched, Rest
  <2>7. Refs(c)'
    <3>1. Held(c)' = Held(c)
      <4>1. \A n \in 1..MaxMsg : orbids'[<<c, n>>] # "none" <=> orbids[<<c, n>>] # "none"
        BY <1>1 DEF SameRecs, SameRec
      <4>2. \A w \in Worker : (on[w] = c /\ pc[w] = "erase") \/ (on'[w] = c /\ pc'[w] = "erase") => SameThread(w)
        BY <1>2 DEF Thread
      <4> QED
        BY <4>1, <4>2, HeldKept
    <3>2. Own(c)' <=> Own(c)
      BY <1>1, <1>2 DEF Own, SameState, SameThread
    <3> QED
      BY <1>1, <2>1, <3>1, <3>2, RefsKept DEF Untouched, Rest, SameOrb
  <2> QED
    BY <1>5, <2>2, <2>3, <2>4, <2>5, <2>6, <2>7 DEF Tame, Good, Untouched, Rest
<1> QED
  BY <1>4, <1>5

-----------------------------------------------------------------------------
(***************************************************************************)
(* What the invariant says of a connection that is there.                  *)
(***************************************************************************)
\* A message in hand is one the client sent.
LEMMA InHand ==
  ASSUME NEW c \in Conn, Shape, Talk(c), Tokens(c), NEW t \in Thread, Has(t, c)
  PROVE  /\ job[t] \in Job /\ job[t].n \in 1..MaxMsg /\ job[t].n \in DOMAIN sent[c]
         /\ job[t].n \in 1..arrived[c] /\ job[t] = sent[c][job[t].n] /\ Waits(c, job[t]) = 0
         /\ job[t].kind \in {"invoke", "locate", "close"} \cup LastKinds
         /\ job[t].kind \in LastKinds => job[t].n = Len(sent[c]) /\ arrived[c] = Len(sent[c])
<1>1. job[t] \in Job /\ job[t].n \in 1..MaxMsg /\ MaxMsg \in Nat
  BY ConstantsAssumption DEF Shape, ThreadShape, Job
<1>2. /\ Len(sent[c]) \in Nat /\ DOMAIN sent[c] = 1..Len(sent[c])
      /\ arrived[c] \in Nat /\ arrived[c] <= Len(sent[c])
  BY DEF Shape, ClientShape
<1>3. Holds(t, c)
  BY DEF Tokens
<1>4. job[t].n <= arrived[c] /\ job[t] = sent[c][job[t].n] /\ Waits(c, job[t]) = 0
  BY <1>3 DEF Holds
<1>5. job[t].n \in DOMAIN sent[c] /\ job[t].n \in 1..arrived[c]
  BY <1>1, <1>2, <1>4
<1>6. /\ job[t].kind \in {"invoke", "locate", "close"} \cup LastKinds
      /\ job[t].kind \in LastKinds => job[t].n = Len(sent[c])
  BY <1>4, <1>5 DEF Talk
<1> QED
  BY <1>1, <1>2, <1>4, <1>5, <1>6

\* So is a message in the queue.
LEMMA InQueue ==
  ASSUME NEW c \in Conn, Shape, Talk(c), Tokens(c), NEW j \in Job, Waits(c, j) > 0
  PROVE  /\ j.n \in 1..MaxMsg /\ j.n \in DOMAIN sent[c] /\ j.n \in 1..arrived[c]
         /\ j = sent[c][j.n] /\ Waits(c, j) = 1 /\ <<c, j.n>> \notin replied
         /\ j.kind \in {"invoke", "locate", "close", "garbled"}
         /\ j.kind = "garbled" => j.n = Len(sent[c]) /\ arrived[c] = Len(sent[c])
         /\ \A t \in Thread : Has(t, c) => job[t].n # j.n
<1>1. j.n \in 1..MaxMsg /\ MaxMsg \in Nat
  BY ConstantsAssumption DEF Job
<1>2. /\ Len(sent[c]) \in Nat /\ DOMAIN sent[c] = 1..Len(sent[c])
      /\ arrived[c] \in Nat /\ arrived[c] <= Len(sent[c])
  BY DEF Shape, ClientShape
<1>3. Queues(c, j)
  BY DEF Tokens
<1>4. /\ j.n <= arrived[c] /\ j = sent[c][j.n] /\ j.kind # "illframed" /\ <<c, j.n>> \notin replied
      /\ Waits(c, j) = 1
  BY <1>3 DEF Queues
<1>5. j.n \in DOMAIN sent[c] /\ j.n \in 1..arrived[c]
  BY <1>1, <1>2, <1>4
<1>6. /\ j.kind \in {"invoke", "locate", "close"} \cup LastKinds
      /\ j.kind \in LastKinds => j.n = Len(sent[c])
  BY <1>4, <1>5 DEF Talk
<1>7. ASSUME NEW t \in Thread, Has(t, c) PROVE job[t].n # j.n
  BY <1>4, <1>7, InHand
<1> QED
  BY <1>1, <1>2, <1>4, <1>5, <1>6, <1>7 DEF LastKinds

\* A message that has the connection closed is the last one.
LEMMA Breaker ==
  ASSUME NEW c \in Conn, Shape, Talk(c), Tokens(c), Records(c), NEW t \in Thread, Breaks(t, c)
  PROVE  /\ Has(t, c) /\ job[t].kind \in LastKinds /\ job[t].n = Len(sent[c])
         /\ arrived[c] = Len(sent[c]) /\ ReadLast(c) /\ SaidLast(c)
         /\ \A u \in Thread : Breaks(u, c) => u = t
         /\ \A j \in Job : Waits(c, j) > 0 => j.kind # "garbled"
<1> DEFINE Last(u) == /\ Has(u, c) /\ job[u].kind \in LastKinds /\ job[u].n = Len(sent[c])
                      /\ arrived[c] = Len(sent[c]) /\ job[u] = sent[c][Len(sent[c])]
                      /\ Len(sent[c]) \in DOMAIN sent[c] /\ Len(sent[c]) \in 1..arrived[c]
<1>1. ASSUME NEW u \in Thread, Breaks(u, c) PROVE Last(u)
  <2>1. Has(u, c)
    BY <1>1 DEF Breaks
  <2>2. job[u].kind \in LastKinds
    <3>1. CASE u = Main /\ job[u].kind \in LastKinds
      BY <3>1
    <3>2. CASE u \in Worker /\ pc[u] \in {"garbled", "respond", "kill"}
      <4>1. AtWork(u)
        BY <2>1, <3>2 DEF Has, Records
      <4>2. job[u].kind \notin {"invoke", "locate", "close"}
        BY <3>2, <4>1 DEF AtWork, HasRec
      <4> QED
        BY <2>1, <4>2, InHand
    <3> QED
      BY <1>1, <3>1, <3>2 DEF Breaks
  <2> QED
    BY <2>1, <2>2, InHand
<1>2. Last(t)
  BY <1>1
<1>3. ReadLast(c)
  BY <1>2 DEF ReadLast
<1>4. SaidLast(c)
  BY <1>2 DEF SaidLast, LastKinds, Final
<1>5. \A u \in Thread : Breaks(u, c) => u = t
  BY <1>1, <1>2 DEF Tokens
<1>6. ASSUME NEW j \in Job, Waits(c, j) > 0, j.kind = "garbled" PROVE FALSE
  <2>1. j.n = Len(sent[c]) /\ \A u \in Thread : Has(u, c) => job[u].n # j.n
    BY <1>6, InQueue
  <2> QED
    BY <1>2, <2>1
<1> QED
  BY <1>2, <1>3, <1>4, <1>5, <1>6

\* A message that is read and not decoded keeps the connection from closing.
LEMMA Engaged ==
  ASSUME NEW c \in Conn, Shape, Counts, Refs(c), Deaf(c), life[c] # "none",
         NEW w \in Worker, on[w] = c, pc[w] \in Decodes
  PROVE  state[c].active > 0 /\ state[c].current \notin {3, 4} /\ Own(c)
<1>1. w \in Decoding(c)
  BY DEF Decoding, Decodes
<1>2. /\ CountIn(decode, For(c)) \in Nat /\ IsFiniteSet(Decoding(c))
      /\ Cardinality(Decoding(c)) \in Nat
  BY CountTypes
<1>3. Cardinality(Decoding(c)) # 0
  BY <1>1, <1>2, FS_EmptySet
<1>4. state[c].active = CountIn(decode, For(c)) + Cardinality(Decoding(c))
  BY DEF Counts, Counted
<1>5. state[c].active > 0
  BY <1>2, <1>3, <1>4
<1> QED
  BY <1>5 DEF Deaf, Own

\* The records are finitely many.
LEMMA HeldFinite ==
  ASSUME NEW c
  PROVE  IsFiniteSet(Rec) /\ IsFiniteSet(Held(c)) /\ Cardinality(Held(c)) \in Nat
<1>1. IsFiniteSet(Rec)
  <2>1. IsFiniteSet(1..MaxMsg)
    BY ConstantsAssumption, FS_Interval
  <2> QED
    BY <2>1, ConstantsAssumption, FS_Product DEF Rec
<1>2. Held(c) \in SUBSET Rec
  BY DEF Held
<1>3. IsFiniteSet(Held(c))
  BY <1>1, <1>2, FS_Subset
<1> QED
  BY <1>1, <1>3, FS_CardinalityType

\* Who owns a reference has the connection kept.
LEMMA Kept ==
  ASSUME NEW c \in Conn, Shape, Refs(c), life[c] # "none", Own(c) \/ Held(c) # {}
  PROVE  refcnt[c] > 0 /\ life[c] = "open" /\ Kills(c) = 0
<1>1. IsFiniteSet(Held(c)) /\ Cardinality(Held(c)) \in Nat
  BY HeldFinite
<1>2. Held(c) # {} => Cardinality(Held(c)) # 0
  BY <1>1, FS_EmptySet
<1>3. refcnt[c] = Cardinality(Held(c)) + (IF Own(c) THEN 1 ELSE 0)
  BY DEF Refs
<1>4. refcnt[c] > 0
  BY <1>1, <1>2, <1>3
<1>5. life[c] \in {"none", "open", "deleted"}
  BY DEF Shape, ConnShape
<1> QED
  BY <1>4, <1>5 DEF Refs

\* A request that is decoded has a record that holds a reference.
LEMMA Recorded ==
  ASSUME NEW c \in Conn, Shape, Tokens(c), Records(c), NEW w \in Worker, on[w] = c, pc[w] \in HasRec
  PROVE  /\ Mine(w) \in Rec /\ Mine(w) = <<c, job[w].n>> /\ orbids[Mine(w)] # "none"
         /\ pc[w] # "erase" => Mine(w) \in Held(c)
         /\ \A u \in Worker : u # w /\ on[u] = c => job[u].n # job[w].n
<1>1. Mine(w) = <<c, job[w].n>> /\ Mine(w) \in Rec
  BY DEF Mine, Rec, Shape, ThreadShape, Thread, Job
<1>2. orbids[Mine(w)] # "none"
  <2>1. AtWork(w)
    BY DEF Records
  <2> QED
    BY <2>1 DEF AtWork, HasRec
<1>3. \A u \in Worker : u # w /\ on[u] = c => job[u].n # job[w].n
  <2>1. Main \notin Worker
    BY ConstantsAssumption
  <2> QED
    BY <2>1 DEF Tokens, Has, Thread
<1>4. pc[w] # "erase" => ~ \E u \in Worker : pc[u] = "erase" /\ Mine(u) = Mine(w)
  BY <1>1, <1>3 DEF Mine
<1> QED
  BY <1>1, <1>2, <1>3, <1>4 DEF Held

-----------------------------------------------------------------------------
(***************************************************************************)
(* What the helpers of the actions do to the queues and the counts.        *)
(***************************************************************************)
\* A message is queued for decoding.
LEMMA DecodeAppend ==
  ASSUME Shape, NEW c \in Conn, NEW k \in Job, k.kind # "illframed",
         decode' = Append(decode, [conn |-> c, job |-> k])
  PROVE  \A d \in Conn, j \in Job :
           /\ Waits(d, j) \in Nat
           /\ Waits(d, j)' = Waits(d, j) + (IF d = c /\ j = k THEN 1 ELSE 0)
<1> SUFFICES ASSUME NEW d \in Conn, NEW j \in Job
             PROVE  /\ Waits(d, j) \in Nat
                    /\ Waits(d, j)' = Waits(d, j) + (IF d = c /\ j = k THEN 1 ELSE 0)
  OBVIOUS
<1> DEFINE m == [conn |-> c, job |-> k]
           P == {[conn |-> d, job |-> j]}
<1>1. decode \in Seq(QueuedMsg) /\ m \in QueuedMsg
  BY DEF Shape, PoolShape, QueuedMsg
<1>2. m \in P <=> d = c /\ j = k
  <2>1. m.conn = c /\ m.job = k
    OBVIOUS
  <2> QED
    BY <2>1
<1>3. Waits(d, j) = CountIn(decode, P) /\ Waits(d, j)' = CountIn(Append(decode, m), P)
  BY DEF Waits, CountIn
<1> HIDE DEF m, P
<1>4. /\ CountIn(decode, P) \in Nat
      /\ CountIn(Append(decode, m), P) = CountIn(decode, P) + (IF m \in P THEN 1 ELSE 0)
  BY <1>1, AppendCount
<1> QED
  BY <1>2, <1>3, <1>4

\* A message is taken for decoding.
LEMMA DecodeTail ==
  ASSUME Shape, decode # <<>>, decode' = Tail(decode)
  PROVE  /\ Head(decode) \in QueuedMsg
         /\ \A d \in Conn, j \in Job :
              /\ Waits(d, j)' \in Nat
              /\ Waits(d, j) = Waits(d, j)' + (IF Head(decode).conn = d /\ Head(decode).job = j THEN 1 ELSE 0)
<1>1. decode \in Seq(QueuedMsg) /\ Head(decode) \in QueuedMsg
  BY DEF Shape, PoolShape
<1>2. ASSUME NEW d \in Conn, NEW j \in Job
      PROVE  /\ Waits(d, j)' \in Nat
             /\ Waits(d, j) = Waits(d, j)' + (IF Head(decode).conn = d /\ Head(decode).job = j THEN 1 ELSE 0)
  <2> DEFINE P == {[conn |-> d, job |-> j]}
             h == Head(decode)
  <2>1. h \in P <=> h.conn = d /\ h.job = j
    <3>1. h = [conn |-> h.conn, job |-> h.job]
      BY <1>1 DEF QueuedMsg
    <3> HIDE DEF h
    <3> QED
      BY <3>1
  <2>2. Waits(d, j) = CountIn(decode, P) /\ Waits(d, j)' = CountIn(Tail(decode), P)
    BY DEF Waits, CountIn
  <2> HIDE DEF P
  <2>3. /\ CountIn(Tail(decode), P) \in Nat
        /\ CountIn(decode, P) = CountIn(Tail(decode), P) + (IF Head(decode) \in P THEN 1 ELSE 0)
    BY <1>1, TailCount
  <2> QED
    BY <2>1, <2>2, <2>3 DEF h
<1> QED
  BY <1>1, <1>2

\* A message to the ORB pool is queued.
LEMMA OrbAppend ==
  ASSUME Shape, NEW c \in Conn, NEW e \in {"CloseConn", "KillConn"},
         orb' = Append(orb, [conn |-> c, ev |-> e])
  PROVE  \A d \in Conn :
           /\ Closes(d) \in Nat /\ Kills(d) \in Nat
           /\ Closes(d)' = Closes(d) + (IF d = c /\ e = "CloseConn" THEN 1 ELSE 0)
           /\ Kills(d)' = Kills(d) + (IF d = c /\ e = "KillConn" THEN 1 ELSE 0)
<1> SUFFICES ASSUME NEW d \in Conn
             PROVE  /\ Closes(d) \in Nat /\ Kills(d) \in Nat
                    /\ Closes(d)' = Closes(d) + (IF d = c /\ e = "CloseConn" THEN 1 ELSE 0)
                    /\ Kills(d)' = Kills(d) + (IF d = c /\ e = "KillConn" THEN 1 ELSE 0)
  OBVIOUS
<1> DEFINE m == [conn |-> c, ev |-> e]
           P == {[conn |-> d, ev |-> "CloseConn"]}
           Q == {[conn |-> d, ev |-> "KillConn"]}
<1>1. orb \in Seq(OrbMsg) /\ m \in OrbMsg
  BY DEF Shape, PoolShape, OrbMsg
<1>2. (m \in P <=> d = c /\ e = "CloseConn") /\ (m \in Q <=> d = c /\ e = "KillConn")
  <2>1. m.conn = c /\ m.ev = e
    OBVIOUS
  <2> QED
    BY <2>1
<1>3. /\ Closes(d) = CountIn(orb, P) /\ Closes(d)' = CountIn(Append(orb, m), P)
      /\ Kills(d) = CountIn(orb, Q) /\ Kills(d)' = CountIn(Append(orb, m), Q)
  BY DEF Closes, Kills, CountIn
<1> HIDE DEF m, P, Q
<1>4. \A R : /\ CountIn(orb, R) \in Nat
             /\ CountIn(Append(orb, m), R) = CountIn(orb, R) + (IF m \in R THEN 1 ELSE 0)
  BY <1>1, AppendCount
<1> QED
  BY <1>2, <1>3, <1>4

\* A message to the ORB pool is taken.
LEMMA OrbTail ==
  ASSUME Shape, orb # <<>>, orb' = Tail(orb)
  PROVE  /\ Head(orb) \in OrbMsg
         /\ \A d \in Conn :
              /\ Closes(d)' \in Nat /\ Kills(d)' \in Nat
              /\ Closes(d) = Closes(d)' + (IF Head(orb).conn = d /\ Head(orb).ev = "CloseConn" THEN 1 ELSE 0)
              /\ Kills(d) = Kills(d)' + (IF Head(orb).conn = d /\ Head(orb).ev = "KillConn" THEN 1 ELSE 0)
<1>1. orb \in Seq(OrbMsg) /\ Head(orb) \in OrbMsg
  BY DEF Shape, PoolShape
<1>2. ASSUME NEW d \in Conn
      PROVE  /\ Closes(d)' \in Nat /\ Kills(d)' \in Nat
             /\ Closes(d) = Closes(d)' + (IF Head(orb).conn = d /\ Head(orb).ev = "CloseConn" THEN 1 ELSE 0)
             /\ Kills(d) = Kills(d)' + (IF Head(orb).conn = d /\ Head(orb).ev = "KillConn" THEN 1 ELSE 0)
  <2> DEFINE P == {[conn |-> d, ev |-> "CloseConn"]}
             Q == {[conn |-> d, ev |-> "KillConn"]}
             h == Head(orb)
  <2>1. (h \in P <=> h.conn = d /\ h.ev = "CloseConn") /\ (h \in Q <=> h.conn = d /\ h.ev = "KillConn")
    <3>1. h = [conn |-> h.conn, ev |-> h.ev]
      BY <1>1 DEF OrbMsg
    <3> HIDE DEF h
    <3> QED
      BY <3>1
  <2>2. /\ Closes(d) = CountIn(orb, P) /\ Closes(d)' = CountIn(Tail(orb), P)
        /\ Kills(d) = CountIn(orb, Q) /\ Kills(d)' = CountIn(Tail(orb), Q)
    BY DEF Closes, Kills, CountIn
  <2> HIDE DEF P, Q
  <2>3. \A R : /\ CountIn(Tail(orb), R) \in Nat
               /\ CountIn(orb, R) = CountIn(Tail(orb), R) + (IF Head(orb) \in R THEN 1 ELSE 0)
    BY <1>1, TailCount
  <2> QED
    BY <2>1, <2>2, <2>3 DEF h
<1> QED
  BY <1>1, <1>2

\* A queue that stays counts the same.
LEMMA SameQueues ==
  /\ decode' = decode => \A c : SameQueue(c)
  /\ orb' = orb => \A c : SameOrb(c)
BY DEF SameQueue, SameOrb, Waits, Closes, Kills

\* close_connection() tells the ORB pool to close an active connection.
LEMMA CloseEffect ==
  ASSUME Shape, NEW c \in Conn, close_connection(c)
  PROVE  /\ \A d \in Conn : d # c => state'[d] = state[d] /\ SameOrb(d)
         /\ state[c].new # 1 => state'[c] = state[c] /\ SameOrb(c)
         /\ state[c].new = 1 => /\ Is(c, 2, 2)' /\ state'[c].active = state[c].active
                                /\ Closes(c)' = Closes(c) + 1 /\ Kills(c)' = Kills(c)
<1>1. CASE S!ShutdownOK(state[c])
  <2>1. /\ SetState(c, S!init_shutdown(state[c]))
        /\ orb' = Append(orb, [conn |-> c, ev |-> "CloseConn"])
    BY <1>1 DEF close_connection
  <2>2. \A d \in Conn : /\ Closes(d)' = Closes(d) + (IF d = c THEN 1 ELSE 0)
                        /\ Kills(d)' = Kills(d) + 0
                        /\ Closes(d) \in Nat /\ Kills(d) \in Nat
    BY <2>1, OrbAppend
  <2>3. /\ state[c] \in ConnState /\ ConnShape
        /\ S!init_shutdown(state[c]) \in ConnState /\ S!init_shutdown(state[c]).current = 2
        /\ S!init_shutdown(state[c]).new = 2
        /\ S!init_shutdown(state[c]).active = state[c].active
    BY StateMethods DEF Shape, ConnShape
  <2>4. /\ state'[c] = S!init_shutdown(state[c])
        /\ \A d \in Conn : d # c => state'[d] = state[d]
    BY <2>1, <2>3, SetStateShape
  <2>5. state[c].new = 1
    BY <1>1 DEF S!ShutdownOK, S!Active
  <2>6. Is(c, 2, 2)' /\ state'[c].active = state[c].active
    BY <2>3, <2>4 DEF Is
  <2>7. \A d \in Conn : d # c => SameOrb(d)
    BY <2>2 DEF SameOrb
  <2> QED
    BY <2>2, <2>4, <2>5, <2>6, <2>7
<1>2. CASE ~S!ShutdownOK(state[c])
  <2>1. state' = state /\ orb' = orb
    BY <1>2 DEF close_connection
  <2>2. state[c].new # 1
    BY <1>2 DEF S!ShutdownOK, S!Active
  <2> QED
    BY <2>1, <2>2, SameQueues
<1> QED
  BY <1>1, <1>2

\* output() touches its connection only, and only one whose client has gone.
LEMMA OutputEffect ==
  ASSUME Shape, NEW c \in Conn, output(c)
  PROVE  /\ \A d \in Conn : d # c => /\ state'[d] = state[d] /\ SameOrb(d)
                                     /\ d \in selected' <=> d \in selected
         /\ ~Broken(c) => UNCHANGED <<selected, state, orb>>
<1>1. CASE Broken(c)
  BY <1>1, CloseEffect DEF output
<1>2. CASE ~Broken(c)
  BY <1>2, SameQueues DEF output
<1> QED
  BY <1>1, <1>2

\* deref() has the connection deleted when it takes the last reference.
LEMMA DerefEffect ==
  ASSUME Shape, NEW c \in Conn, deref_conn(c)
  PROVE  /\ \A d \in Conn : d # c => refcnt'[d] = refcnt[d] /\ SameOrb(d)
         /\ refcnt[c] > 0 /\ refcnt'[c] = refcnt[c] - 1 /\ refcnt[c] \in Nat
         /\ Closes(c)' = Closes(c) /\ Kills(c) \in Nat
         /\ Kills(c)' = Kills(c) + (IF refcnt[c] = 1 THEN 1 ELSE 0)
         /\ refcnt[c] # 1 => slots' = slots
         /\ refcnt[c] = 1 => slots' = IF slots = 0 THEN CountMod - 1 ELSE slots - 1
<1>1. /\ refcnt \in [Conn -> Nat] /\ refcnt[c] > 0
      /\ refcnt' = [refcnt EXCEPT ![c] = @ - 1]
  BY DEF deref_conn, DerefOK, Shape, ConnShape
<1>2. /\ \A d \in Conn : d # c => refcnt'[d] = refcnt[d]
      /\ refcnt'[c] = refcnt[c] - 1 /\ refcnt[c] \in Nat
  BY <1>1
<1>3. CASE refcnt[c] = 1
  <2>1. /\ orb' = Append(orb, [conn |-> c, ev |-> "KillConn"])
        /\ slots' = IF slots = 0 THEN CountMod - 1 ELSE slots - 1
    BY <1>3 DEF deref_conn
  <2>2. \A d \in Conn : /\ Closes(d)' = Closes(d) + 0
                        /\ Kills(d)' = Kills(d) + (IF d = c THEN 1 ELSE 0)
                        /\ Closes(d) \in Nat /\ Kills(d) \in Nat
    BY <2>1, OrbAppend
  <2> QED
    BY <1>1, <1>2, <1>3, <2>1, <2>2 DEF SameOrb
<1>4. CASE refcnt[c] # 1
  <2>1. orb' = orb /\ slots' = slots
    BY <1>4 DEF deref_conn
  <2>2. \A d \in Conn : SameOrb(d)
    BY <2>1, SameQueues
  <2>3. Kills(c) \in Nat
    <3>1. orb \in Seq(OrbMsg)
      BY DEF Shape, PoolShape
    <3> QED
      BY <3>1, NoneCount DEF Kills
  <2> QED
    BY <1>1, <1>2, <1>4, <2>1, <2>2, <2>3 DEF SameOrb
<1> QED
  BY <1>3, <1>4

-----------------------------------------------------------------------------
(***************************************************************************)
(* A step concerns one connection and leaves the others alone.             *)
(***************************************************************************)
Others(c) == \A d \in Conn : d # c => Untouched(d)

\* A thread moves that works on c.
LEMMA OthersBy ==
  ASSUME NEW c \in Conn, NEW t \in Thread, Only(t), on[t] \in {c, NoConn}, on'[t] \in {c, NoConn},
         \A d \in Conn : d # c => Rest(d)
  PROVE  Others(c)
<1>1. \A d \in Conn : d # NoConn
  BY ConstantsAssumption
<1> QED
  BY <1>1 DEF Others, Untouched, Only, SameThread

\* No thread moves.
LEMMA OthersStill ==
  ASSUME NEW c \in Conn, UNCHANGED threadVars, \A d \in Conn : d # c => Rest(d)
  PROVE  Others(c)
BY DEF Others, Untouched, SameThread, threadVars

\* Variables that stay.
LEMMA SameParts ==
  /\ UNCHANGED clientVars => \A d : SameTalk(d)
  /\ UNCHANGED recVars => \A d : SameRecs(d)
  /\ UNCHANGED poolVars => \A d : SameQueue(d) /\ SameOrb(d)
BY SameQueues DEF clientVars, recVars, poolVars, SameTalk, SameSent, SameRecs, SameRec

\* A step that goes to a place or ends is one of its thread.
LEMMA GotoOnly ==
  ASSUME Shape, NEW t \in Thread, NEW l, Goto(t, l)
  PROVE  Only(t) /\ on'[t] = on[t] /\ job'[t] = job[t] /\ pc'[t] = l
BY GotoEffect DEF Shape, Only

LEMMA FreeOnly ==
  ASSUME Shape, NEW t \in Thread, Free(t)
  PROVE  Only(t) /\ on'[t] = NoConn /\ pc'[t] = "free"
BY FreeEffect DEF Shape, Only

\* The clients touch their connection only.
LEMMA ClientOthers ==
  ASSUME Shape, NEW c \in Conn, Send(c) \/ Hangup(c) \/ Accept(c)
  PROVE  Others(c)
<1>1. UNCHANGED threadVars /\ UNCHANGED recVars /\ UNCHANGED poolVars
  BY DEF Send, Hangup, Accept
<1> SUFFICES ASSUME NEW d \in Conn, d # c PROVE Rest(d)
  BY <1>1, OthersStill
<1>2. SameRecs(d) /\ SameQueue(d) /\ SameOrb(d)
  BY <1>1, SameParts
<1>3. CASE Send(c)
  <2>1. PICK s : sent' = [sent EXCEPT ![c] = s]
    BY <1>3 DEF Send
  <2>2. sent'[d] = sent[d]
    BY <2>1 DEF Shape, ClientShape
  <2> QED
    BY <1>2, <1>3, <2>2 DEF Send, connVars, SameTalk, SameSent, Rest
<1>4. CASE Hangup(c)
  BY <1>2, <1>4 DEF Hangup, connVars, SameTalk, SameSent, Rest
<1>5. CASE Accept(c)
  <2>1. /\ life' = [life EXCEPT ![c] = "open"] /\ selected' = selected \cup {c}
        /\ conns' = conns \cup {c} /\ refcnt' = [refcnt EXCEPT ![c] = 1]
        /\ SetState(c, S!EndChange(S!BeginChange(state[c], S!Active)))
        /\ UNCHANGED clientVars /\ held' = held
    BY <1>5 DEF Accept, GIOPConn, start
  <2>2. state'[d] = state[d]
    BY <2>1 DEF SetState, Shape, ConnShape
  <2>3. life'[d] = life[d] /\ refcnt'[d] = refcnt[d]
    BY <2>1 DEF Shape, ConnShape
  <2>4. SameTalk(d)
    BY <2>1, SameParts
  <2> QED
    BY <1>2, <2>1, <2>2, <2>3, <2>4 DEF Rest
<1> QED
  BY <1>3, <1>4, <1>5

\* So does the main thread when it selects one ...
LEMMA SelectOthers ==
  ASSUME Shape, NEW c \in Conn, Select(c)
  PROVE  /\ Others(c) /\ Only(Main) /\ on[Main] = NoConn
         /\ pc'[Main] = "reading" /\ on'[Main] = c
<1>1. Main \in Thread /\ pc[Main] = "free"
  BY DEF Select, Thread
<1>2. on[Main] = NoConn
  BY <1>1 DEF Shape, ThreadShape, Away
<1>3. Only(Main) /\ on'[Main] = c /\ pc'[Main] = "reading"
  BY <1>1 DEF Select, Only, Shape, ThreadShape
<1>4. \A d \in Conn : Rest(d)
  BY SameParts DEF Select, Rest, connVars
<1> QED
  BY <1>1, <1>2, <1>3, <1>4, OthersBy

\* ... and reads.
LEMMA ReadOthers ==
  ASSUME Shape, ReadMessage \/ input_ready \/ ReadError \/ ReadEnd
  PROVE  Main \in Thread /\ on[Main] \in Conn /\ Only(Main) /\ Others(on[Main])
<1> DEFINE c == on[Main]
<1>1. Main \in Thread
  BY DEF Thread
<1>2. c \in Conn
  BY <1>1, Busy DEF ReadMessage, input_ready, ReadError, ReadEnd, At, Away
<1>3. CASE ReadMessage
  <2>1. /\ arrived' = [arrived EXCEPT ![c] = @ + 1] /\ selected' \in {selected, selected \ {c}}
        /\ on' = on /\ UNCHANGED recVars /\ UNCHANGED poolVars
        /\ UNCHANGED <<sent, hungup, replied, life, held, state, refcnt, conns>>
    BY <1>3 DEF ReadMessage
  <2>2. Only(Main)
    BY <1>1, <1>3 DEF ReadMessage, Only, Shape, ThreadShape
  <2>3. ASSUME NEW d \in Conn, d # c PROVE Rest(d)
    <3>1. arrived'[d] = arrived[d]
      BY <2>1, <2>3 DEF Shape, ClientShape
    <3> QED
      BY <2>1, <2>3, <3>1, SameParts DEF Rest, SameTalk, SameSent
  <2> QED
    BY <1>1, <1>2, <2>1, <2>2, <2>3, OthersBy
<1>4. CASE input_ready
  <2>1. /\ Free(Main) \/ Goto(Main, "reading")
        /\ \/ /\ SetState(c, S!active_ref(state[c])) /\ held' = held
              /\ decode' = Append(decode, [conn |-> c, job |-> job[Main]])
           \/ state' = state /\ held' = held \cup {c} /\ decode' = decode
        /\ UNCHANGED clientVars /\ UNCHANGED recVars /\ orb' = orb
        /\ UNCHANGED <<life, refcnt, selected, conns>> /\ job[Main].kind # "illframed"
    BY <1>4 DEF input_ready
  <2>2. Only(Main) /\ on'[Main] \in {c, NoConn}
    BY <1>1, <2>1, GotoOnly, FreeOnly
  <2>3. ASSUME NEW d \in Conn, d # c PROVE Rest(d)
    <3>1. state'[d] = state[d]
      BY <2>1, <2>3 DEF SetState, Shape, ConnShape
    <3>2. SameQueue(d)
      <4>1. job[Main] \in Job
        BY <1>1 DEF Shape, ThreadShape
      <4>2. CASE decode' = Append(decode, [conn |-> c, job |-> job[Main]])
        <5>1. \A j \in Job : Waits(d, j) \in Nat /\ Waits(d, j)' = Waits(d, j) + 0
          BY <1>2, <2>1, <2>3, <4>1, <4>2, DecodeAppend
        <5> QED
          BY <5>1 DEF SameQueue
      <4> QED
        BY <2>1, <4>2, SameQueues
    <3>3. SameOrb(d) /\ SameTalk(d) /\ SameRecs(d)
      BY <2>1, SameQueues, SameParts
    <3> QED
      BY <2>1, <2>3, <3>1, <3>2, <3>3 DEF Rest
  <2> QED
    BY <1>1, <1>2, <2>2, <2>3, OthersBy
<1>5. CASE ReadError \/ ReadEnd
  <2>1. /\ Free(Main) /\ UNCHANGED clientVars /\ UNCHANGED recVars /\ decode' = decode
        /\ UNCHANGED <<life, held, refcnt, conns>>
        /\ selected' \in {selected, selected \ {c}}
        /\ close_connection(c) \/ UNCHANGED <<state, orb>>
    BY <1>5 DEF ReadError, ReadEnd
  <2>2. Only(Main) /\ on'[Main] = NoConn
    BY <1>1, <2>1, FreeOnly
  <2>3. ASSUME NEW d \in Conn, d # c PROVE Rest(d)
    <3>1. state'[d] = state[d] /\ SameOrb(d)
      BY <1>2, <2>1, <2>3, CloseEffect, SameQueues
    <3>2. SameQueue(d) /\ SameTalk(d) /\ SameRecs(d)
      BY <2>1, SameQueues, SameParts
    <3> QED
      BY <2>1, <2>3, <3>1, <3>2 DEF Rest
  <2> QED
    BY <1>1, <1>2, <2>2, <2>3, OthersBy
<1> QED
  BY <1>3, <1>4, <1>5

\* A worker takes a message.
LEMMA TakeInputOthers ==
  ASSUME Shape, NEW w \in Worker, TakeInput(w)
  PROVE  LET m == Head(decode) IN
         /\ w \in Thread /\ m \in QueuedMsg /\ Only(w) /\ Others(m.conn)
         /\ on[w] = NoConn /\ on'[w] = m.conn /\ job'[w] = m.job
         /\ pc'[w] = CASE m.job.kind \in Request \cup {"cancel"} -> "input"
                       [] m.job.kind = "close" -> "ignored"
                       [] OTHER -> m.job.kind
<1> DEFINE m == Head(decode)
           l == CASE m.job.kind \in Request \cup {"cancel"} -> "input"
                  [] m.job.kind = "close" -> "ignored"
                  [] OTHER -> m.job.kind
<1>1. w \in Thread /\ pc[w] = "free" /\ on[w] = NoConn
  BY DEF TakeInput, Thread, Shape, ThreadShape, Away
<1>2. /\ decode # <<>> /\ decode' = Tail(decode)
      /\ on' = [on EXCEPT ![w] = m.conn] /\ job' = [job EXCEPT ![w] = m.job]
      /\ pc' = [pc EXCEPT ![w] = l]
      /\ UNCHANGED clientVars /\ UNCHANGED connVars /\ UNCHANGED recVars /\ orb' = orb
  BY DEF TakeInput
<1> HIDE DEF l
<1>3. Only(w) /\ on'[w] = m.conn /\ job'[w] = m.job /\ pc'[w] = l
  BY <1>1, <1>2 DEF Only, Shape, ThreadShape
<1>4. /\ m \in QueuedMsg
      /\ \A d \in Conn, j \in Job :
           /\ Waits(d, j)' \in Nat
           /\ Waits(d, j) = Waits(d, j)' + (IF m.conn = d /\ m.job = j THEN 1 ELSE 0)
  BY <1>2, DecodeTail
<1>5. m.conn \in Conn
  BY <1>4 DEF QueuedMsg
<1>6. ASSUME NEW d \in Conn, d # m.conn PROVE Rest(d)
  <2>1. SameQueue(d)
    BY <1>4, <1>6 DEF SameQueue
  <2>2. SameOrb(d) /\ SameTalk(d) /\ SameRecs(d)
    BY <1>2, SameQueues, SameParts
  <2> QED
    BY <1>2, <2>1, <2>2 DEF Rest, connVars
<1>7. Others(m.conn)
  BY <1>1, <1>3, <1>5, <1>6, OthersBy
<1> QED
  BY <1>1, <1>3, <1>4, <1>7 DEF l

\* A record of one connection changes.
LEMMA RecsElsewhere ==
  ASSUME NEW c \in Conn, NEW n,
         \/ orbids' = orbids
         \/ \E s : orbids' = [orbids EXCEPT ![<<c, n>>] = s],
         hint' \in {hint, hint \cup {<<c, n>>}, hint \ {<<c, n>>}},
         live' \in {live, live \cup {<<c, n>>}, live \ {<<c, n>>}}, Shape
  PROVE  /\ \A d \in Conn : d # c => SameRecs(d)
         /\ \A i \in 1..MaxMsg : i # n => SameRec(<<c, i>>)
<1>1. ASSUME NEW d \in Conn, NEW i \in 1..MaxMsg, d # c \/ i # n
      PROVE  SameRec(<<d, i>>)
  <2>1. <<d, i>> # <<c, n>>
    BY <1>1
  <2>2. orbids'[<<d, i>>] = orbids[<<d, i>>]
    BY <2>1 DEF Shape, RecShape, Rec
  <2> QED
    BY <2>1, <2>2 DEF SameRec
<1> QED
  BY <1>1 DEF SameRecs

\* A worker that decodes a message, and the request that comes of it.
LEMMA DecodeOthers ==
  ASSUME Shape, NEW w \in Worker, Decode(w), ~TakeInput(w)
  PROVE  w \in Thread /\ on[w] \in Conn /\ Only(w) /\ Others(on[w])
<1> DEFINE c == on[w]
<1>1. w \in Thread
  BY DEF Thread
<1>2. c \in Conn
  BY <1>1, Busy DEF Decode, HandleRequest, CancelRequest, ActiveDeref, AfterActiveDeref, AfterDecode,
     DerefUndecoded, Respond, Invoke, Answer, Pull, Deactivate, Reply, Drop, Erase, OrbCancel, At, Away
<1>3. Mine(w) = <<c, job[w].n>>
  BY DEF Mine
<1>4. (\E l : Goto(w, l)) \/ Free(w)
  BY DEF Decode, HandleRequest, CancelRequest, ActiveDeref, AfterActiveDeref,
     DerefUndecoded, Respond, Invoke, Answer, Pull, Deactivate, Reply, Drop, Erase, OrbCancel
<1>5. Only(w) /\ on'[w] \in {c, NoConn}
  BY <1>1, <1>4, GotoOnly, FreeOnly
<1>6. /\ UNCHANGED <<sent, arrived, hungup, decode, life, held, conns>>
      /\ replied' \in {replied, replied \cup {<<c, job[w].n>>}}
  BY <1>3 DEF Decode, HandleRequest, CancelRequest, ActiveDeref, AfterActiveDeref,
     DerefUndecoded, Respond, Invoke, Answer, Pull, Deactivate, Reply, Drop, Erase, OrbCancel,
     clientVars, connVars, poolVars
<1>7. ASSUME NEW d \in Conn, d # c PROVE SameTalk(d) /\ SameQueue(d)
  BY <1>6, <1>7, SameQueues DEF SameTalk, SameSent
<1>8. \A d \in Conn : d # c => SameRecs(d)
  <2>1. \/ orbids' = orbids
        \/ \E s : orbids' = [orbids EXCEPT ![<<c, job[w].n>>] = s]
    BY <1>3 DEF Decode, HandleRequest, CancelRequest, ActiveDeref, AfterActiveDeref,
       DerefUndecoded, Respond, Invoke, Answer, Pull, Deactivate, Reply, Drop, Erase, OrbCancel,
       recVars, add_invoke, pull_invoke_reqid
  <2>2. hint' \in {hint, hint \cup {<<c, job[w].n>>}}
    BY <1>3 DEF Decode, HandleRequest, CancelRequest, ActiveDeref, AfterActiveDeref,
       DerefUndecoded, Respond, Invoke, Answer, Pull, Deactivate, Reply, Drop, Erase, OrbCancel,
       recVars, add_invoke
  <2>3. live' \in {live, live \cup {<<c, job[w].n>>}, live \ {<<c, job[w].n>>}}
    BY <1>3 DEF Decode, HandleRequest, CancelRequest, ActiveDeref, AfterActiveDeref,
       DerefUndecoded, Respond, Invoke, Answer, Pull, Deactivate, Reply, Drop, Erase, OrbCancel,
       recVars, Cancelled
  <2> QED
    BY <1>2, <2>1, <2>2, <2>3, RecsElsewhere
<1>9. ASSUME NEW d \in Conn, d # c
      PROVE  /\ state'[d] = state[d] /\ SameOrb(d) /\ (d \in selected' <=> d \in selected)
             /\ refcnt'[d] = refcnt[d]
  <2>1. CASE HandleRequest(w) \/ DerefUndecoded(w)
    <3>1. /\ UNCHANGED <<state, selected, orb>>
          /\ \E x : refcnt' = [refcnt EXCEPT ![c] = x]
      BY <2>1 DEF HandleRequest, DerefUndecoded, poolVars
    <3> QED
      BY <1>9, <3>1, SameQueues DEF Shape, ConnShape
  <2>2. CASE CancelRequest(w) \/ Invoke(w) \/ Answer(w) \/ Pull(w) \/ Deactivate(w) \/ Erase(w) \/ OrbCancel(w)
    BY <2>2, SameQueues DEF CancelRequest, Invoke, Answer, Pull, Deactivate, Erase, OrbCancel,
       connVars, poolVars
  <2>3. CASE ActiveDeref(w)
    <3>1. /\ UNCHANGED <<selected, orb, refcnt>> /\ SetState(c, S!active_deref(state[c]))
      BY <2>3 DEF ActiveDeref, AfterActiveDeref, poolVars
    <3> QED
      BY <1>9, <3>1, SameQueues DEF SetState, Shape, ConnShape
  <2>4. CASE Respond(w) \/ Reply(w)
    <3>1. refcnt' = refcnt /\ (output(c) \/ UNCHANGED <<selected, state, orb>>)
      BY <2>4 DEF Respond, Reply
    <3> QED
      BY <1>2, <1>9, <3>1, OutputEffect, SameQueues
  <2>5. CASE Drop(w)
    <3>1. UNCHANGED <<state, selected>> /\ deref_conn(c)
      BY <2>5 DEF Drop
    <3> QED
      BY <1>2, <1>9, <3>1, DerefEffect
  <2> QED
    BY <2>1, <2>2, <2>3, <2>4, <2>5 DEF Decode
<1>10. \A d \in Conn : d # c => Rest(d)
  BY <1>6, <1>7, <1>8, <1>9 DEF Rest
<1> QED
  BY <1>1, <1>2, <1>5, <1>10, OthersBy

\* A worker of the ORB pool takes a message.
LEMMA TakeOthers ==
  ASSUME Shape, NEW o \in OrbWorker, TakeClose(o) \/ TakeKill(o)
  PROVE  /\ Head(orb) \in OrbMsg /\ Others(Head(orb).conn)
         /\ o \in Thread /\ o \notin Worker /\ o # Main /\ on[o] = NoConn
<1> DEFINE c == Head(orb).conn
<1>1. o \in Thread /\ o \notin Worker /\ o # Main /\ on[o] = NoConn
  BY ConstantsAssumption DEF TakeClose, TakeKill, Thread, Shape, ThreadShape, Away
<1>2. orb # <<>> /\ orb' = Tail(orb) /\ decode' = decode /\ UNCHANGED clientVars /\ UNCHANGED recVars
  BY DEF TakeClose, TakeKill
<1>3. /\ Head(orb) \in OrbMsg
      /\ \A d \in Conn :
           /\ Closes(d)' \in Nat /\ Kills(d)' \in Nat
           /\ Closes(d) = Closes(d)' + (IF c = d /\ Head(orb).ev = "CloseConn" THEN 1 ELSE 0)
           /\ Kills(d) = Kills(d)' + (IF c = d /\ Head(orb).ev = "KillConn" THEN 1 ELSE 0)
  BY <1>2, OrbTail
<1>4. c \in Conn
  BY <1>3 DEF OrbMsg
<1>5. ASSUME NEW d \in Conn, d # c PROVE Rest(d)
  <2>1. SameOrb(d)
    BY <1>3, <1>5 DEF SameOrb
  <2>2. SameQueue(d) /\ SameTalk(d) /\ SameRecs(d)
    BY <1>2, SameQueues, SameParts
  <2>3. life'[d] = life[d]
    BY <1>4, <1>5 DEF TakeClose, TakeKill, connVars, Shape, ConnShape
  <2>4. UNCHANGED <<held, state, refcnt, selected, conns>>
    BY DEF TakeClose, TakeKill, connVars
  <2> QED
    BY <2>1, <2>2, <2>3, <2>4 DEF Rest
<1>6. Others(c)
  <2>1. CASE TakeClose(o)
    <3>1. Only(o) /\ on'[o] = c
      BY <1>1, <2>1 DEF TakeClose, Only, Shape, ThreadShape
    <3> QED
      BY <1>1, <1>4, <1>5, <3>1, OthersBy
  <2>2. CASE TakeKill(o)
    BY <1>4, <1>5, <2>2, OthersStill DEF TakeKill
  <2> QED
    BY <2>1, <2>2
<1> QED
  BY <1>1, <1>3, <1>6

\* kill_conn() touches its connection only.
LEMMA KillOthers ==
  ASSUME Shape, NEW t \in Thread, kill_conn(t)
  PROVE  on[t] \in Conn /\ Only(t) /\ Others(on[t])
<1> DEFINE c == on[t]
<1>1. c \in Conn
  BY Busy DEF kill_conn, KillReturn, Kill, terminate, ShutdownEffective, CloseTransport,
     TerminatedEffective, Abort, KillEnd, At, Away
<1>2. (\E l : Goto(t, l)) \/ Free(t) \/ UNCHANGED threadVars
  BY DEF kill_conn, KillReturn, Kill, terminate, ShutdownEffective, CloseTransport,
     TerminatedEffective, Abort, KillEnd
<1>3. Only(t) /\ on'[t] \in {c, NoConn}
  BY <1>2, GotoOnly, FreeOnly DEF threadVars, Only
<1>4. /\ UNCHANGED clientVars /\ UNCHANGED <<decode, life, held>>
      /\ selected' \in {selected, selected \ {c}} /\ conns' \in {conns, conns \ {c}}
  BY DEF kill_conn, KillReturn, Kill, terminate, ShutdownEffective, CloseTransport,
     TerminatedEffective, Abort, KillEnd, connVars, poolVars
<1>5. \A d \in Conn : SameTalk(d) /\ SameQueue(d)
  BY <1>4, SameQueues, SameParts
<1>6. \A d \in Conn : d # c => SameRecs(d)
  <2>1. CASE Abort(t)
    <3>1. PICK q \in ActiveRecs(c) : /\ orbids' = [orbids EXCEPT ![q] = "none"]
                                     /\ hint' = hint \ {q} /\ live' = Cancelled(q)
      BY <2>1 DEF Abort
    <3>2. PICK n \in 1..MaxMsg : q = <<c, n>>
      BY DEF ActiveRecs, Rec
    <3>3. live' \in {live, live \ {q}}
      BY <3>1 DEF Cancelled
    <3> QED
      BY <1>1, <3>1, <3>2, <3>3, RecsElsewhere
  <2>2. CASE UNCHANGED recVars
    BY <2>2, SameParts
  <2> QED
    BY <2>1, <2>2 DEF kill_conn, KillReturn, Kill, terminate, ShutdownEffective, CloseTransport,
       TerminatedEffective, KillEnd
<1>7. ASSUME NEW d \in Conn, d # c
      PROVE  state'[d] = state[d] /\ SameOrb(d) /\ refcnt'[d] = refcnt[d]
  <2>1. CASE KillEnd(t)
    <3>1. state' = state /\ deref_conn(c)
      BY <2>1 DEF KillEnd
    <3> QED
      BY <1>1, <1>7, <3>1, DerefEffect
  <2>2. CASE ~KillEnd(t)
    <3>1. /\ refcnt' = refcnt /\ orb' = orb
          /\ state' = state \/ \E s : SetState(c, s)
      BY <2>2 DEF kill_conn, KillReturn, Kill, terminate, ShutdownEffective, CloseTransport,
         TerminatedEffective, Abort, connVars, poolVars
    <3> QED
      BY <1>7, <3>1, SameQueues DEF SetState, Shape, ConnShape
  <2> QED
    BY <2>1, <2>2
<1>8. \A d \in Conn : d # c => Rest(d)
  BY <1>4, <1>5, <1>6, <1>7 DEF Rest
<1> QED
  BY <1>1, <1>3, <1>8, OthersBy

-----------------------------------------------------------------------------
(***************************************************************************)
(* The steps of a gentle client, and of the main thread.                   *)
(***************************************************************************)
\* What a gentle client may send.
LEMMA GentleKinds ==
  ASSUME Shape, NEW c \in Conn, Gentle(c), NEW k \in Speaks[client[c]]
  PROVE  k \in {"invoke", "locate", "close"} \cup LastKinds
<1>1. k \in Message
  BY ConstantsAssumption DEF Shape, ClientShape
<1> QED
  BY <1>1 DEF Gentle, Message, Request, LastKinds

\* No thread moves and the server does nothing.
LEMMA ServerStill ==
  ASSUME NEW c \in Conn, Shape, Shape', Records(c), Stages(c), Refs(c),
         UNCHANGED connVars, UNCHANGED recVars, UNCHANGED poolVars, UNCHANGED threadVars
  PROVE  Records(c)' /\ Stages(c)' /\ Refs(c)'
<1>1. SameRecs(c) /\ SameQueue(c) /\ SameOrb(c)
  BY SameParts
<1>2. UNCHANGED <<pc, on, job, state, refcnt, life, orbids>>
  BY DEF threadVars, connVars, recVars
<1>3. Records(c)'
  <2>1. Main \in Thread /\ Main \notin Worker /\ Only(Main)
    BY <1>2, ConstantsAssumption DEF Only, Thread
  <2> QED
    BY <1>1, <2>1, RecordsKept
<1>4. Stages(c)'
  <2>1. \A t \in Thread : /\ Told(t, c)' <=> Told(t, c)
                          /\ Breaks(t, c)' <=> Breaks(t, c)
    BY <1>2 DEF Told, Breaks, Has
  <2>2. \A j \in Job : Waits(c, j)' = Waits(c, j)
    BY <1>1 DEF SameQueue
  <2> QED
    BY <1>1, <1>2, <2>1, <2>2, StagesKept DEF SameState, SameOrb
<1>5. Refs(c)'
  <2>1. Held(c)' = Held(c) /\ (Own(c)' <=> Own(c))
    BY <1>2 DEF Held, Own, Mine
  <2> QED
    BY <1>1, <1>2, <2>1, RefsKept DEF SameOrb
<1> QED
  BY <1>3, <1>4, <1>5

\* A gentle client sends a message.
LEMMA SendGood ==
  ASSUME NEW c \in Conn, Shape, Shape', Gentle(c), Good(c), Send(c)
  PROVE  Good(c)'
<1> DEFINE n == Len(sent[c])
<1>1. Talk(c) /\ Tokens(c) /\ Records(c) /\ Stages(c) /\ Deaf(c) /\ Refs(c)
  BY DEF Good
<1>2. /\ c \notin hungup /\ ~SaidLast(c) /\ ~Ending(c)
      /\ UNCHANGED connVars /\ UNCHANGED recVars /\ UNCHANGED poolVars /\ UNCHANGED threadVars
      /\ UNCHANGED <<hungup, arrived, replied>>
  BY DEF Send, Gentle, Ending
<1>3. PICK k \in Speaks[client[c]] : /\ k \in Final => HasReplies(c)
                                     /\ sent' = [sent EXCEPT ![c] = Append(@, [kind |-> k, n |-> n + 1])]
  <2>1. PICK k \in Speaks[client[c]] :
               /\ k \in Final => client[c] \in Hasty \/ HasReplies(c)
               /\ \E i \in IF k = "cancel" THEN {j \in DOMAIN sent[c] : sent[c][j].kind \in Request}
                                           ELSE {Len(sent[c]) + 1} :
                    sent' = [sent EXCEPT ![c] = Append(@, [kind |-> k, n |-> i])]
    BY DEF Send
  <2>2. k # "cancel"
    BY GentleKinds DEF LastKinds
  <2> QED
    BY <2>1, <2>2 DEF Gentle
<1>4. k \in {"invoke", "locate", "close"} \cup LastKinds /\ k \in Message
  <2>1. k \in {"invoke", "locate", "close"} \cup LastKinds
    BY GentleKinds
  <2> QED
    BY <2>1 DEF LastKinds, Message, Request
<1>5. /\ n \in Nat /\ DOMAIN sent[c] = 1..n /\ sent[c] \in Seq(Job) /\ arrived[c] \in Nat
      /\ arrived[c] <= n
  BY DEF Shape, ClientShape
<1>6. /\ DOMAIN sent'[c] = 1..(n + 1) /\ Len(sent'[c]) = n + 1
      /\ sent'[c][n + 1] = [kind |-> k, n |-> n + 1]
      /\ \A i \in 1..n : sent'[c][i] = sent[c][i]
  <2> DEFINE m == [kind |-> k, n |-> n + 1]
  <2>1. sent'[c] = Append(sent[c], m)
    BY <1>3 DEF Shape, ClientShape
  <2> HIDE DEF m
  <2>2. /\ DOMAIN Append(sent[c], m) = 1..(n + 1) /\ Len(Append(sent[c], m)) = n + 1
        /\ Append(sent[c], m)[n + 1] = m
        /\ \A i \in 1..n : Append(sent[c], m)[i] = sent[c][i]
    BY <1>5
  <2> QED
    BY <2>1, <2>2 DEF m
<1> HIDE DEF n
<1>7. SaidLast(c)' <=> k \in Final
  <2>1. \A i \in 1..n : sent[c][i].kind \notin Final
    BY <1>2, <1>5 DEF SaidLast
  <2> QED
    BY <1>5, <1>6, <2>1 DEF SaidLast
<1>8. HasReplies(c) /\ k \in Final => HasReplies(c)'
  <2> SUFFICES ASSUME HasReplies(c), k \in Final, NEW i \in 1..MaxMsg, Awaits(c, i)' PROVE FALSE
    BY DEF HasReplies
  <2>1. i \in 1..(n + 1) /\ sent'[c][i].kind \in {"invoke", "locate"} /\ <<c, i>> \notin replied
    BY <1>2, <1>6 DEF Awaits
  <2>2. i # n + 1
    BY <1>6, <2>1 DEF Final
  <2>3. i \in 1..n /\ sent'[c][i] = sent[c][i]
    BY <1>5, <1>6, <2>1, <2>2
  <2> QED
    BY <1>5, <2>1, <2>3 DEF HasReplies, Awaits
<1>9. Talk(c)'
  <2>1. ASSUME NEW i \in DOMAIN sent'[c]
        PROVE  /\ sent'[c][i].kind \in {"invoke", "locate", "close"} \cup LastKinds
               /\ sent'[c][i].n = i
               /\ sent'[c][i].kind \in LastKinds => i = Len(sent'[c])
    <3>1. CASE i = n + 1
      BY <1>4, <1>6, <3>1
    <3>2. CASE i \in 1..n
      <4>1. sent[c][i].kind \notin LastKinds
        BY <1>2, <1>5, <3>2 DEF SaidLast, LastKinds, Final
      <4> QED
        BY <1>1, <1>5, <1>6, <3>2, <4>1 DEF Talk
    <3> QED
      BY <1>5, <1>6, <3>1, <3>2
  <2>2. Ending(c)' => HasReplies(c)'
    BY <1>2, <1>3, <1>7, <1>8 DEF Ending
  <2>3. c \notin hungup' /\ \A i \in 1..MaxMsg : <<c, i>> \in replied' => i <= arrived'[c]
    BY <1>1, <1>2 DEF Talk
  <2> QED
    BY <2>1, <2>2, <2>3 DEF Talk
<1>10. Tokens(c)'
  <2>1. SamePast(c)
    BY <1>2, <1>5, <1>6 DEF SamePast
  <2>2. SameQueue(c)
    BY <1>2, SameParts
  <2>3. \A t \in Thread : Has(t, c)' => Keeps(t, c)
    BY <1>2 DEF threadVars, Has, Keeps
  <2> QED
    BY <1>1, <2>1, <2>2, <2>3, TokensKept
<1>11. Records(c)' /\ Stages(c)' /\ Refs(c)'
  BY <1>1, <1>2, ServerStill
<1>12. Deaf(c)'
  <2>1. ~Quit(c)
    BY <1>1, <1>2 DEF Deaf
  <2>2. ~Quit(c)'
    <3>1. ~ReadLast(c) /\ Running(c)
      BY <2>1 DEF Quit
    <3>2. \A i \in 1..arrived[c] : sent'[c][i] = sent[c][i]
      BY <1>5, <1>6
    <3> QED
      BY <1>2, <3>1, <3>2 DEF Quit, ReadLast, Running, Is, connVars
  <2> QED
    BY <1>1, <1>2, <2>2 DEF Deaf, connVars
<1> QED
  BY <1>9, <1>10, <1>11, <1>12 DEF Good

\* It closes its end.
LEMMA HangupGood ==
  ASSUME NEW c \in Conn, Shape, Shape', Gentle(c), Good(c), Hangup(c)
  PROVE  Good(c)'
<1>1. Talk(c) /\ Tokens(c) /\ Records(c) /\ Stages(c) /\ Deaf(c) /\ Refs(c)
  BY DEF Good
<1>2. /\ UNCHANGED connVars /\ UNCHANGED recVars /\ UNCHANGED poolVars /\ UNCHANGED threadVars
      /\ UNCHANGED <<sent, arrived, replied>> /\ hungup' = hungup \cup {c}
      /\ Closed(c) \/ (~SaidLast(c) /\ HasReplies(c))
  BY DEF Hangup, Gentle
<1>3. HasReplies(c)
  <2>1. Closed(c) => ~Running(c)
    BY DEF Closed, Running, Is, S!Terminated
  <2> QED
    BY <1>1, <1>2, <2>1 DEF Deaf, Quit, Talk
<1>4. (SaidLast(c)' <=> SaidLast(c)) /\ HasReplies(c)' /\ (Closed(c)' <=> Closed(c))
  BY <1>2, <1>3 DEF SaidLast, HasReplies, Awaits, Closed, connVars
<1>5. Talk(c)'
  BY <1>1, <1>2, <1>4 DEF Talk
<1>6. Tokens(c)'
  <2>1. SamePast(c) /\ SameQueue(c)
    BY <1>2, SameParts DEF SamePast
  <2>2. \A t \in Thread : Has(t, c)' => Keeps(t, c)
    BY <1>2 DEF threadVars, Has, Keeps
  <2> QED
    BY <1>1, <2>1, <2>2, TokensKept
<1>7. Records(c)' /\ Stages(c)' /\ Refs(c)'
  BY <1>1, <1>2, ServerStill
<1>8. Deaf(c)'
  <2>1. Quit(c)' <=> Quit(c)
    BY <1>2 DEF Quit, ReadLast, Running, Is, connVars
  <2>2. Ending(c)'
    BY <1>2 DEF Ending
  <2> QED
    BY <1>1, <1>2, <2>1, <2>2 DEF Deaf, connVars, threadVars
<1> QED
  BY <1>5, <1>6, <1>7, <1>8 DEF Good

\* A connection is made.
LEMMA AcceptGood ==
  ASSUME NEW c \in Conn, Shape, Shape', Unborn(c), Accept(c)
  PROVE  Good(c)'
<1>1. /\ UNCHANGED clientVars /\ UNCHANGED recVars /\ UNCHANGED poolVars /\ UNCHANGED threadVars
      /\ life' = [life EXCEPT ![c] = "open"] /\ conns' = conns \cup {c} /\ held' = held
      /\ refcnt' = [refcnt EXCEPT ![c] = 1]
      /\ SetState(c, S!EndChange(S!BeginChange(state[c], S!Active)))
  BY DEF Accept, GIOPConn, start
<1>2. SameRecs(c) /\ SameQueue(c) /\ SameOrb(c) /\ SameTalk(c)
  BY <1>1, SameParts
<1>3. state'[c] = [current |-> 1, new |-> 1, active |-> 0]
  <2>1. state[c] = [current |-> 0, new |-> 0, active |-> 0]
    BY DEF Unborn, S!Fresh, S!Initial
  <2>2. S!BeginChange(state[c], 1) = [current |-> 0, new |-> 1, active |-> 0]
    BY <2>1 DEF S!BeginChange
  <2>3. S!EndChange(S!BeginChange(state[c], 1)) = [current |-> 1, new |-> 1, active |-> 0]
    BY <2>2 DEF S!EndChange
  <2>4. state' = [state EXCEPT ![c] = S!EndChange(S!BeginChange(state[c], 1))]
    BY <1>1 DEF SetState, S!Active
  <2> QED
    BY <2>3, <2>4 DEF Shape, ConnShape
<1>4. refcnt'[c] = 1 /\ life'[c] = "open"
  BY <1>1 DEF Shape, ConnShape
<1>5. \A t \in Thread : on'[t] # c
  BY <1>1 DEF threadVars, Unborn
<1>6. /\ sent'[c] = <<>> /\ arrived'[c] = 0 /\ c \notin hungup' /\ c \notin held'
      /\ DOMAIN sent'[c] = {} /\ Len(sent'[c]) = 0
  BY <1>1, <1>2 DEF Unborn, SameTalk, SameSent
<1>7. Is(c, 1, 1)' /\ Running(c)'
  BY <1>3 DEF Is, Running
<1>8. /\ \A n \in 1..MaxMsg : <<c, n>> \notin replied' /\ orbids'[<<c, n>>] = "none"
      /\ \A j \in Job : Waits(c, j)' = 0
      /\ Closes(c)' = 0 /\ Kills(c)' = 0
  BY <1>2 DEF Unborn, SameTalk, SameSent, SameRecs, SameRec, SameQueue, SameOrb
<1>9. Talk(c)'
  <2>1. ~SaidLast(c)'
    BY <1>6 DEF SaidLast
  <2> QED
    BY <1>6, <1>8, <2>1 DEF Talk, Ending
<1>10. Tokens(c)'
  <2>1. \A t \in Thread : ~Has(t, c)'
    BY <1>5 DEF Has
  <2>2. \A j \in Job : Queues(c, j)'
    BY <1>8 DEF Queues
  <2> QED
    BY <2>1, <2>2 DEF Tokens
<1>11. Records(c)'
  BY <1>5, <1>8 DEF Records, Thread
<1>12. Stages(c)'
  <2>1. \A t \in Thread : ~Told(t, c)'
    BY <1>5 DEF Told
  <2>2. ~Is(c, 2, 2)' /\ ~Is(c, 3, 3)' /\ ~(state'[c].new > state'[c].current)
    BY <1>3 DEF Is
  <2> QED
    BY <1>5, <1>7, <1>8, <2>1, <2>2 DEF Stages
<1>13. Deaf(c)'
  <2>1. ~Quit(c)'
    BY <1>6, <1>7 DEF Quit, ReadLast
  <2> QED
    BY <1>3, <1>6, <2>1 DEF Deaf
<1>14. Refs(c)'
  <2>1. Held(c)' = {}
    BY <1>8 DEF Held, Rec
  <2>2. Own(c)'
    BY <1>3 DEF Own
  <2>3. Cardinality(Held(c)') = 0
    BY <2>1, FS_EmptySet
  <2> QED
    BY <1>4, <1>8, <2>2, <2>3 DEF Refs
<1> QED
  BY <1>9, <1>10, <1>11, <1>12, <1>13, <1>14 DEF Good

\* The main thread moves.
InLoop == {"free", "reading", "read"}
LEMMA MainMoves ==
  ASSUME NEW c \in Conn, Shape, Shape', Records(c), Refs(c), Only(Main),
         pc[Main] \in InLoop, pc'[Main] \in InLoop, UNCHANGED recVars,
         refcnt'[c] = refcnt[c], life'[c] = life[c], Kills(c)' = Kills(c),
         state'[c].current = 4 <=> state[c].current = 4
  PROVE  /\ Records(c)' /\ Refs(c)'
         /\ \A t \in Thread : /\ Told(t, c)' <=> Told(t, c)
                              /\ t # Main => /\ Has(t, c)' <=> Has(t, c)
                                             /\ Breaks(t, c)' <=> Breaks(t, c)
                                             /\ Has(t, c) => Keeps(t, c)
                              /\ (on[t] = c /\ pc[t] \in Locked) \/ (on'[t] = c /\ pc'[t] \in Locked) =>
                                   on'[t] = on[t] /\ pc'[t] = pc[t]
<1>1. Main \in Thread /\ Main \notin Worker /\ Main \notin OrbWorker
  BY ConstantsAssumption DEF Thread
<1>2. \A t \in Thread : t # Main => SameThread(t)
  BY DEF Only, SameThread
<1>3. \A t \in Thread : /\ Told(t, c)' <=> Told(t, c)
                        /\ t # Main => /\ Has(t, c)' <=> Has(t, c)
                                       /\ Breaks(t, c)' <=> Breaks(t, c)
                                       /\ Has(t, c) => Keeps(t, c)
  BY <1>1, <1>2 DEF Told, Has, Breaks, Keeps, SameThread
<1>4. \A t \in Thread :
        (on[t] = c /\ pc[t] \in Locked) \/ (on'[t] = c /\ pc'[t] \in Locked) =>
          on'[t] = on[t] /\ pc'[t] = pc[t]
  BY <1>1, <1>2 DEF InLoop, Locked, SameThread
<1>5. SameRecs(c)
  BY SameParts
<1>6. Records(c)'
  BY <1>1, <1>5, RecordsKept
<1>7. Refs(c)'
  <2>1. \A w \in Worker : SameThread(w)
    BY <1>1, <1>2 DEF Thread
  <2>2. \A n \in 1..MaxMsg : orbids'[<<c, n>>] # "none" <=> orbids[<<c, n>>] # "none"
    BY DEF recVars
  <2>3. Held(c)' = Held(c)
    BY <2>1, <2>2, HeldKept
  <2>4. \A t \in Thread : pc'[t] = "abort" /\ on'[t] = c <=> pc[t] = "abort" /\ on[t] = c
    BY <1>2 DEF InLoop, SameThread
  <2>5. Own(c)' <=> Own(c)
    BY <2>4 DEF Own
  <2> QED
    BY <2>3, <2>5, RefsKept
<1> QED
  BY <1>3, <1>4, <1>6, <1>7

\* The main thread turns to a connection that is not to be closed.
LEMMA SelectGood ==
  ASSUME NEW c \in Conn, Shape, Shape', Good(c), Select(c)
  PROVE  Good(c)'
<1>1. Talk(c) /\ Tokens(c) /\ Records(c) /\ Stages(c) /\ Deaf(c) /\ Refs(c)
  BY DEF Good
<1>2. /\ Only(Main) /\ pc[Main] = "free" /\ pc'[Main] = "reading" /\ c \in selected
      /\ UNCHANGED clientVars /\ UNCHANGED connVars /\ UNCHANGED recVars /\ UNCHANGED poolVars
  BY SelectOthers DEF Select
<1>3. SameTalk(c) /\ SameQueue(c) /\ SameOrb(c) /\ SameState(c)
  BY <1>2, SameParts DEF SameState, connVars
<1>4. /\ Records(c)' /\ Refs(c)'
      /\ \A t \in Thread : /\ Told(t, c)' <=> Told(t, c)
                           /\ t # Main => /\ Has(t, c)' <=> Has(t, c)
                                          /\ Breaks(t, c)' <=> Breaks(t, c)
                                          /\ Has(t, c) => Keeps(t, c)
                           /\ (on[t] = c /\ pc[t] \in Locked) \/ (on'[t] = c /\ pc'[t] \in Locked) =>
                                on'[t] = on[t] /\ pc'[t] = pc[t]
  <2>1. refcnt'[c] = refcnt[c] /\ life'[c] = life[c] /\ state'[c] = state[c]
    BY <1>2 DEF connVars
  <2> QED
    BY <1>1, <1>2, <1>3, <2>1, MainMoves DEF InLoop, SameOrb
<1>5. ~Has(Main, c)' /\ ~Breaks(Main, c)'
  BY <1>2 DEF Has, Breaks
<1>6. Talk(c)'
  BY <1>1, <1>3, TalkKept DEF SameState
<1>7. Tokens(c)'
  BY <1>1, <1>3, <1>4, <1>5, TokensKept DEF SameTalk, SameSent, SamePast
<1>8. Stages(c)'
  <2>1. \A t \in Thread : Breaks(t, c)' => Breaks(t, c)
    BY <1>4, <1>5
  <2>2. \A j \in Job : Waits(c, j)' = Waits(c, j)
    BY <1>3 DEF SameQueue
  <2> QED
    BY <1>1, <1>3, <1>4, <2>1, <2>2, StagesKept DEF SameOrb
<1>9. Deaf(c)'
  <2>1. ~Quit(c)
    BY <1>1, <1>2 DEF Deaf
  <2>2. ~Quit(c)'
    BY <1>3, <2>1 DEF Quit, ReadLast, Running, Is, SameTalk, SameSent, SameState
  <2> QED
    BY <1>1, <1>2, <2>2 DEF Deaf, connVars
<1> QED
  BY <1>4, <1>6, <1>7, <1>8, <1>9 DEF Good

\* It reads a message.
LEMMA ReadMessageGood ==
  ASSUME NEW c \in Conn, c = on[Main], Shape, Shape', Good(c), ReadMessage
  PROVE  Good(c)'
<1> DEFINE n == arrived[c] + 1
           m == sent[c][n]
<1>1. Talk(c) /\ Tokens(c) /\ Records(c) /\ Stages(c) /\ Deaf(c) /\ Refs(c)
  BY DEF Good
<1>2. /\ pc[Main] = "reading" /\ arrived[c] < Len(sent[c])
      /\ pc' = [pc EXCEPT ![Main] = "read"] /\ job' = [job EXCEPT ![Main] = m] /\ on' = on
      /\ arrived' = [arrived EXCEPT ![c] = @ + 1]
      /\ selected' = IF m.kind \in LastKinds THEN selected \ {c} ELSE selected
      /\ UNCHANGED <<sent, hungup, replied, life, held, state, refcnt, conns>>
      /\ UNCHANGED recVars /\ UNCHANGED poolVars
  BY DEF ReadMessage, At, LastKinds
<1>3. /\ arrived[c] \in Nat /\ Len(sent[c]) \in Nat /\ DOMAIN sent[c] = 1..Len(sent[c])
      /\ Len(sent[c]) <= MaxMsg /\ MaxMsg \in Nat
      /\ n \in DOMAIN sent[c] /\ n \in 1..MaxMsg /\ m \in Job /\ arrived'[c] = n
  <2>1. /\ arrived[c] \in Nat /\ Len(sent[c]) \in Nat /\ DOMAIN sent[c] = 1..Len(sent[c])
        /\ Len(sent[c]) <= MaxMsg /\ MaxMsg \in Nat
    BY ConstantsAssumption DEF Shape, ClientShape
  <2>2. n \in DOMAIN sent[c] /\ n \in 1..MaxMsg
    BY <1>2, <2>1
  <2>3. m \in Job
    BY <2>2 DEF Shape, ClientShape
  <2>4. arrived'[c] = n
    BY <1>2 DEF Shape, ClientShape
  <2> QED
    BY <2>1, <2>2, <2>3, <2>4
<1>4. /\ Main \in Thread /\ Only(Main) /\ pc'[Main] = "read" /\ job'[Main] = m /\ on'[Main] = c
  <2>1. Main \in Thread
    BY DEF Thread
  <2> HIDE DEF m
  <2> QED
    BY <1>2, <2>1 DEF Only, Shape, ThreadShape
<1>5. /\ m.kind \in {"invoke", "locate", "close"} \cup LastKinds
      /\ m.n = n
      /\ m.kind \in LastKinds => n = Len(sent[c])
  BY <1>1, <1>3 DEF Talk
<1> HIDE DEF m, n
<1>6. SameQueue(c) /\ SameOrb(c) /\ SameState(c)
  BY <1>2, SameParts DEF SameState
<1>7. /\ Records(c)' /\ Refs(c)'
      /\ \A t \in Thread : /\ Told(t, c)' <=> Told(t, c)
                           /\ t # Main => /\ Has(t, c)' <=> Has(t, c)
                                          /\ Breaks(t, c)' <=> Breaks(t, c)
                                          /\ Has(t, c) => Keeps(t, c)
                           /\ (on[t] = c /\ pc[t] \in Locked) \/ (on'[t] = c /\ pc'[t] \in Locked) =>
                                on'[t] = on[t] /\ pc'[t] = pc[t]
  BY <1>1, <1>2, <1>4, <1>6, MainMoves DEF InLoop, SameOrb
<1>8. ~Quit(c) /\ ~ReadLast(c) /\ Running(c)
  BY <1>1, <1>2 DEF Deaf, Quit
<1>9. Talk(c)'
  <2>1. (SaidLast(c)' <=> SaidLast(c)) /\ (Ending(c)' <=> Ending(c)) /\ (HasReplies(c)' <=> HasReplies(c))
        /\ (Closed(c)' <=> Closed(c))
    BY <1>2 DEF SaidLast, Ending, HasReplies, Awaits, Closed
  <2>2. \A i \in 1..MaxMsg : <<c, i>> \in replied' => i <= arrived'[c]
    BY <1>1, <1>2, <1>3 DEF Talk, n
  <2> QED
    BY <1>1, <1>2, <2>1, <2>2 DEF Talk
<1>10. Tokens(c)'
  <2>1. ASSUME NEW j \in Job PROVE Queues(c, j)'
    <3>1. Waits(c, j)' = Waits(c, j) /\ Queues(c, j) /\ j.n \in 1..MaxMsg
      BY <1>1, <1>6 DEF Tokens, SameQueue, Job
    <3> QED
      BY <1>2, <1>3, <3>1 DEF Queues, n
  <2>2. ASSUME NEW t \in Thread, Has(t, c)' PROVE Holds(t, c)'
    <3>1. CASE t = Main
      <4>1. PICK j \in Job : j = m /\ j = job'[t]
        BY <1>3, <1>4, <3>1
      <4>2. Waits(c, j) = 0 /\ Waits(c, j)' = 0
        <5>1. Queues(c, j) /\ Waits(c, j)' = Waits(c, j)
          BY <1>1, <1>6 DEF Tokens, SameQueue
        <5> QED
          BY <1>3, <1>5, <4>1, <5>1 DEF Queues, n
      <4>3. Waits(c, job[t])' = 0
        BY <4>1, <4>2 DEF Waits
      <4>4. <<c, n>> \notin replied
        BY <1>1, <1>3 DEF Talk, n
      <4> QED
        BY <1>2, <1>3, <1>4, <1>5, <3>1, <4>3, <4>4 DEF Holds, m
    <3>2. CASE t # Main
      <4>1. Has(t, c) /\ Keeps(t, c) /\ Holds(t, c)
        BY <1>1, <1>7, <2>2, <3>2 DEF Tokens
      <4>2. job[t] \in Job /\ job'[t] = job[t] /\ job[t].n \in 1..MaxMsg
        BY <4>1 DEF Shape, ThreadShape, Job, Keeps
      <4>3. Waits(c, job[t])' = Waits(c, job[t])
        <5>1. PICK j \in Job : j = job[t] /\ j = job'[t]
          BY <4>2
        <5>2. Waits(c, j)' = Waits(c, j)
          BY <1>6 DEF SameQueue
        <5> QED
          BY <5>1, <5>2 DEF Waits
      <4>4. pc[t] \in {"drop", "erase"} => pc'[t] \in {"drop", "erase"}
        BY <4>1 DEF Keeps
      <4> QED
        BY <1>2, <1>3, <4>1, <4>2, <4>3, <4>4 DEF Holds, n
    <3> QED
      BY <3>1, <3>2
  <2>3. ASSUME NEW t \in Thread, NEW u \in Thread, Has(t, c)', Has(u, c)', job'[t].n = job'[u].n
        PROVE  t = u
    <3>1. ASSUME NEW v \in Thread, v # Main, Has(v, c)' PROVE Has(v, c) /\ job'[v] = job[v] /\ job[v].n # n
      <4>1. Has(v, c) /\ job'[v] = job[v] /\ Holds(v, c)
        BY <1>1, <1>7, <3>1 DEF Tokens, Keeps
      <4>2. job[v].n <= arrived[c]
        BY <4>1 DEF Holds
      <4> QED
        BY <1>3, <4>1, <4>2 DEF n
    <3> QED
      BY <1>1, <1>4, <1>5, <2>3, <3>1 DEF Tokens
  <2> QED
    BY <2>1, <2>2, <2>3 DEF Tokens
<1>11. Stages(c)'
  <2>1. \A t \in Thread : Breaks(t, c)' => Breaks(t, c) \/ Running(c)
    BY <1>8
  <2>2. \A j \in Job : Waits(c, j)' = Waits(c, j)
    BY <1>6 DEF SameQueue
  <2> QED
    BY <1>1, <1>6, <1>7, <2>1, <2>2, StagesKept DEF SameOrb
<1>12. Deaf(c)'
  <2>1. Running(c)'
    BY <1>6, <1>8 DEF Running, Is, SameState
  <2>2. ReadLast(c)' => m.kind \in LastKinds
    <3>1. \A i \in 1..n : i \in 1..arrived[c] \/ i = n
      BY <1>3 DEF n
    <3> QED
      BY <1>2, <1>3, <1>8, <3>1 DEF ReadLast, m
  <2>3. Quit(c)' => m.kind \in LastKinds
    BY <2>1, <2>2 DEF Quit
  <2>4. m.kind \in LastKinds =>
          /\ c \notin selected' /\ arrived'[c] = Len(sent'[c]) /\ Ending(c)'
    <3>1. m.kind \in LastKinds => SaidLast(c)'
      BY <1>2, <1>3 DEF SaidLast, m, LastKinds, Final
    <3> QED
      BY <1>2, <1>3, <1>5, <3>1 DEF Ending
  <2> QED
    BY <1>1, <1>2, <1>4, <2>3, <2>4 DEF Deaf
<1> QED
  BY <1>7, <1>9, <1>10, <1>11, <1>12 DEF Good

\* A message in the hands of the main thread is of an active connection.
LEMMA ReadRunning ==
  ASSUME NEW c \in Conn, c = on[Main], pc[Main] = "read", Good(c)
  PROVE  /\ Main \in Thread /\ Has(Main, c) /\ Running(c)
         /\ Quit(c) => job[Main].kind \in LastKinds
<1>1. Main \in Thread /\ Has(Main, c)
  BY DEF Thread, Has
<1>2. Stages(c) /\ Deaf(c)
  BY DEF Good
<1>3. CASE Quit(c)
  <2>1. job[Main].kind \in LastKinds
    BY <1>2, <1>3 DEF Deaf
  <2>2. Breaks(Main, c)
    BY <1>1, <2>1 DEF Breaks
  <2> QED
    BY <1>1, <1>2, <2>1, <2>2 DEF Stages, Stage
<1>4. CASE ~Quit(c)
  BY <1>1, <1>4 DEF Quit
<1> QED
  BY <1>1, <1>3, <1>4

\* It hands the message over.
LEMMA input_readyGood ==
  ASSUME NEW c \in Conn, c = on[Main], Shape, Shape', Good(c), input_ready
  PROVE  Good(c)'
<1> DEFINE m == job[Main]
<1>1. Talk(c) /\ Tokens(c) /\ Records(c) /\ Stages(c) /\ Deaf(c) /\ Refs(c)
  BY DEF Good
<1>2. pc[Main] = "read" /\ m.kind # "illframed"
  BY DEF input_ready, At
<1>3. /\ Main \in Thread /\ Has(Main, c) /\ Running(c)
      /\ Quit(c) => m.kind \in LastKinds
  BY <1>2, ReadRunning
<1>4. /\ SetState(c, S!active_ref(state[c]))
      /\ decode' = Append(decode, [conn |-> c, job |-> m])
      /\ IF m.kind = "garbled" THEN Free(Main) ELSE Goto(Main, "reading")
      /\ UNCHANGED clientVars /\ UNCHANGED recVars /\ orb' = orb
      /\ UNCHANGED <<life, refcnt, selected, conns, held>>
  <2>1. S!ActiveRefOK(state[c])
    BY <1>3 DEF Running, Is, S!ActiveRefOK
  <2> QED
    BY <2>1 DEF input_ready
<1>5. /\ Only(Main) /\ pc'[Main] \in {"free", "reading"}
      /\ m.kind = "garbled" => on'[Main] = NoConn
  BY <1>3, <1>4, GotoOnly, FreeOnly
<1>6. SameState(c) /\ SameTalk(c) /\ SameOrb(c)
  <2>1. /\ state[c] \in ConnState /\ S!active_ref(state[c]) \in ConnState
        /\ S!active_ref(state[c]).current = state[c].current
        /\ S!active_ref(state[c]).new = state[c].new
    BY StateMethods DEF Shape, ConnShape
  <2>2. state'[c] = S!active_ref(state[c])
    BY <1>4, <2>1, SetStateShape DEF Shape
  <2> QED
    BY <1>4, <2>1, <2>2, SameParts, SameQueues DEF SameState
<1>7. /\ Records(c)' /\ Refs(c)'
      /\ \A t \in Thread : /\ Told(t, c)' <=> Told(t, c)
                           /\ t # Main => /\ Has(t, c)' <=> Has(t, c)
                                          /\ Breaks(t, c)' <=> Breaks(t, c)
                                          /\ Has(t, c) => Keeps(t, c)
                           /\ (on[t] = c /\ pc[t] \in Locked) \/ (on'[t] = c /\ pc'[t] \in Locked) =>
                                on'[t] = on[t] /\ pc'[t] = pc[t]
  BY <1>1, <1>2, <1>4, <1>5, <1>6, MainMoves DEF InLoop, SameState, SameOrb
<1>8. /\ m \in Job /\ m.n \in 1..MaxMsg /\ m.n \in 1..arrived[c] /\ m = sent[c][m.n]
      /\ Waits(c, m) = 0 /\ m.kind \in {"invoke", "locate", "close"} \cup LastKinds
      /\ <<c, m.n>> \notin replied
  <2>1. <<c, m.n>> \notin replied
    BY <1>1, <1>2, <1>3 DEF Tokens, Holds
  <2> QED
    BY <1>1, <1>3, <2>1, InHand
<1>9. \A j \in Job : Waits(c, j) \in Nat /\ Waits(c, j)' = Waits(c, j) + (IF j = m THEN 1 ELSE 0)
  BY <1>2, <1>4, <1>8, DecodeAppend
<1>10. ~Has(Main, c)' /\ ~Breaks(Main, c)'
  BY <1>5 DEF Has, Breaks
<1>11. Talk(c)'
  BY <1>1, <1>6, TalkKept DEF SameState
<1>12. Tokens(c)'
  <2>1. ASSUME NEW j \in Job PROVE Queues(c, j)'
    <3>1. CASE j = m
      <4>1. Waits(c, j)' = 1
        BY <1>8, <1>9, <3>1
      <4>2. arrived[c] \in Nat
        BY DEF Shape, ClientShape
      <4> QED
        BY <1>2, <1>4, <1>8, <3>1, <4>1, <4>2 DEF Queues, clientVars
    <3>2. CASE j # m
      <4>1. Waits(c, j)' = Waits(c, j) /\ Queues(c, j)
        BY <1>1, <1>9, <3>2 DEF Tokens
      <4> QED
        BY <1>4, <4>1 DEF Queues, clientVars
    <3> QED
      BY <3>1, <3>2
  <2>2. ASSUME NEW t \in Thread, Has(t, c)' PROVE Holds(t, c)'
    <3>1. Has(t, c) /\ Keeps(t, c) /\ Holds(t, c) /\ t # Main
      BY <1>1, <1>7, <1>10, <2>2 DEF Tokens
    <3>2. PICK j \in Job : j = job[t] /\ j = job'[t]
      BY <3>1 DEF Keeps, Shape, ThreadShape
    <3>3. j # m
      BY <1>1, <1>3, <3>1, <3>2 DEF Tokens
    <3>4. Waits(c, j)' = Waits(c, j)
      BY <1>9, <3>3
    <3>5. Waits(c, job[t])' = Waits(c, job[t])
      BY <3>2, <3>4 DEF Waits
    <3>6. pc[t] \in {"drop", "erase"} => pc'[t] \in {"drop", "erase"}
      BY <3>1 DEF Keeps
    <3> QED
      BY <1>4, <3>1, <3>2, <3>5, <3>6 DEF Holds, clientVars
  <2>3. ASSUME NEW t \in Thread, NEW u \in Thread, Has(t, c)', Has(u, c)', job'[t].n = job'[u].n
        PROVE  t = u
    BY <1>1, <1>7, <1>10, <2>3 DEF Tokens, Keeps
  <2> QED
    BY <2>1, <2>2, <2>3 DEF Tokens
<1>13. Stages(c)'
  <2>1. /\ \A t \in Thread : Breaks(t, c)' => Breaks(t, c) \/ Running(c)
        /\ \A j \in Job : Waits(c, j)' > 0 /\ j.kind = "garbled" => Waits(c, j) > 0 \/ Running(c)
    BY <1>3
  <2> QED
    BY <1>1, <1>6, <1>7, <2>1, StagesKept DEF SameOrb
<1>14. Deaf(c)'
  <2>1. Quit(c)' <=> Quit(c)
    BY <1>6 DEF Quit, ReadLast, Running, Is, SameTalk, SameSent, SameState
  <2>2. Ending(c)' <=> Ending(c)
    BY <1>6 DEF Ending, SaidLast, SameTalk, SameSent
  <2>3. Quit(c) => on'[Main] # c
    BY <1>2, <1>3, <1>5, ConstantsAssumption DEF LastKinds
  <2>4. state'[c].current = 1 /\ state'[c].new = 1
    BY <1>3, <1>6 DEF SameState, Running, Is
  <2> QED
    BY <1>1, <1>4, <2>1, <2>2, <2>3, <2>4 DEF Deaf, clientVars
<1> QED
  BY <1>7, <1>11, <1>12, <1>13, <1>14 DEF Good

\* It closes the connection: of a message that is too large, or of a client
\* that has gone.
LEMMA MainCloses ==
  ASSUME NEW c \in Conn, c = on[Main], Shape, Shape', Good(c), Running(c),
         close_connection(c), Free(Main), pc[Main] \in InLoop,
         UNCHANGED clientVars, UNCHANGED recVars, decode' = decode,
         UNCHANGED <<life, held, refcnt, conns>>,
         selected' \in {selected, selected \ {c}}, c \notin selected',
         arrived[c] = Len(sent[c]), Ending(c),
         \A t \in Thread : t # Main => ~Breaks(t, c),
         \A j \in Job : Waits(c, j) > 0 => j.kind # "garbled"
  PROVE  Good(c)'
<1>1. Talk(c) /\ Tokens(c) /\ Records(c) /\ Stages(c) /\ Deaf(c) /\ Refs(c)
  BY DEF Good
<1>2. Main \in Thread /\ Only(Main) /\ pc'[Main] = "free" /\ on'[Main] = NoConn
  <2>1. Main \in Thread
    BY DEF Thread
  <2> QED
    BY <2>1, FreeOnly
<1>3. state[c].current = 1 /\ state[c].new = 1
  BY DEF Running, Is
<1>4. /\ Is(c, 2, 2)' /\ Closes(c)' = Closes(c) + 1 /\ Kills(c)' = Kills(c)
  BY <1>3, CloseEffect
<1>5. SameTalk(c) /\ SameQueue(c)
  BY SameParts, SameQueues
<1>6. state'[c].current = 2 /\ state'[c].new = 2
  BY <1>4 DEF Is
<1>7. /\ Records(c)' /\ Refs(c)'
      /\ \A t \in Thread : /\ Told(t, c)' <=> Told(t, c)
                           /\ t # Main => /\ Has(t, c)' <=> Has(t, c)
                                          /\ Breaks(t, c)' <=> Breaks(t, c)
                                          /\ Has(t, c) => Keeps(t, c)
                           /\ (on[t] = c /\ pc[t] \in Locked) \/ (on'[t] = c /\ pc'[t] \in Locked) =>
                                on'[t] = on[t] /\ pc'[t] = pc[t]
  BY <1>1, <1>2, <1>3, <1>4, <1>6, MainMoves DEF InLoop
<1>8. ~Has(Main, c)' /\ ~Breaks(Main, c)'
  BY <1>2 DEF Has, Breaks
<1>9. Talk(c)'
  BY <1>1, <1>3, <1>5, TalkKept
<1>10. Tokens(c)'
  BY <1>1, <1>5, <1>7, <1>8, TokensKept DEF SameTalk, SameSent, SamePast
<1>11. Stages(c)'
  <2>1. Closes(c) = 0
    BY <1>1, <1>3 DEF Stages, Is
  <2>2. \A t \in Thread : ~Told(t, c)
    BY <1>1, <1>3 DEF Stages, Stage, Told, Is
  <2>3. ASSUME NEW t \in Thread, on[t] = c PROVE pc[t] \notin Locked
    BY <1>1, <1>3, <2>3 DEF Stages, Stage, Is, Locked
  <2>4. ASSUME NEW t \in Thread, on'[t] = c PROVE Stage(t, c)'
    <3>1. t # Main
      BY <1>2, <2>4, ConstantsAssumption
    <3>2. on[t] = c /\ pc'[t] = pc[t]
      BY <1>2, <2>4, <3>1 DEF Only
    <3>3. pc'[t] \notin Locked
      BY <2>3, <3>2
    <3>4. ~Breaks(t, c)' /\ ~Told(t, c)'
      BY <1>7, <2>2, <3>1
    <3> QED
      BY <3>3, <3>4 DEF Stage, Locked
  <2>5. \A j \in Job : Waits(c, j)' > 0 => j.kind # "garbled"
    BY <1>5 DEF SameQueue
  <2>6. Closes(c)' = 1 /\ \A t \in Thread : ~Told(t, c)'
    BY <1>4, <1>7, <2>1, <2>2
  <2>7. ~Is(c, 3, 3)' /\ ~(state'[c].new > state'[c].current)
    BY <1>6 DEF Is
  <2> QED
    BY <1>4, <2>4, <2>5, <2>6, <2>7 DEF Stages
<1>12. Deaf(c)'
  <2>1. Ending(c)' /\ arrived'[c] = Len(sent'[c])
    BY <1>5 DEF Ending, SaidLast, SameTalk, SameSent
  <2>2. on'[Main] # c
    BY <1>2, ConstantsAssumption
  <2> QED
    BY <1>1, <1>6, <2>1, <2>2 DEF Deaf
<1> QED
  BY <1>7, <1>9, <1>10, <1>11, <1>12 DEF Good

\* A message it gives up on is the last one.
LEMMA ReadErrorGood ==
  ASSUME NEW c \in Conn, c = on[Main], Shape, Shape', Good(c), ReadError
  PROVE  Good(c)'
<1>1. Talk(c) /\ Tokens(c) /\ Records(c) /\ Stages(c) /\ Deaf(c) /\ Refs(c)
  BY DEF Good
<1>2. /\ pc[Main] = "read" /\ job[Main].kind = "illframed" /\ close_connection(c) /\ Free(Main)
      /\ UNCHANGED clientVars /\ UNCHANGED recVars /\ decode' = decode
      /\ UNCHANGED <<life, held, refcnt, conns, selected>>
  BY DEF ReadError, At
<1>3. Main \in Thread /\ Has(Main, c) /\ Running(c)
  BY <1>2, ReadRunning
<1>4. Breaks(Main, c)
  BY <1>2, <1>3 DEF Breaks, LastKinds
<1>5. /\ arrived[c] = Len(sent[c]) /\ ReadLast(c) /\ SaidLast(c)
      /\ \A u \in Thread : Breaks(u, c) => u = Main
      /\ \A j \in Job : Waits(c, j) > 0 => j.kind # "garbled"
  BY <1>1, <1>3, <1>4, Breaker
<1>6. c \notin selected /\ Ending(c)
  BY <1>1, <1>5 DEF Deaf, Quit
<1>7. \A t \in Thread : t # Main => ~Breaks(t, c)
  BY <1>5
<1> QED
  BY <1>2, <1>3, <1>5, <1>6, <1>7, MainCloses DEF InLoop

\* There is nothing left to read.
LEMMA ReadEndGood ==
  ASSUME NEW c \in Conn, c = on[Main], Shape, Shape', Good(c), ReadEnd
  PROVE  Good(c)'
<1>1. Talk(c) /\ Tokens(c) /\ Records(c) /\ Stages(c) /\ Deaf(c) /\ Refs(c)
  BY DEF Good
<1>2. /\ pc[Main] = "reading" /\ Free(Main)
      /\ Closed(c) \/ arrived[c] = Len(sent[c])
      /\ IF EOF(c) THEN selected' = selected \ {c} /\ close_connection(c)
                   ELSE UNCHANGED <<selected, state, orb>>
      /\ UNCHANGED clientVars /\ UNCHANGED recVars /\ decode' = decode
      /\ UNCHANGED <<life, held, refcnt, conns>>
  BY DEF ReadEnd, At
<1>3. ~Quit(c) /\ ~ReadLast(c) /\ Running(c)
  BY <1>1, <1>2 DEF Deaf, Quit
<1>4. ~Closed(c) /\ arrived[c] = Len(sent[c])
  BY <1>2, <1>3 DEF Running, Is, Closed, S!Terminated
<1>5. Main \in Thread /\ Only(Main) /\ pc'[Main] = "free" /\ on'[Main] = NoConn
  <2>1. Main \in Thread
    BY DEF Thread
  <2> QED
    BY <1>2, <2>1, FreeOnly
<1>6. CASE EOF(c)
  <2>1. Ending(c)
    BY <1>4, <1>6 DEF EOF, Ending
  <2>2. \A t \in Thread : ~Breaks(t, c)
    BY <1>1, <1>3, Breaker
  <2>3. ASSUME NEW j \in Job, Waits(c, j) > 0 PROVE j.kind # "garbled"
    <3>1. /\ j.n \in 1..arrived[c] /\ j = sent[c][j.n]
      BY <1>1, <2>3, InQueue
    <3> QED
      BY <1>3, <3>1 DEF ReadLast, LastKinds
  <2>4. c \notin selected' /\ selected' \in {selected, selected \ {c}} /\ close_connection(c)
    BY <1>2, <1>6
  <2> QED
    BY <1>2, <1>3, <1>4, <2>1, <2>2, <2>3, <2>4, MainCloses DEF InLoop
<1>7. CASE ~EOF(c)
  <2>1. UNCHANGED <<selected, state, orb>>
    BY <1>2, <1>7
  <2>2. SameTalk(c) /\ SameQueue(c) /\ SameOrb(c) /\ SameState(c)
    BY <1>2, <2>1, SameParts, SameQueues DEF SameState
  <2>3. /\ Records(c)' /\ Refs(c)'
        /\ \A t \in Thread : /\ Told(t, c)' <=> Told(t, c)
                             /\ t # Main => /\ Has(t, c)' <=> Has(t, c)
                                            /\ Breaks(t, c)' <=> Breaks(t, c)
                                            /\ Has(t, c) => Keeps(t, c)
                             /\ (on[t] = c /\ pc[t] \in Locked) \/ (on'[t] = c /\ pc'[t] \in Locked) =>
                                  on'[t] = on[t] /\ pc'[t] = pc[t]
    BY <1>1, <1>2, <1>5, <2>1, <2>2, MainMoves DEF InLoop, SameOrb
  <2>4. ~Has(Main, c)' /\ ~Breaks(Main, c)'
    BY <1>5 DEF Has, Breaks
  <2>5. Talk(c)'
    BY <1>1, <2>2, TalkKept DEF SameState
  <2>6. Tokens(c)'
    BY <1>1, <2>2, <2>3, <2>4, TokensKept DEF SameTalk, SameSent, SamePast
  <2>7. Stages(c)'
    <3>1. \A t \in Thread : Breaks(t, c)' => Breaks(t, c)
      BY <2>3, <2>4
    <3>2. \A j \in Job : Waits(c, j)' = Waits(c, j)
      BY <2>2 DEF SameQueue
    <3> QED
      BY <1>1, <2>2, <2>3, <3>1, <3>2, StagesKept DEF SameOrb
  <2>8. Deaf(c)'
    <3>1. on'[Main] # c
      BY <1>5, ConstantsAssumption
    <3> QED
      BY <1>1, <1>2, <2>1, <2>2, <3>1, DeafKept DEF SameTalk
  <2> QED
    BY <2>3, <2>5, <2>6, <2>7, <2>8 DEF Good
<1> QED
  BY <1>6, <1>7

-----------------------------------------------------------------------------
(***************************************************************************)
(* The workers of the DeCode pool.                                         *)
(***************************************************************************)
\* One worker handles a message.
LEMMA OneHandler ==
  ASSUME NEW c \in Conn, Tokens(c), NEW w \in Worker, on[w] = c
  PROVE  \A u \in Worker : u # w /\ on[u] = c => job[u].n # job[w].n
<1>1. Main \notin Worker
  BY ConstantsAssumption
<1> QED
  BY <1>1 DEF Tokens, Has, Thread

\* Only its own record starts or stops to hold a reference.
LEMMA HeldMoved ==
  ASSUME NEW c \in Conn, Shape, Shape', NEW w \in Worker, on[w] = c, Only(w),
         \A u \in Worker : u # w /\ on[u] = c => job[u].n # job[w].n,
         \A n \in 1..MaxMsg : n # job[w].n => SameRec(<<c, n>>),
         (on'[w] = c /\ job'[w] = job[w]) \/ pc'[w] = "free"
  PROVE  /\ Cardinality(Held(c)) \in Nat /\ Cardinality(Held(c)') \in Nat
         /\ Mine(w) \in Held(c) <=> orbids[Mine(w)] # "none" /\ pc[w] # "erase"
         /\ Cardinality(Held(c)') + (IF orbids[Mine(w)] # "none" /\ pc[w] # "erase" THEN 1 ELSE 0) =
              Cardinality(Held(c)) + (IF orbids'[Mine(w)] # "none" /\ pc'[w] # "erase" THEN 1 ELSE 0)
<1> DEFINE q0 == Mine(w)
           A == Held(c)
           B == Held(c)'
<1>1. q0 = <<c, job[w].n>> /\ job[w].n \in 1..MaxMsg /\ q0 \in Rec
  BY DEF Mine, Rec, Shape, ThreadShape, Thread, Job
<1>2. ASSUME NEW u \in Worker, u # w PROVE Mine(u) # q0 /\ pc'[u] = pc[u] /\ Mine(u)' = Mine(u)
  <2>1. pc'[u] = pc[u] /\ on'[u] = on[u] /\ job'[u] = job[u]
    BY <1>2 DEF Only, Thread
  <2> QED
    BY <1>1, <1>2, <2>1 DEF Mine
<1>3. q0 \in A <=> orbids[q0] # "none" /\ pc[w] # "erase"
  <2>1. (\E u \in Worker : pc[u] = "erase" /\ Mine(u) = q0) <=> pc[w] = "erase"
    BY <1>2
  <2> QED
    BY <1>1, <2>1 DEF Held
<1>4. q0 \in B <=> orbids'[q0] # "none" /\ pc'[w] # "erase"
  <2>1. pc'[w] = "erase" => Mine(w)' = q0
    BY <1>1 DEF Mine
  <2>2. (\E u \in Worker : pc'[u] = "erase" /\ Mine(u)' = q0) <=> pc'[w] = "erase"
    BY <1>2, <2>1
  <2>3. B = {q \in Rec : /\ q[1] = c /\ orbids'[q] # "none"
                         /\ ~ \E u \in Worker : pc'[u] = "erase" /\ Mine(u)' = q}
    BY DEF Held
  <2> HIDE DEF B, q0
  <2> QED
    BY <1>1, <2>2, <2>3
<1>5. ASSUME NEW q \in Rec, q # q0 PROVE q \in A <=> q \in B
  <2>1. ~(pc[w] = "erase" /\ Mine(w) = q) /\ ~(pc'[w] = "erase" /\ Mine(w)' = q)
    BY <1>5 DEF Mine
  <2>2. (\E u \in Worker : pc'[u] = "erase" /\ Mine(u)' = q) <=>
          (\E u \in Worker : pc[u] = "erase" /\ Mine(u) = q)
    BY <1>2, <2>1
  <2>3. q[1] = c => (orbids'[q] = orbids[q])
    <3>1. PICK d \in Conn, n \in 1..MaxMsg : q = <<d, n>>
      BY DEF Rec
    <3> QED
      BY <1>1, <1>5, <3>1 DEF SameRec
  <2>4. B = {r \in Rec : /\ r[1] = c /\ orbids'[r] # "none"
                         /\ ~ \E u \in Worker : pc'[u] = "erase" /\ Mine(u)' = r}
    BY DEF Held
  <2> HIDE DEF B, q0
  <2> QED
    BY <2>2, <2>3, <2>4 DEF Held
<1>6. A \in SUBSET Rec /\ B \in SUBSET Rec /\ IsFiniteSet(Rec)
  BY HeldFinite DEF Held, Rec
<1> HIDE DEF A, B, q0
<1>7. /\ Cardinality(A) \in Nat /\ Cardinality(B) \in Nat
      /\ Cardinality(B) + (IF q0 \in A THEN 1 ELSE 0) = Cardinality(A) + (IF q0 \in B THEN 1 ELSE 0)
  BY <1>5, <1>6, MoveCount
<1> QED
  BY <1>3, <1>4, <1>7 DEF A, B, q0

\* A worker moves that is not closing the connection.
LEMMA WorkerMoves ==
  ASSUME NEW c \in Conn, Shape, Shape', Stages(c), Deaf(c), NEW w \in Worker, on[w] = c, Only(w),
         pc[w] \notin Locked, pc'[w] \notin Locked, Breaks(w, c)' => Breaks(w, c),
         on'[w] \in {c, NoConn}, SameSent(c), SameQueue(c), Closes(c)' = Closes(c), SameState(c),
         c \in held' => c \in held, c \in selected' => c \in selected, c \in conns' => c \in conns,
         state[c].active = 0 /\ state[c].current \in {3, 4} => state'[c].active = 0
  PROVE  Stages(c)' /\ Deaf(c)' /\ (Own(c)' <=> Own(c))
<1>1. w \in Thread /\ w # Main /\ w \notin OrbWorker
  BY ConstantsAssumption DEF Thread
<1>2. \A t \in Thread : t # w => SameThread(t)
  BY DEF Only, SameThread
<1>3. Stages(c)'
  <2>1. \A t \in Thread : /\ Told(t, c)' <=> Told(t, c)
                          /\ Breaks(t, c)' => Breaks(t, c)
                          /\ (on[t] = c /\ pc[t] \in Locked) \/ (on'[t] = c /\ pc'[t] \in Locked) =>
                               on'[t] = on[t] /\ pc'[t] = pc[t]
    BY <1>1, <1>2 DEF Told, Breaks, Has, SameThread
  <2>2. \A j \in Job : Waits(c, j)' = Waits(c, j)
    BY DEF SameQueue
  <2> QED
    BY <2>1, <2>2, StagesKept
<1>4. Deaf(c)'
  <2>1. SameThread(Main)
    BY <1>1, <1>2 DEF Thread
  <2> QED
    BY <2>1, DeafKept
<1>5. Own(c)' <=> Own(c)
  <2>1. \A t \in Thread : pc'[t] = "abort" /\ on'[t] = c <=> pc[t] = "abort" /\ on[t] = c
    BY <1>1, <1>2 DEF Locked, SameThread
  <2> QED
    BY <2>1 DEF Own, SameState
<1> QED
  BY <1>3, <1>4, <1>5

\* It keeps its message or is done with it.
LEMMA WorkerTokens ==
  ASSUME NEW c \in Conn, Shape, Talk(c), Tokens(c), NEW w \in Worker, on[w] = c, Only(w),
         (on'[w] = c /\ job'[w] = job[w]) \/ on'[w] = NoConn,
         pc[w] \in {"drop", "erase"} /\ on'[w] = c => pc'[w] \in {"drop", "erase"},
         SameTalk(c), SameQueue(c), SameState(c)
  PROVE  Talk(c)' /\ Tokens(c)'
<1>1. w \in Thread /\ w # Main /\ c # NoConn
  BY ConstantsAssumption DEF Thread
<1>2. \A t \in Thread : Has(t, c)' => Keeps(t, c)
  BY <1>1 DEF Has, Keeps, Only
<1>3. Tokens(c)'
  BY <1>2, TokensKept DEF SameTalk, SameSent, SamePast
<1>4. Talk(c)'
  BY TalkKept DEF SameState
<1> QED
  BY <1>3, <1>4

\* A worker without a record has none.
LEMMA NoRecord ==
  ASSUME NEW c \in Conn, Shape, Tokens(c), Records(c), NEW w \in Worker, on[w] = c, pc[w] \notin HasRec
  PROVE  orbids[Mine(w)] = "none"
<1>1. Mine(w) = <<c, job[w].n>> /\ job[w].n \in 1..MaxMsg
  BY DEF Mine, Shape, ThreadShape, Thread, Job
<1>2. \A u \in Worker : u # w /\ on[u] = c => job[u].n # job[w].n
  BY OneHandler
<1> QED
  BY <1>1, <1>2 DEF Records

\* A worker goes on with its message, and only its own record changes.
Moves(w, c) ==
  /\ on[w] = c /\ Only(w) /\ pc[w] \notin Locked /\ pc'[w] \notin Locked
  /\ Breaks(w, c)' => Breaks(w, c)
  /\ (on'[w] = c /\ job'[w] = job[w]) \/ (on'[w] = NoConn /\ pc'[w] = "free")
  /\ pc[w] \in {"drop", "erase"} /\ on'[w] = c => pc'[w] \in {"drop", "erase"}
  /\ \A n \in 1..MaxMsg : n # job[w].n => SameRec(<<c, n>>)
  /\ on'[w] = c => AtWork(w)'
  /\ orbids'[Mine(w)] # "none" => on'[w] = c /\ pc'[w] \in HasRec

LEMMA WorkerGood ==
  ASSUME NEW c \in Conn, Shape, Shape', Good(c), NEW w \in Worker, Moves(w, c),
         SameSent(c), SameQueue(c), Closes(c)' = Closes(c), SameState(c),
         c \in held' => c \in held, c \in selected' => c \in selected, c \in conns' => c \in conns,
         state[c].active = 0 /\ state[c].current \in {3, 4} => state'[c].active = 0
  PROVE  /\ Records(c)' /\ Stages(c)' /\ Deaf(c)' /\ (Own(c)' <=> Own(c))
         /\ Cardinality(Held(c)) \in Nat /\ Cardinality(Held(c)') \in Nat
         /\ Cardinality(Held(c)') + (IF orbids[Mine(w)] # "none" /\ pc[w] # "erase" THEN 1 ELSE 0) =
              Cardinality(Held(c)) + (IF orbids'[Mine(w)] # "none" /\ pc'[w] # "erase" THEN 1 ELSE 0)
<1>1. Talk(c) /\ Tokens(c) /\ Records(c) /\ Stages(c) /\ Deaf(c) /\ Refs(c)
  BY DEF Good
<1>2. /\ on[w] = c /\ Only(w) /\ pc[w] \notin Locked /\ pc'[w] \notin Locked
      /\ Breaks(w, c)' => Breaks(w, c)
      /\ (on'[w] = c /\ job'[w] = job[w]) \/ (on'[w] = NoConn /\ pc'[w] = "free")
      /\ pc[w] \in {"drop", "erase"} /\ on'[w] = c => pc'[w] \in {"drop", "erase"}
      /\ \A n \in 1..MaxMsg : n # job[w].n => SameRec(<<c, n>>)
      /\ on'[w] = c => AtWork(w)'
      /\ orbids'[Mine(w)] # "none" => on'[w] = c /\ pc'[w] \in HasRec
  BY DEF Moves
<1>3. \A u \in Worker : u # w /\ on[u] = c => job[u].n # job[w].n
  BY <1>1, <1>2, OneHandler
<1>4. Records(c)'
  <2>1. "free" \notin HasRec /\ c # NoConn
    BY ConstantsAssumption DEF HasRec
  <2> QED
    BY <1>1, <1>2, <1>3, <2>1, RecordsMoved
<1>5. Stages(c)' /\ Deaf(c)' /\ (Own(c)' <=> Own(c))
  <2>1. on'[w] \in {c, NoConn}
    BY <1>2
  <2> QED
    BY <1>1, <1>2, <2>1, WorkerMoves
<1>6. /\ Cardinality(Held(c)) \in Nat /\ Cardinality(Held(c)') \in Nat
      /\ Cardinality(Held(c)') + (IF orbids[Mine(w)] # "none" /\ pc[w] # "erase" THEN 1 ELSE 0) =
           Cardinality(Held(c)) + (IF orbids'[Mine(w)] # "none" /\ pc'[w] # "erase" THEN 1 ELSE 0)
  BY <1>2, <1>3, HeldMoved
<1> QED
  BY <1>4, <1>5, <1>6

\* The references do not change.
LEMMA PlainGood ==
  ASSUME NEW c \in Conn, Shape, Shape', Good(c), NEW w \in Worker, Moves(w, c),
         UNCHANGED clientVars, UNCHANGED poolVars, SameState(c),
         UNCHANGED <<life, held, refcnt, selected, conns>>,
         state[c].active = 0 /\ state[c].current \in {3, 4} => state'[c].active = 0,
         orbids'[Mine(w)] # "none" /\ pc'[w] # "erase" <=> orbids[Mine(w)] # "none" /\ pc[w] # "erase"
  PROVE  Good(c)'
<1>1. SameTalk(c) /\ SameQueue(c) /\ SameOrb(c)
  BY SameParts
<1>2. Closes(c)' = Closes(c) /\ Kills(c)' = Kills(c)
  BY <1>1 DEF SameOrb
<1>3. /\ Records(c)' /\ Stages(c)' /\ Deaf(c)' /\ (Own(c)' <=> Own(c))
      /\ Cardinality(Held(c)) \in Nat /\ Cardinality(Held(c)') \in Nat
      /\ Cardinality(Held(c)') + (IF orbids[Mine(w)] # "none" /\ pc[w] # "erase" THEN 1 ELSE 0) =
           Cardinality(Held(c)) + (IF orbids'[Mine(w)] # "none" /\ pc'[w] # "erase" THEN 1 ELSE 0)
  BY <1>1, <1>2, WorkerGood DEF SameTalk
<1>4. Cardinality(Held(c)') = Cardinality(Held(c))
  BY <1>3
<1>5. Refs(c)'
  BY <1>2, <1>3, <1>4 DEF Good, Refs
<1>6. Talk(c)' /\ Tokens(c)'
  BY <1>1, WorkerTokens DEF Good, Moves
<1> QED
  BY <1>3, <1>5, <1>6 DEF Good

\* What the invariant says of the worker that moves.
LEMMA WorkerFacts ==
  ASSUME NEW c \in Conn, Shape, Good(c), NEW w \in Worker, on[w] = c
  PROVE  /\ w \in Thread /\ AtWork(w) /\ Has(w, c) /\ c # NoConn
         /\ Mine(w) = <<c, job[w].n>> /\ Mine(w) \in Rec
         /\ Talk(c) /\ Tokens(c) /\ Records(c) /\ Stages(c) /\ Deaf(c) /\ Refs(c)
         /\ pc[w] \notin HasRec => orbids[Mine(w)] = "none"
<1>1. /\ w \in Thread /\ w # Main /\ c # NoConn
  BY ConstantsAssumption DEF Thread
<1>2. Mine(w) = <<c, job[w].n>> /\ Mine(w) \in Rec
  BY <1>1 DEF Mine, Rec, Shape, ThreadShape, Job
<1>3. Talk(c) /\ Tokens(c) /\ Records(c) /\ Stages(c) /\ Deaf(c) /\ Refs(c)
  BY DEF Good
<1> QED
  BY <1>1, <1>2, <1>3, NoRecord DEF Records, Has

\* The answer to a broken header goes out: the client is there.
LEMMA RespondGood ==
  ASSUME NEW c \in Conn, Shape, Shape', Good(c), NEW w \in Worker, on[w] = c, Respond(w)
  PROVE  Good(c)'
<1>1. /\ w \in Thread /\ AtWork(w) /\ Has(w, c) /\ c # NoConn
      /\ Talk(c) /\ Tokens(c) /\ Records(c) /\ Stages(c)
      /\ pc[w] \notin HasRec => orbids[Mine(w)] = "none"
  BY WorkerFacts
<1>2. pc[w] = "respond" /\ output(c) /\ Goto(w, "kill")
      /\ UNCHANGED clientVars /\ UNCHANGED <<life, held, refcnt, conns>> /\ UNCHANGED recVars
      /\ decode' = decode
  BY DEF Respond, At
<1>3. Breaks(w, c)
  BY <1>1, <1>2 DEF Breaks
<1>4. Running(c) /\ SaidLast(c)
  BY <1>1, <1>3, Breaker DEF Stages, Stage, Has
<1>5. ~Broken(c)
  BY <1>1, <1>4 DEF Broken, Talk, Closed, Running, Is, S!Terminated
<1>6. UNCHANGED <<selected, state, orb>>
  BY <1>2, <1>5, OutputEffect
<1>7. Only(w) /\ on'[w] = on[w] /\ job'[w] = job[w] /\ pc'[w] = "kill"
  BY <1>1, <1>2, GotoOnly
<1>8. Moves(w, c)
  <2>1. AtWork(w)'
    BY <1>1, <1>2, <1>7 DEF AtWork, HasRec, Live, KillPc
  <2>2. SameRecs(c)
    BY <1>2, SameParts
  <2>3. orbids'[Mine(w)] = "none"
    BY <1>1, <1>2 DEF HasRec, recVars
  <2> QED
    BY <1>2, <1>3, <1>7, <2>1, <2>2, <2>3 DEF Moves, SameRecs, Locked
<1>9. orbids'[Mine(w)] = orbids[Mine(w)] /\ pc'[w] # "erase" /\ pc[w] # "erase"
  BY <1>2, <1>7 DEF recVars
<1>10. SameState(c) /\ UNCHANGED poolVars /\ state'[c] = state[c]
  BY <1>2, <1>6 DEF SameState, poolVars
<1> QED
  BY <1>2, <1>6, <1>8, <1>9, <1>10, PlainGood

\* A request goes on with its record.
LEMMA RequestMoves ==
  ASSUME NEW c \in Conn, Shape, Good(c), NEW w \in Worker, on[w] = c, pc[w] \in HasRec,
         NEW l \in HasRec, Goto(w, l), pc[w] \in {"drop", "erase"} => l \in {"drop", "erase"},
         \A n \in 1..MaxMsg : n # job[w].n => SameRec(<<c, n>>), AtWork(w)'
  PROVE  Moves(w, c)
<1>1. w \in Thread
  BY DEF Thread
<1>2. Only(w) /\ on'[w] = on[w] /\ job'[w] = job[w] /\ pc'[w] = l
  BY <1>1, GotoOnly
<1>3. pc[w] \notin Locked /\ pc'[w] \notin Locked
  BY <1>2 DEF HasRec, Locked
<1>4. ~Breaks(w, c)'
  <2>1. w # Main
    BY ConstantsAssumption
  <2> QED
    BY <1>2, <2>1 DEF Breaks, HasRec
<1> QED
  BY <1>2, <1>3, <1>4 DEF Moves

\* The up-call begins ...
LEMMA InvokeGood ==
  ASSUME NEW c \in Conn, Shape, Shape', Good(c), NEW w \in Worker, on[w] = c, Invoke(w)
  PROVE  Good(c)'
<1>1. /\ w \in Thread /\ AtWork(w) /\ Mine(w) = <<c, job[w].n>>
  BY WorkerFacts
<1>2. /\ pc[w] = "invoke" /\ Goto(w, "upcall") /\ live' = live \cup {Mine(w)}
      /\ UNCHANGED clientVars /\ UNCHANGED poolVars /\ UNCHANGED connVars
      /\ UNCHANGED <<orbids, hint>>
  BY DEF Invoke
<1>3. Only(w) /\ on'[w] = on[w] /\ job'[w] = job[w] /\ pc'[w] = "upcall"
  BY <1>1, <1>2, GotoOnly
<1>4. \A n \in 1..MaxMsg : n # job[w].n => SameRec(<<c, n>>)
  BY <1>1, <1>2 DEF SameRec
<1>5. AtWork(w)'
  BY <1>1, <1>2, <1>3 DEF AtWork, HasRec, Live, KillPc, Mine
<1>6. Moves(w, c)
  BY <1>2, <1>4, <1>5, RequestMoves DEF HasRec
<1>7. SameState(c) /\ UNCHANGED <<life, held, refcnt, selected, conns, state>>
  BY <1>2 DEF SameState, connVars
<1>8. orbids'[Mine(w)] = orbids[Mine(w)] /\ pc'[w] # "erase" /\ pc[w] # "erase"
  BY <1>2, <1>3
<1> QED
  BY <1>2, <1>6, <1>7, <1>8, PlainGood

\* ... and ends: the answer finds the record.
LEMMA AnswerGood ==
  ASSUME NEW c \in Conn, Shape, Shape', Good(c), NEW w \in Worker, on[w] = c, Answer(w)
  PROVE  Good(c)'
<1>1. /\ w \in Thread /\ AtWork(w)
  BY WorkerFacts
<1>2. /\ pc[w] = "upcall" /\ UNCHANGED clientVars /\ UNCHANGED poolVars /\ UNCHANGED connVars
      /\ UNCHANGED recVars
  BY DEF Answer
<1>3. Mine(w) \in live /\ Mine(w) \in hint
  BY <1>1, <1>2 DEF AtWork, HasRec, Live
<1>4. Goto(w, "pull")
  BY <1>3 DEF Answer
<1>5. Only(w) /\ on'[w] = on[w] /\ job'[w] = job[w] /\ pc'[w] = "pull"
  BY <1>1, <1>4, GotoOnly
<1>6. SameRecs(c)
  BY <1>2, SameParts
<1>7. AtWork(w)'
  BY <1>1, <1>2, <1>5 DEF AtWork, HasRec, Live, KillPc, Mine, recVars
<1>8. Moves(w, c)
  BY <1>2, <1>4, <1>6, <1>7, RequestMoves DEF HasRec, SameRecs
<1>9. SameState(c) /\ UNCHANGED <<life, held, refcnt, selected, conns, state>>
  BY <1>2 DEF SameState, connVars
<1>10. orbids'[Mine(w)] = orbids[Mine(w)] /\ pc'[w] # "erase" /\ pc[w] # "erase"
  BY <1>2, <1>5 DEF recVars
<1> QED
  BY <1>2, <1>8, <1>9, <1>10, PlainGood

\* The record is found active ...
LEMMA PullGood ==
  ASSUME NEW c \in Conn, Shape, Shape', Good(c), NEW w \in Worker, on[w] = c, Pull(w)
  PROVE  Good(c)'
<1>1. /\ w \in Thread /\ AtWork(w)
  BY WorkerFacts
<1>2. /\ pc[w] = "pull" /\ UNCHANGED clientVars /\ UNCHANGED poolVars /\ UNCHANGED connVars
      /\ UNCHANGED recVars
  BY DEF Pull, At
<1>3. orbids[Mine(w)] = "active"
  BY <1>1, <1>2 DEF AtWork
<1>4. Goto(w, "deactivate")
  BY <1>3 DEF Pull
<1>5. Only(w) /\ on'[w] = on[w] /\ job'[w] = job[w] /\ pc'[w] = "deactivate"
  BY <1>1, <1>4, GotoOnly
<1>6. SameRecs(c)
  BY <1>2, SameParts
<1>7. AtWork(w)'
  BY <1>1, <1>2, <1>5 DEF AtWork, HasRec, Live, KillPc, Mine, recVars
<1>8. Moves(w, c)
  BY <1>2, <1>4, <1>6, <1>7, RequestMoves DEF HasRec, SameRecs
<1>9. SameState(c) /\ UNCHANGED <<life, held, refcnt, selected, conns, state>>
  BY <1>2 DEF SameState, connVars
<1>10. orbids'[Mine(w)] = orbids[Mine(w)] /\ pc'[w] # "erase" /\ pc[w] # "erase"
  BY <1>2, <1>5 DEF recVars
<1> QED
  BY <1>2, <1>8, <1>9, <1>10, PlainGood

\* ... and deactivated.
LEMMA DeactivateGood ==
  ASSUME NEW c \in Conn, Shape, Shape', Good(c), NEW w \in Worker, on[w] = c, Deactivate(w)
  PROVE  Good(c)'
<1>1. /\ w \in Thread /\ AtWork(w) /\ Mine(w) = <<c, job[w].n>> /\ Mine(w) \in Rec
  BY WorkerFacts
<1>2. /\ pc[w] = "deactivate" /\ Goto(w, "send") /\ orbids' = [orbids EXCEPT ![Mine(w)] = "pulled"]
      /\ UNCHANGED clientVars /\ UNCHANGED poolVars /\ UNCHANGED connVars
      /\ UNCHANGED <<hint, live>> /\ orbids[Mine(w)] # "none"
  BY DEF Deactivate, At, UsesRec
<1>3. Only(w) /\ on'[w] = on[w] /\ job'[w] = job[w] /\ pc'[w] = "send"
  BY <1>1, <1>2, GotoOnly
<1>4. \A n \in 1..MaxMsg : n # job[w].n => SameRec(<<c, n>>)
  BY <1>1, <1>2, RecsElsewhere
<1>5. orbids'[Mine(w)] = "pulled"
  BY <1>1, <1>2 DEF Shape, RecShape
<1>6. Mine(w)' = Mine(w)
  BY <1>3 DEF Mine
<1>7. AtWork(w)'
  BY <1>1, <1>2, <1>3, <1>5, <1>6 DEF AtWork, HasRec, Live, KillPc
<1>8. Moves(w, c)
  BY <1>2, <1>4, <1>7, RequestMoves DEF HasRec
<1>9. SameState(c) /\ UNCHANGED <<life, held, refcnt, selected, conns, state>>
  BY <1>2 DEF SameState, connVars
<1>10. orbids'[Mine(w)] # "none" /\ orbids[Mine(w)] # "none" /\ pc'[w] # "erase" /\ pc[w] # "erase"
  BY <1>2, <1>3, <1>5
<1> QED
  BY <1>2, <1>8, <1>9, <1>10, PlainGood

\* The record is deleted.
LEMMA EraseGood ==
  ASSUME NEW c \in Conn, Shape, Shape', Good(c), NEW w \in Worker, on[w] = c, Erase(w)
  PROVE  Good(c)'
<1>1. /\ w \in Thread /\ AtWork(w) /\ Mine(w) = <<c, job[w].n>> /\ Mine(w) \in Rec
  BY WorkerFacts
<1>2. /\ pc[w] = "erase" /\ orbids' = [orbids EXCEPT ![Mine(w)] = "none"]
      /\ UNCHANGED clientVars /\ UNCHANGED poolVars /\ UNCHANGED connVars
      /\ UNCHANGED <<hint, live>>
  BY DEF Erase, At
<1>3. job[w].kind # "cancel"
  BY <1>1, <1>2 DEF AtWork, HasRec
<1>4. Free(w)
  BY <1>3 DEF Erase
<1>5. Only(w) /\ on'[w] = NoConn /\ pc'[w] = "free"
  BY <1>1, <1>4, FreeOnly
<1>6. \A n \in 1..MaxMsg : n # job[w].n => SameRec(<<c, n>>)
  BY <1>1, <1>2, RecsElsewhere
<1>7. orbids'[Mine(w)] = "none"
  BY <1>1, <1>2 DEF Shape, RecShape
<1>8. Moves(w, c)
  <2>1. ~Breaks(w, c)' /\ c # NoConn
    BY <1>5, ConstantsAssumption DEF Breaks, Has
  <2> QED
    BY <1>2, <1>5, <1>6, <1>7, <2>1 DEF Moves, Locked
<1>9. SameState(c) /\ UNCHANGED <<life, held, refcnt, selected, conns, state>>
  BY <1>2 DEF SameState, connVars
<1> QED
  BY <1>2, <1>7, <1>8, <1>9, PlainGood

\* A message is decoded: it holds the connection no more.
LEMMA ActiveDerefGood ==
  ASSUME NEW c \in Conn, Shape, Shape', Counts, Good(c), life[c] # "none",
         NEW w \in Worker, on[w] = c, ActiveDeref(w)
  PROVE  Good(c)'
<1>1. /\ w \in Thread /\ AtWork(w) /\ c # NoConn /\ Deaf(c) /\ Refs(c) /\ Has(w, c)
      /\ pc[w] \notin HasRec => orbids[Mine(w)] = "none"
  BY WorkerFacts
<1>2. PICK l \in DOMAIN AfterDecode : AfterActiveDeref(w, l, S!active_deref(state[c]))
  BY DEF ActiveDeref
<1>3. /\ pc[w] = l /\ SetState(c, S!active_deref(state[c]))
      /\ IF AfterDecode[l] = "free" THEN Free(w) ELSE Goto(w, AfterDecode[l])
      /\ UNCHANGED clientVars /\ UNCHANGED poolVars /\ UNCHANGED recVars
      /\ UNCHANGED <<life, held, refcnt, selected, conns>>
  BY <1>2 DEF AfterActiveDeref, At
<1>4. l \in {"decoded", "ignored", "garbled"}
  BY <1>1, <1>2, <1>3 DEF AtWork, AfterDecode, HasRec, KillPc
<1>5. /\ l = "decoded" => Goto(w, "invoke")
      /\ l = "ignored" => Free(w)
      /\ l = "garbled" => Goto(w, "respond")
  BY <1>3, <1>4 DEF AfterDecode
<1>6. SameState(c)
  <2>1. /\ S!active_deref(state[c]) \in ConnState
        /\ S!active_deref(state[c]).current = state[c].current
        /\ S!active_deref(state[c]).new = state[c].new
    BY StateMethods DEF Shape, ConnShape
  <2>2. state'[c] = S!active_deref(state[c])
    BY <1>3, <2>1, SetStateShape DEF Shape
  <2> QED
    BY <2>1, <2>2 DEF SameState
<1>7. state[c].current \notin {3, 4}
  <2>1. pc[w] \in Decodes
    BY <1>2, <1>3 DEF Decodes
  <2> QED
    BY <1>1, <2>1, Engaged
<1>8. SameRecs(c) /\ orbids' = orbids
  BY <1>3, SameParts DEF recVars
<1>9. Moves(w, c) /\ pc'[w] # "erase"
  <2>1. CASE l = "decoded"
    <3>1. pc'[w] = "invoke" /\ on'[w] = on[w] /\ job'[w] = job[w]
      BY <1>1, <1>5, <2>1, GotoOnly
    <3>2. AtWork(w)'
      BY <1>1, <1>3, <2>1, <3>1 DEF AtWork, HasRec, Live, KillPc, Mine, recVars
    <3> QED
      BY <1>3, <1>5, <1>8, <2>1, <3>1, <3>2, RequestMoves DEF HasRec, SameRecs
  <2>2. CASE l = "ignored"
    <3>1. Only(w) /\ on'[w] = NoConn /\ pc'[w] = "free"
      BY <1>1, <1>5, <2>2, FreeOnly
    <3>2. ~Breaks(w, c)'
      BY <1>1, <3>1 DEF Breaks, Has
    <3> QED
      BY <1>1, <1>3, <1>8, <2>2, <3>1, <3>2 DEF Moves, SameRecs, HasRec, Locked
  <2>3. CASE l = "garbled"
    <3>1. Only(w) /\ on'[w] = on[w] /\ job'[w] = job[w] /\ pc'[w] = "respond"
      BY <1>1, <1>5, <2>3, GotoOnly
    <3>2. Breaks(w, c)
      BY <1>1, <1>3, <2>3 DEF Breaks
    <3>3. AtWork(w)'
      BY <1>1, <1>3, <2>3, <3>1 DEF AtWork, HasRec, Live, KillPc
    <3> QED
      BY <1>1, <1>3, <1>8, <2>3, <3>1, <3>2, <3>3 DEF Moves, SameRecs, HasRec, Locked
  <2> QED
    BY <1>4, <2>1, <2>2, <2>3
<1>10. pc[w] # "erase"
  BY <1>3, <1>4
<1> QED
  BY <1>3, <1>6, <1>7, <1>8, <1>9, <1>10, PlainGood

\* A request gets a record, which holds a reference.
LEMMA HandleRequestGood ==
  ASSUME NEW c \in Conn, Shape, Shape', Counts, Good(c), life[c] # "none",
         NEW w \in Worker, on[w] = c, HandleRequest(w)
  PROVE  Good(c)'
<1>1. /\ w \in Thread /\ AtWork(w) /\ Mine(w) = <<c, job[w].n>> /\ Mine(w) \in Rec
      /\ Talk(c) /\ Tokens(c) /\ Deaf(c) /\ Refs(c)
      /\ pc[w] \notin HasRec => orbids[Mine(w)] = "none"
  BY WorkerFacts
<1>2. /\ pc[w] = "input" /\ Goto(w, "decoded") /\ refcnt' = [refcnt EXCEPT ![c] = @ + 1]
      /\ orbids' = [orbids EXCEPT ![Mine(w)] = "active"] /\ hint' = hint \cup {Mine(w)} /\ live' = live
      /\ UNCHANGED clientVars /\ UNCHANGED poolVars
      /\ UNCHANGED <<life, held, state, selected, conns>>
  BY DEF HandleRequest, At, add_invoke
<1>3. Only(w) /\ on'[w] = on[w] /\ job'[w] = job[w] /\ pc'[w] = "decoded" /\ Mine(w)' = Mine(w)
  BY <1>1, <1>2, GotoOnly DEF Mine
<1>4. orbids[Mine(w)] = "none" /\ orbids'[Mine(w)] = "active"
  BY <1>1, <1>2 DEF HasRec, Shape, RecShape
<1>5. \A n \in 1..MaxMsg : n # job[w].n => SameRec(<<c, n>>)
  BY <1>1, <1>2, RecsElsewhere
<1>6. AtWork(w)'
  BY <1>1, <1>2, <1>3, <1>4 DEF AtWork, HasRec, Live, KillPc
<1>7. Moves(w, c)
  <2>1. ~Breaks(w, c)'
    BY <1>3, ConstantsAssumption DEF Breaks
  <2> QED
    BY <1>2, <1>3, <1>5, <1>6, <2>1 DEF Moves, HasRec, Locked
<1>8. SameTalk(c) /\ SameQueue(c) /\ SameOrb(c) /\ SameState(c)
  BY <1>2, SameParts DEF SameState
<1>9. Closes(c)' = Closes(c) /\ Kills(c)' = Kills(c) /\ SameSent(c)
  BY <1>8 DEF SameOrb, SameTalk
<1>10. /\ Records(c)' /\ Stages(c)' /\ Deaf(c)' /\ (Own(c)' <=> Own(c))
       /\ Cardinality(Held(c)) \in Nat /\ Cardinality(Held(c)') \in Nat
       /\ Cardinality(Held(c)') + (IF orbids[Mine(w)] # "none" /\ pc[w] # "erase" THEN 1 ELSE 0) =
            Cardinality(Held(c)) + (IF orbids'[Mine(w)] # "none" /\ pc'[w] # "erase" THEN 1 ELSE 0)
  BY <1>2, <1>7, <1>8, <1>9, WorkerGood
<1>11. Talk(c)' /\ Tokens(c)'
  BY <1>1, <1>3, <1>2, <1>8, WorkerTokens
<1>12. Refs(c)'
  <2>1. Own(c)
    BY <1>1, <1>2, Engaged DEF Decodes
  <2>2. refcnt[c] > 0 /\ life[c] = "open" /\ Kills(c) = 0
    BY <1>1, <2>1, Kept
  <2>3. refcnt'[c] = refcnt[c] + 1 /\ refcnt[c] \in Nat
    BY <1>2 DEF Shape, ConnShape
  <2>4. Cardinality(Held(c)') = Cardinality(Held(c)) + 1
    BY <1>3, <1>4, <1>10
  <2>5. refcnt'[c] = Cardinality(Held(c)') + 1
    BY <1>1, <1>10, <2>1, <2>3, <2>4 DEF Refs
  <2> QED
    BY <1>2, <1>9, <1>10, <2>1, <2>2, <2>3, <2>5 DEF Refs
<1> QED
  BY <1>10, <1>11, <1>12 DEF Good

\* The reply is written: the client that waits for it is there.
LEMMA ReplyGood ==
  ASSUME NEW c \in Conn, Shape, Shape', Good(c), NEW w \in Worker, on[w] = c, Reply(w)
  PROVE  Good(c)'
<1> DEFINE n == job[w].n
<1>1. /\ w \in Thread /\ AtWork(w) /\ Mine(w) = <<c, n>> /\ Mine(w) \in Rec /\ Has(w, c)
      /\ Talk(c) /\ Tokens(c) /\ Records(c) /\ Stages(c) /\ Deaf(c) /\ Refs(c)
  BY WorkerFacts
<1>2. pc[w] = "send" /\ Goto(w, "drop") /\ UNCHANGED recVars /\ decode' = decode
      /\ UNCHANGED <<sent, hungup, arrived, life, held, refcnt, conns>>
  BY DEF Reply, At
<1>3. Only(w) /\ on'[w] = on[w] /\ job'[w] = job[w] /\ pc'[w] = "drop"
  BY <1>1, <1>2, GotoOnly
<1>4. job[w].kind \in {"invoke", "locate"} /\ Mine(w) \in live
  BY <1>1, <1>2 DEF AtWork, HasRec, Live
<1>5. output(c) /\ replied' = IF state[c].current = S!Active /\ c \notin hungup
                                THEN replied \cup {Mine(w)} ELSE replied
  BY <1>4 DEF Reply
<1>6. /\ n \in 1..MaxMsg /\ n \in DOMAIN sent[c] /\ n \in 1..arrived[c] /\ job[w] = sent[c][n]
      /\ <<c, n>> \notin replied
  <2>1. <<c, n>> \notin replied
    BY <1>1, <1>2 DEF Tokens, Holds
  <2> QED
    BY <1>1, <2>1, InHand
<1>7. ~HasReplies(c) /\ c \notin hungup
  <2>1. Awaits(c, n)
    BY <1>4, <1>6 DEF Awaits
  <2> QED
    BY <1>1, <1>6, <2>1 DEF HasReplies, Talk, Ending
<1>8. UNCHANGED <<selected, state, orb>>
  <2>1. ~Broken(c)
    BY <1>7 DEF Broken
  <2> QED
    BY <1>5, <2>1, OutputEffect
<1>9. /\ \A i \in 1..MaxMsg : <<c, i>> \in replied' => <<c, i>> \in replied \/ i = n
      /\ \A i \in 1..MaxMsg : <<c, i>> \in replied => <<c, i>> \in replied'
  BY <1>1, <1>5
<1>10. SameSent(c) /\ SameQueue(c) /\ SameOrb(c) /\ SameState(c) /\ SameRecs(c)
  BY <1>2, <1>8, SameParts, SameQueues DEF SameSent, SameState
<1>11. Closes(c)' = Closes(c) /\ Kills(c)' = Kills(c)
  BY <1>10 DEF SameOrb
<1>12. Mine(w)' = Mine(w)
  BY <1>3 DEF Mine
<1>13. AtWork(w)'
  <2>1. AtWork(w) /\ pc[w] = "send" /\ UNCHANGED <<orbids, hint, live>>
    BY <1>1, <1>2 DEF recVars
  <2> QED
    BY <1>3, <1>12, <2>1 DEF AtWork, HasRec, Live, KillPc
<1>14. Moves(w, c)
  BY <1>2, <1>10, <1>13, RequestMoves DEF HasRec, SameRecs
<1>15. /\ Records(c)' /\ Stages(c)' /\ Deaf(c)' /\ (Own(c)' <=> Own(c))
       /\ Cardinality(Held(c)) \in Nat /\ Cardinality(Held(c)') \in Nat
       /\ Cardinality(Held(c)') + (IF orbids[Mine(w)] # "none" /\ pc[w] # "erase" THEN 1 ELSE 0) =
            Cardinality(Held(c)) + (IF orbids'[Mine(w)] # "none" /\ pc'[w] # "erase" THEN 1 ELSE 0)
  BY <1>2, <1>8, <1>10, <1>11, <1>14, WorkerGood
<1>16. Refs(c)'
  <2>1. Cardinality(Held(c)') = Cardinality(Held(c))
    BY <1>2, <1>3, <1>15 DEF recVars
  <2> QED
    BY <1>1, <1>2, <1>11, <1>15, <2>1 DEF Refs
<1>17. Talk(c)'
  <2>1. ~Ending(c) /\ ~Ending(c)'
    BY <1>1, <1>7, <1>10 DEF Talk, Ending, SaidLast, SameSent
  <2>2. \A i \in 1..MaxMsg : <<c, i>> \in replied' => i <= arrived'[c]
    <3>1. arrived[c] \in Nat
      BY DEF Shape, ClientShape
    <3> QED
      BY <1>1, <1>2, <1>6, <1>9, <3>1 DEF Talk
  <2> QED
    BY <1>1, <1>2, <2>1, <2>2 DEF Talk, Ending
<1>18. Tokens(c)'
  <2>1. ASSUME NEW j \in Job PROVE Queues(c, j)'
    <3>1. Waits(c, j)' = Waits(c, j) /\ Queues(c, j) /\ j.n \in 1..MaxMsg
      BY <1>1, <1>10 DEF SameQueue, Tokens, Job
    <3>2. Waits(c, j) > 0 => j.n # n
      BY <1>1, InQueue
    <3> QED
      BY <1>2, <1>9, <3>1, <3>2 DEF Queues
  <2>2. ASSUME NEW t \in Thread, Has(t, c)' PROVE Holds(t, c)' /\ Has(t, c) /\ job'[t] = job[t]
    <3>1. Has(t, c) /\ job'[t] = job[t] /\ (t # w => pc'[t] = pc[t])
      BY <1>1, <1>3, <2>2, ConstantsAssumption DEF Has, Only
    <3>2. Holds(t, c)
      BY <1>1, <3>1 DEF Tokens
    <3>3. PICK j \in Job : j = job[t] /\ j = job'[t]
      BY <3>1 DEF Shape, ThreadShape
    <3>4. Waits(c, job[t])' = Waits(c, job[t])
      <4>1. Waits(c, j)' = Waits(c, j)
        BY <1>10 DEF SameQueue
      <4> QED
        BY <3>3, <4>1 DEF Waits
    <3>5. <<c, job[t].n>> \in replied' => pc'[t] \in {"drop", "erase"}
      <4>1. CASE t = w
        BY <1>3, <4>1
      <4>2. CASE t # w
        <5>1. job[t].n # n /\ job[t].n \in 1..MaxMsg
          BY <1>1, <3>1, <3>3, <4>2 DEF Tokens, Job
        <5> QED
          BY <1>9, <3>1, <3>2, <4>2, <5>1 DEF Holds
      <4> QED
        BY <4>1, <4>2
    <3> QED
      BY <1>2, <3>1, <3>2, <3>4, <3>5 DEF Holds
  <2> QED
    BY <1>1, <2>1, <2>2 DEF Tokens
<1> QED
  BY <1>15, <1>16, <1>17, <1>18 DEF Good

\* The reference of the record is given back: the last one has the connection
\* deleted.
LEMMA DropGood ==
  ASSUME NEW c \in Conn, Shape, Shape', Good(c), life[c] # "none",
         NEW w \in Worker, on[w] = c, Drop(w)
  PROVE  Good(c)'
<1>1. /\ w \in Thread /\ AtWork(w) /\ Mine(w) = <<c, job[w].n>> /\ Mine(w) \in Rec
      /\ Talk(c) /\ Tokens(c) /\ Records(c) /\ Stages(c) /\ Deaf(c) /\ Refs(c)
  BY WorkerFacts
<1>2. /\ pc[w] = "drop" /\ Goto(w, "erase") /\ deref_conn(c) /\ decode' = decode
      /\ UNCHANGED clientVars /\ UNCHANGED recVars
      /\ UNCHANGED <<life, held, state, selected, conns>>
  BY DEF Drop, At
<1>3. Only(w) /\ on'[w] = on[w] /\ job'[w] = job[w] /\ pc'[w] = "erase" /\ Mine(w)' = Mine(w)
  BY <1>1, <1>2, GotoOnly DEF Mine
<1>4. orbids[Mine(w)] = "pulled"
  BY <1>1, <1>2 DEF AtWork
<1>5. SameRecs(c) /\ SameTalk(c) /\ SameQueue(c) /\ SameState(c) /\ SameSent(c)
  BY <1>2, SameParts, SameQueues DEF SameState, SameTalk
<1>6. /\ refcnt[c] > 0 /\ refcnt'[c] = refcnt[c] - 1 /\ refcnt[c] \in Nat
      /\ Closes(c)' = Closes(c) /\ Kills(c) \in Nat
      /\ Kills(c)' = Kills(c) + (IF refcnt[c] = 1 THEN 1 ELSE 0)
  BY <1>2, DerefEffect
<1>7. AtWork(w)'
  BY <1>1, <1>2, <1>3 DEF AtWork, HasRec, Live, KillPc, recVars
<1>8. Moves(w, c)
  BY <1>2, <1>5, <1>7, RequestMoves DEF HasRec, SameRecs
<1>9. /\ Records(c)' /\ Stages(c)' /\ Deaf(c)' /\ (Own(c)' <=> Own(c))
      /\ Cardinality(Held(c)) \in Nat /\ Cardinality(Held(c)') \in Nat
      /\ Cardinality(Held(c)') + (IF orbids[Mine(w)] # "none" /\ pc[w] # "erase" THEN 1 ELSE 0) =
           Cardinality(Held(c)) + (IF orbids'[Mine(w)] # "none" /\ pc'[w] # "erase" THEN 1 ELSE 0)
  BY <1>2, <1>5, <1>6, <1>8, WorkerGood
<1>10. Talk(c)' /\ Tokens(c)'
  BY <1>1, <1>2, <1>3, <1>5, WorkerTokens
<1>11. Refs(c)'
  <2>1. Cardinality(Held(c)') = Cardinality(Held(c)) - 1
    BY <1>2, <1>3, <1>4, <1>9
  <2>2. Own(c) \/ Held(c) # {}
    BY <1>1, <1>2, Recorded DEF HasRec
  <2>3. life[c] = "open" /\ Kills(c) = 0
    BY <1>1, <2>2, Kept
  <2>4. refcnt'[c] = Cardinality(Held(c)') + (IF Own(c) THEN 1 ELSE 0)
    BY <1>1, <1>6, <1>9, <2>1 DEF Refs
  <2>5. Kills(c)' = IF refcnt'[c] = 0 THEN 1 ELSE 0
    BY <1>6, <2>3
  <2> QED
    BY <1>2, <1>9, <2>3, <2>4, <2>5 DEF Refs
<1> QED
  BY <1>9, <1>10, <1>11 DEF Good

\* A worker takes a message.
LEMMA TakeInputGood ==
  ASSUME NEW c \in Conn, c = Head(decode).conn, Shape, Shape', Good(c), NEW w \in Worker, TakeInput(w)
  PROVE  Good(c)'
<1> DEFINE m == Head(decode).job
           l == CASE m.kind \in Request \cup {"cancel"} -> "input"
                  [] m.kind = "close" -> "ignored"
                  [] OTHER -> m.kind
<1>1. Talk(c) /\ Tokens(c) /\ Records(c) /\ Stages(c) /\ Deaf(c) /\ Refs(c)
  BY DEF Good
<1>2. /\ w \in Thread /\ Head(decode) \in QueuedMsg /\ Only(w)
      /\ on[w] = NoConn /\ on'[w] = c /\ job'[w] = m /\ pc'[w] = l
  BY TakeInputOthers
<1>3. /\ decode # <<>> /\ decode' = Tail(decode) /\ pc[w] = "free"
      /\ UNCHANGED clientVars /\ UNCHANGED connVars /\ UNCHANGED recVars /\ orb' = orb
  BY DEF TakeInput
<1>4. m \in Job
  BY <1>2 DEF QueuedMsg
<1> HIDE DEF m, l
<1>5. \A j \in Job : /\ Waits(c, j)' \in Nat
                     /\ Waits(c, j) = Waits(c, j)' + (IF m = j THEN 1 ELSE 0)
  BY <1>3, DecodeTail DEF m
<1>6. Waits(c, m) > 0
  BY <1>4, <1>5
<1>7. /\ m.n \in 1..MaxMsg /\ m.n \in 1..arrived[c] /\ m = sent[c][m.n] /\ Waits(c, m) = 1
      /\ <<c, m.n>> \notin replied /\ m.kind \in {"invoke", "locate", "close", "garbled"}
      /\ \A t \in Thread : Has(t, c) => job[t].n # m.n
  BY <1>1, <1>4, <1>6, InQueue
<1>8. /\ m.kind \in {"invoke", "locate"} => pc'[w] = "input"
      /\ m.kind = "close" => pc'[w] = "ignored"
      /\ m.kind = "garbled" => pc'[w] = "garbled" /\ Running(c)
  <2>1. m.kind = "garbled" => Running(c)
    BY <1>1, <1>4, <1>6 DEF Stages
  <2> QED
    BY <1>2, <2>1 DEF l, Request
<1>9. pc'[w] \in {"input", "ignored", "garbled"}
  BY <1>7, <1>8
<1>10. SameTalk(c) /\ SameRecs(c) /\ SameOrb(c) /\ SameState(c) /\ SameSent(c)
  BY <1>3, SameParts, SameQueues DEF SameState, SameTalk, connVars
<1>11. w # Main /\ w \notin OrbWorker /\ c # NoConn
  BY ConstantsAssumption
<1>12. \A t \in Thread : t # w => SameThread(t)
  BY <1>2 DEF Only, SameThread
<1>13. ~Has(w, c) /\ \A t \in Thread : t # w => /\ Has(t, c)' <=> Has(t, c)
                                                /\ Breaks(t, c)' <=> Breaks(t, c)
                                                /\ Told(t, c)' <=> Told(t, c)
  BY <1>2, <1>11, <1>12 DEF Has, Breaks, Told, SameThread
<1>14. Talk(c)'
  BY <1>1, <1>10, TalkKept DEF SameState
<1>15. Tokens(c)'
  <2>1. ASSUME NEW j \in Job PROVE Queues(c, j)'
    <3>1. Queues(c, j) /\ Waits(c, j)' \in Nat /\ Waits(c, j)' <= Waits(c, j)
      BY <1>1, <1>5 DEF Tokens
    <3>2. Waits(c, j)' \in {0, 1} /\ (Waits(c, j)' > 0 => Waits(c, j) > 0)
      BY <3>1 DEF Queues
    <3> QED
      BY <1>3, <3>1, <3>2 DEF Queues, clientVars
  <2>2. ASSUME NEW t \in Thread, Has(t, c)' PROVE Holds(t, c)'
    <3>1. CASE t = w
      <4>1. PICK j \in Job : j = m /\ j = job'[t]
        BY <1>2, <1>4, <3>1
      <4>2. Waits(c, j)' = 0
        BY <1>5, <1>7, <4>1
      <4>3. Waits(c, job[t])' = 0
        BY <4>1, <4>2 DEF Waits
      <4>4. arrived[c] \in Nat
        BY DEF Shape, ClientShape
      <4> QED
        BY <1>3, <1>7, <4>1, <4>3, <4>4 DEF Holds, clientVars
    <3>2. CASE t # w
      <4>1. Has(t, c) /\ Holds(t, c) /\ job'[t] = job[t] /\ pc'[t] = pc[t]
        BY <1>1, <1>12, <1>13, <2>2, <3>2 DEF Tokens, SameThread
      <4>2. PICK j \in Job : j = job[t] /\ j = job'[t]
        BY <4>1 DEF Shape, ThreadShape
      <4>3. Waits(c, j)' = 0
        <5>1. Waits(c, j) = 0
          BY <4>1, <4>2 DEF Holds
        <5> QED
          BY <1>5, <5>1
      <4>4. Waits(c, job[t])' = 0
        BY <4>2, <4>3 DEF Waits
      <4> QED
        BY <1>3, <4>1, <4>4 DEF Holds, clientVars
    <3> QED
      BY <3>1, <3>2
  <2>3. ASSUME NEW t \in Thread, NEW u \in Thread, Has(t, c)', Has(u, c)', job'[t].n = job'[u].n
        PROVE  t = u
    <3>1. \A v \in Thread : v # w /\ Has(v, c)' => Has(v, c) /\ job'[v] = job[v] /\ job[v].n # m.n
      BY <1>7, <1>12, <1>13 DEF SameThread
    <3> QED
      BY <1>1, <1>2, <2>3, <3>1 DEF Tokens
  <2> QED
    BY <2>1, <2>2, <2>3 DEF Tokens
<1>16. Records(c)'
  <2>1. AtWork(w)'
    BY <1>2, <1>7, <1>8 DEF AtWork, HasRec, Live, KillPc
  <2> QED
    BY <1>1, <1>2, <1>3, <1>10, <1>11, <2>1, RecordsKept
<1>17. Stages(c)'
  <2>1. \A t \in Thread : (on[t] = c /\ pc[t] \in Locked) \/ (on'[t] = c /\ pc'[t] \in Locked) =>
                             on'[t] = on[t] /\ pc'[t] = pc[t]
    BY <1>2, <1>9, <1>11, <1>12 DEF Locked, SameThread
  <2>2. Breaks(w, c)' => Running(c)
    BY <1>7, <1>8, <1>11 DEF Breaks
  <2>3. ~Told(w, c) /\ ~Told(w, c)'
    BY <1>11 DEF Told
  <2>4. \A t \in Thread : /\ Told(t, c)' <=> Told(t, c)
                          /\ Breaks(t, c)' => Breaks(t, c) \/ Running(c)
    BY <1>13, <2>2, <2>3
  <2>5. \A j \in Job : Waits(c, j)' > 0 => Waits(c, j) > 0
    BY <1>5
  <2> QED
    BY <1>1, <1>10, <2>1, <2>4, <2>5, StagesKept DEF SameOrb
<1>18. Deaf(c)'
  <2>1. SameThread(Main) /\ UNCHANGED <<state, held, selected, conns>>
    BY <1>3, <1>11, <1>12 DEF Thread, connVars
  <2> QED
    BY <1>1, <1>10, <2>1, DeafKept
<1>19. Refs(c)'
  <2>1. Held(c)' = Held(c)
    <3>1. \A n \in 1..MaxMsg : orbids'[<<c, n>>] # "none" <=> orbids[<<c, n>>] # "none"
      BY <1>3 DEF recVars
    <3>2. \A u \in Worker : (on[u] = c /\ pc[u] = "erase") \/ (on'[u] = c /\ pc'[u] = "erase") => SameThread(u)
      BY <1>2, <1>9, <1>11, <1>12 DEF Thread
    <3> QED
      BY <3>1, <3>2, HeldKept
  <2>2. Own(c)' <=> Own(c)
    <3>1. \A t \in Thread : pc'[t] = "abort" /\ on'[t] = c <=> pc[t] = "abort" /\ on[t] = c
      BY <1>3, <1>9, <1>12 DEF SameThread
    <3> QED
      BY <1>10, <3>1 DEF Own, SameState
  <2> QED
    BY <1>1, <1>3, <1>10, <2>1, <2>2, RefsKept DEF SameOrb, connVars
<1> QED
  BY <1>14, <1>15, <1>16, <1>17, <1>18, <1>19 DEF Good

-----------------------------------------------------------------------------
(***************************************************************************)
(* kill_conn() and the workers of the ORB pool.                            *)
(***************************************************************************)
\* One thread at a time is in the locked part of kill_conn(), and the main
\* thread is in the dispatcher.
LEMMA OneKiller ==
  ASSUME Shape, Mutex, NEW t \in Thread, pc[t] \in KillPc
  PROVE  /\ t # Main
         /\ pc[t] \in Locked => lock = t /\ \A u \in Thread : u # t => pc[u] \notin Locked
         /\ lock = Nobody => \A u \in Thread : pc[u] \notin Locked
<1>1. Nobody \notin Thread
  BY ConstantsAssumption DEF Thread
<1> QED
  BY <1>1 DEF Mutex, KillPc

\* A thread in kill_conn() has no record, and keeps what it has in hand.
LEMMA KillerMoves ==
  ASSUME NEW c \in Conn, Shape, Shape', Good(c), NEW t \in Thread, t # Main, on[t] = c, pc[t] \in KillPc, Only(t),
         (on'[t] = c /\ job'[t] = job[t] /\ pc'[t] \in KillPc) \/ (on'[t] = NoConn /\ pc'[t] = "free"),
         UNCHANGED clientVars, UNCHANGED recVars, decode' = decode,
         state[c].new = 4 => state'[c].new = 4
  PROVE  Talk(c)' /\ Tokens(c)' /\ Records(c)' /\ Held(c)' = Held(c)
<1>1. Talk(c) /\ Tokens(c) /\ Records(c)
  BY DEF Good
<1>2. SameTalk(c) /\ SameRecs(c) /\ SameQueue(c) /\ c # NoConn
  BY SameParts, SameQueues, ConstantsAssumption
<1>3. Talk(c)'
  BY <1>1, <1>2, TalkKept
<1>4. Tokens(c)'
  <2>1. ASSUME NEW u \in Thread, Has(u, c)' PROVE Keeps(u, c)
    <3>1. CASE u = t
      BY <1>2, <2>1, <3>1 DEF Has, Keeps, KillPc
    <3>2. CASE u # t
      BY <2>1, <3>2 DEF Has, Keeps, Only
    <3> QED
      BY <3>1, <3>2
  <2> QED
    BY <1>1, <1>2, <2>1, TokensKept DEF SameTalk, SameSent, SamePast
<1>5. Records(c)'
  <2>1. ASSUME t \in Worker, on'[t] = c PROVE AtWork(t)'
    <3>1. AtWork(t) /\ job'[t] = job[t] /\ pc'[t] \in KillPc
      BY <1>1, <1>2, <2>1 DEF Records
    <3> QED
      BY <3>1 DEF AtWork, KillPc, HasRec, Live
  <2>2. pc[t] \notin HasRec
    BY DEF KillPc, HasRec
  <2> QED
    BY <1>1, <1>2, <2>1, <2>2, RecordsKept
<1>6. Held(c)' = Held(c)
  <2>1. \A n \in 1..MaxMsg : orbids'[<<c, n>>] # "none" <=> orbids[<<c, n>>] # "none"
    BY DEF recVars
  <2>2. \A u \in Worker : (on[u] = c /\ pc[u] = "erase") \/ (on'[u] = c /\ pc'[u] = "erase") => SameThread(u)
    BY DEF KillPc, Only, SameThread, Thread
  <2> QED
    BY <2>1, <2>2, HeldKept
<1> QED
  BY <1>3, <1>4, <1>5, <1>6

\* The state moves on, and no other thread closes the connection.
LEMMA StageMoved ==
  ASSUME NEW c \in Conn, Shape, Stages(c), Deaf(c), Quit(c), NEW t \in Thread, t # Main, Only(t),
         \/ on'[t] = c /\ pc'[t] \in Locked
         \/ on'[t] = NoConn /\ Is(c, 4, 4)',
         \A u \in Thread : u # t /\ on[u] = c => pc[u] \notin Locked /\ ~Breaks(u, c) /\ ~Told(u, c),
         Closes(c) = 0, Closes(c)' = 0, SameQueue(c), SameSent(c),
         \A j \in Job : Waits(c, j) > 0 => j.kind # "garbled",
         Is(c, 1, 3)' \/ Is(c, 2, 3)' \/ Is(c, 3, 3)' \/ Is(c, 3, 4)' \/ Is(c, 4, 4)',
         pc'[t] = "shutdown" => state'[c].current \in {1, 2} /\ state'[c].new = 3,
         pc'[t] = "closing" => Is(c, 3, 3)',
         pc'[t] = "terminate" => Is(c, 3, 4)',
         pc'[t] = "abort" => Is(c, 4, 4)',
         c \in held' => c \in held, c \in selected' => c \in selected, c \notin conns',
         state'[c].current \in {3, 4} => state'[c].active = 0
  PROVE  Stages(c)' /\ Deaf(c)'
<1>1. c # NoConn /\ \A u \in Thread : u # t => SameThread(u)
  BY ConstantsAssumption DEF Only, SameThread
<1>2. \A u \in Thread : ~Breaks(u, c)' /\ ~Told(u, c)'
  <2>1. ASSUME NEW u \in Thread PROVE ~Breaks(u, c)' /\ ~Told(u, c)'
    <3>1. CASE u = t
      BY <1>1, <3>1 DEF Breaks, Has, Told, Locked
    <3>2. CASE u # t
      <4>1. SameThread(u) /\ (on[u] = c => ~Breaks(u, c) /\ ~Told(u, c))
        BY <1>1, <3>2
      <4> QED
        BY <4>1 DEF Breaks, Has, Told, SameThread
    <3> QED
      BY <3>1, <3>2
  <2> QED
    BY <2>1
<1>3. ASSUME NEW u \in Thread, on'[u] = c PROVE Stage(u, c)'
  <2>1. CASE u = t
    BY <1>2, <2>1 DEF Stage
  <2>2. CASE u # t
    <3>1. pc'[u] \notin Locked
      BY <1>1, <1>3, <2>2 DEF SameThread
    <3> QED
      BY <1>2, <3>1 DEF Stage, Locked
  <2> QED
    BY <2>1, <2>2
<1>4. state'[c].new > state'[c].current \/ Is(c, 3, 3)' => \E u \in Thread : on'[u] = c /\ pc'[u] \in Locked
  BY DEF Is
<1>5. ~Is(c, 1, 1)' /\ ~Is(c, 2, 2)'
  BY DEF Is
<1>6. \A j \in Job : ~(Waits(c, j)' > 0 /\ j.kind = "garbled")
  BY DEF SameQueue
<1>7. Stages(c)'
  BY <1>2, <1>3, <1>4, <1>5, <1>6 DEF Stages
<1>8. Deaf(c)'
  <2>1. SameThread(Main)
    BY <1>1 DEF Thread
  <2>2. Ending(c)' <=> Ending(c)
    BY DEF Ending, SaidLast, SameSent
  <2> QED
    BY <2>1, <2>2 DEF Deaf, SameSent, SameThread
<1> QED
  BY <1>7, <1>8

\* Who closes the connection is alone in that.
LEMMA Killing ==
  ASSUME NEW c \in Conn, Shape, Mutex, Good(c), NEW t \in Thread, on[t] = c, pc[t] \in KillPc,
         pc[t] = "kill" => lock = Nobody
  PROVE  /\ t # Main /\ Quit(c) /\ Closes(c) = 0
         /\ \A u \in Thread : u # t /\ on[u] = c => pc[u] \notin Locked /\ ~Breaks(u, c) /\ ~Told(u, c)
         /\ \A j \in Job : Waits(c, j) > 0 => j.kind # "garbled"
         /\ pc[t] = "kill" => Is(c, 1, 1) \/ Is(c, 2, 2)
<1>1. Talk(c) /\ Tokens(c) /\ Records(c) /\ Stages(c) /\ Deaf(c)
  BY DEF Good
<1>2. t # Main /\ \A u \in Thread : u # t => pc[u] \notin Locked
  BY OneKiller DEF KillPc, Locked
<1>3. /\ Stage(t, c) /\ \A u \in Thread : on[u] = c => Stage(u, c)
  BY <1>1 DEF Stages
<1>4. \A u \in Thread : Breaks(u, c) \/ Told(u, c) => on[u] = c
  BY DEF Breaks, Has, Told
<1>5. CASE pc[t] \in Locked
  <2>1. ~Is(c, 1, 1) /\ ~Is(c, 2, 2)
    BY <1>3, <1>5 DEF Stage, Locked, Is
  <2>2. \A u \in Thread : ~Breaks(u, c) /\ ~Told(u, c)
    BY <1>3, <1>4, <2>1 DEF Stage, Running
  <2>3. Closes(c) = 0 /\ \A j \in Job : Waits(c, j) > 0 => j.kind # "garbled"
    BY <1>1, <2>1 DEF Stages, Running
  <2>4. Quit(c) /\ pc[t] # "kill"
    BY <1>5, <2>1 DEF Quit, Running, Locked
  <2> QED
    BY <1>2, <2>2, <2>3, <2>4
<1>6. CASE pc[t] = "kill" /\ t \in Worker
  <2>1. Breaks(t, c)
    BY <1>2, <1>6 DEF Breaks, Has
  <2>2. /\ ReadLast(c) /\ \A u \in Thread : Breaks(u, c) => u = t
        /\ \A j \in Job : Waits(c, j) > 0 => j.kind # "garbled"
    BY <1>1, <2>1, Breaker
  <2>3. Is(c, 1, 1) /\ ~Is(c, 2, 2)
    BY <1>3, <2>1 DEF Stage, Running, Is
  <2>4. \A u \in Thread : ~Told(u, c)
    BY <1>3, <1>4, <2>3 DEF Stage
  <2>5. Closes(c) = 0
    BY <1>1, <2>3 DEF Stages
  <2>6. Quit(c)
    BY <2>2 DEF Quit
  <2> QED
    BY <1>2, <2>2, <2>3, <2>4, <2>5, <2>6
<1>7. CASE pc[t] = "kill" /\ t \in OrbWorker
  <2>1. Told(t, c)
    BY <1>7 DEF Told
  <2>2. Is(c, 2, 2) /\ Closes(c) = 0 /\ ~Running(c)
    BY <1>3, <2>1 DEF Stage, Running, Is
  <2>3. \A u \in Thread : u # t => ~Told(u, c)
    BY <1>1, <2>1 DEF Stages
  <2>4. \A u \in Thread : ~Breaks(u, c)
    BY <1>3, <1>4, <2>2 DEF Stage
  <2>5. \A j \in Job : Waits(c, j) > 0 => j.kind # "garbled"
    BY <1>1, <2>2 DEF Stages
  <2>6. Quit(c)
    BY <2>2 DEF Quit
  <2> QED
    BY <1>2, <2>2, <2>3, <2>4, <2>5, <2>6
<1> QED
  BY <1>2, <1>5, <1>6, <1>7 DEF Thread, KillPc, Locked

\* The thread takes the lock and the connection out of the server's list.
LEMMA KillGood ==
  ASSUME NEW c \in Conn, Shape, Shape', Mutex, Good(c), NEW t \in Thread, on[t] = c, Kill(t)
  PROVE  Good(c)'
<1>1. pc[t] = "kill" /\ lock = Nobody /\ pc[t] \in KillPc
  BY DEF Kill, At, KillPc
<1>2. /\ t # Main /\ Quit(c) /\ Closes(c) = 0
      /\ \A u \in Thread : u # t /\ on[u] = c => pc[u] \notin Locked /\ ~Breaks(u, c) /\ ~Told(u, c)
      /\ \A j \in Job : Waits(c, j) > 0 => j.kind # "garbled"
      /\ Is(c, 1, 1) \/ Is(c, 2, 2)
  BY <1>1, Killing
<1>3. Stages(c) /\ Deaf(c) /\ Refs(c)
  BY DEF Good
<1>4. /\ conns' = conns \ {c} /\ SetState(c, S!BeginChange(state[c], S!Shutdown)) /\ Goto(t, "shutdown")
      /\ UNCHANGED clientVars /\ UNCHANGED recVars /\ UNCHANGED poolVars
      /\ UNCHANGED <<life, held, refcnt, selected>>
  <2>1. state[c].current \in {S!Active, S!InitShutdown}
    BY <1>2 DEF Is, S!Active, S!InitShutdown
  <2> QED
    BY <2>1 DEF Kill
<1>5. Only(t) /\ on'[t] = c /\ job'[t] = job[t] /\ pc'[t] = "shutdown"
  BY <1>4, GotoOnly
<1>6. state'[c].current = state[c].current /\ state'[c].new = 3
  <2>1. state[c] \in ConnState /\ S!Shutdown = 3
    BY DEF Shape, ConnShape, S!Shutdown
  <2>2. S!BeginChange(state[c], 3) \in ConnState
    BY <2>1, StateMethods
  <2>3. state'[c] = S!BeginChange(state[c], 3)
    BY <1>4, <2>1, <2>2, SetStateShape DEF Shape
  <2> QED
    BY <2>1, <2>3, StateMethods
<1>7. state'[c].current \in {1, 2} /\ (Is(c, 1, 3)' \/ Is(c, 2, 3)')
  BY <1>2, <1>6 DEF Is
<1>8. SameSent(c) /\ SameQueue(c) /\ SameOrb(c)
  BY <1>4, SameParts DEF SameTalk
<1>9. Talk(c)' /\ Tokens(c)' /\ Records(c)' /\ Held(c)' = Held(c)
  <2>1. state[c].new # 4 /\ pc'[t] \in KillPc /\ decode' = decode
    BY <1>2, <1>4, <1>5 DEF Is, KillPc, poolVars
  <2> QED
    BY <1>1, <1>2, <1>4, <1>5, <2>1, KillerMoves
<1>10. Stages(c)' /\ Deaf(c)'
  <2>1. Closes(c)' = 0 /\ c \notin conns' /\ pc'[t] \in Locked
    BY <1>2, <1>4, <1>5, <1>8 DEF SameOrb, Locked
  <2>2. ~(state'[c].current \in {3, 4})
    BY <1>7
  <2>3. (c \in held' => c \in held) /\ (c \in selected' => c \in selected)
    BY <1>4
  <2> QED
    BY <1>2, <1>3, <1>5, <1>6, <1>7, <1>8, <2>1, <2>2, <2>3, StageMoved
<1>11. Refs(c)'
  <2>1. Own(c) /\ Own(c)'
    BY <1>2, <1>7 DEF Own, Is
  <2> QED
    BY <1>3, <1>4, <1>8, <1>9, <2>1, RefsKept DEF SameOrb
<1> QED
  BY <1>9, <1>10, <1>11 DEF Good

\* No message is left to decode ...
LEMMA ShutdownEffectiveGood ==
  ASSUME NEW c \in Conn, Shape, Shape', Mutex, Good(c), NEW t \in Thread, on[t] = c,
         ShutdownEffective(t)
  PROVE  Good(c)'
<1>1. pc[t] = "shutdown" /\ pc[t] \in KillPc /\ pc[t] # "kill" /\ state[c].active = 0
  BY DEF ShutdownEffective, At, KillPc, S!ChangeEffective
<1>2. /\ t # Main /\ Quit(c) /\ Closes(c) = 0
      /\ \A u \in Thread : u # t /\ on[u] = c => pc[u] \notin Locked /\ ~Breaks(u, c) /\ ~Told(u, c)
      /\ \A j \in Job : Waits(c, j) > 0 => j.kind # "garbled"
  BY <1>1, Killing
<1>3. Stages(c) /\ Deaf(c) /\ Refs(c) /\ state[c].current \in {1, 2} /\ state[c].new = 3
  <2>1. Stages(c) /\ Deaf(c) /\ Refs(c)
    BY DEF Good
  <2> QED
    BY <1>1, <2>1 DEF Stages, Stage
<1>4. /\ SetState(c, S!EndChange(state[c])) /\ Goto(t, "closing")
      /\ UNCHANGED clientVars /\ UNCHANGED recVars /\ UNCHANGED poolVars
      /\ UNCHANGED <<life, held, refcnt, selected, conns>>
  BY DEF ShutdownEffective
<1>5. Only(t) /\ on'[t] = c /\ job'[t] = job[t] /\ pc'[t] = "closing"
  BY <1>4, GotoOnly
<1>6. Is(c, 3, 3)' /\ state'[c].active = 0
  <2>1. state[c] \in ConnState /\ S!EndChange(state[c]) \in ConnState
    BY StateMethods DEF Shape, ConnShape
  <2>2. state'[c] = S!EndChange(state[c])
    BY <1>4, <2>1, SetStateShape DEF Shape
  <2>3. /\ S!EndChange(state[c]).current = (IF state[c].new > state[c].current THEN state[c].new
                                            ELSE state[c].current)
        /\ S!EndChange(state[c]).new = state[c].new /\ S!EndChange(state[c]).active = state[c].active
    BY <2>1, StateMethods
  <2> QED
    BY <1>1, <1>3, <2>2, <2>3 DEF Is
<1>7. SameSent(c) /\ SameQueue(c) /\ SameOrb(c)
  BY <1>4, SameParts DEF SameTalk
<1>8. Talk(c)' /\ Tokens(c)' /\ Records(c)' /\ Held(c)' = Held(c)
  <2>1. state[c].new # 4 /\ pc'[t] \in KillPc /\ decode' = decode
    BY <1>3, <1>4, <1>5 DEF KillPc, poolVars
  <2> QED
    BY <1>1, <1>2, <1>4, <1>5, <2>1, KillerMoves
<1>9. Stages(c)' /\ Deaf(c)'
  <2>1. Closes(c)' = 0 /\ c \notin conns' /\ pc'[t] \in Locked
    BY <1>2, <1>3, <1>4, <1>5, <1>7 DEF SameOrb, Locked, Deaf
  <2>2. (c \in held' => c \in held) /\ (c \in selected' => c \in selected)
    BY <1>4
  <2> QED
    BY <1>2, <1>3, <1>5, <1>6, <1>7, <2>1, <2>2, StageMoved
<1>10. Refs(c)'
  <2>1. Own(c) /\ Own(c)'
    BY <1>3, <1>6 DEF Own, Is
  <2> QED
    BY <1>3, <1>4, <1>7, <1>8, <2>1, RefsKept DEF SameOrb
<1> QED
  BY <1>8, <1>9, <1>10 DEF Good

\* ... so that the transport is closed ...
LEMMA CloseTransportGood ==
  ASSUME NEW c \in Conn, Shape, Shape', Mutex, Good(c), NEW t \in Thread, on[t] = c,
         CloseTransport(t)
  PROVE  Good(c)'
<1>1. pc[t] = "closing" /\ pc[t] \in KillPc /\ pc[t] # "kill"
  BY DEF CloseTransport, At, KillPc
<1>2. /\ t # Main /\ Quit(c) /\ Closes(c) = 0
      /\ \A u \in Thread : u # t /\ on[u] = c => pc[u] \notin Locked /\ ~Breaks(u, c) /\ ~Told(u, c)
      /\ \A j \in Job : Waits(c, j) > 0 => j.kind # "garbled"
  BY <1>1, Killing
<1>3. Stages(c) /\ Deaf(c) /\ Refs(c) /\ Is(c, 3, 3) /\ state[c].active = 0
  <2>1. Stages(c) /\ Deaf(c) /\ Refs(c)
    BY DEF Good
  <2>2. Is(c, 3, 3)
    BY <1>1, <2>1 DEF Stages, Stage
  <2> QED
    BY <2>1, <2>2 DEF Deaf, Is
<1>4. /\ SetState(c, S!BeginChange(state[c], S!Terminated)) /\ Goto(t, "terminate")
      /\ UNCHANGED clientVars /\ UNCHANGED recVars /\ UNCHANGED poolVars
      /\ UNCHANGED <<life, held, refcnt, conns>> /\ selected' = selected \ {c}
  BY DEF CloseTransport
<1>5. Only(t) /\ on'[t] = c /\ job'[t] = job[t] /\ pc'[t] = "terminate"
  BY <1>4, GotoOnly
<1>6. Is(c, 3, 4)' /\ state'[c].active = 0
  <2>1. state[c] \in ConnState /\ S!Terminated = 4
    BY DEF Shape, ConnShape, S!Terminated
  <2>2. S!BeginChange(state[c], 4) \in ConnState
    BY <2>1, StateMethods
  <2>3. state'[c] = S!BeginChange(state[c], 4)
    BY <1>4, <2>1, <2>2, SetStateShape DEF Shape
  <2>4. /\ S!BeginChange(state[c], 4).current = state[c].current
        /\ S!BeginChange(state[c], 4).new = 4 /\ S!BeginChange(state[c], 4).active = state[c].active
    BY <2>1, StateMethods
  <2> QED
    BY <1>3, <2>3, <2>4 DEF Is
<1>7. SameSent(c) /\ SameQueue(c) /\ SameOrb(c)
  BY <1>4, SameParts DEF SameTalk
<1>8. Talk(c)' /\ Tokens(c)' /\ Records(c)' /\ Held(c)' = Held(c)
  <2>1. state[c].new # 4 /\ pc'[t] \in KillPc /\ decode' = decode
    BY <1>3, <1>4, <1>5 DEF KillPc, poolVars, Is
  <2> QED
    BY <1>1, <1>2, <1>4, <1>5, <2>1, KillerMoves
<1>9. Stages(c)' /\ Deaf(c)'
  <2>1. Closes(c)' = 0 /\ c \notin conns' /\ pc'[t] \in Locked
    BY <1>2, <1>3, <1>4, <1>5, <1>7 DEF SameOrb, Locked, Deaf, Is
  <2>2. (c \in held' => c \in held) /\ (c \in selected' => c \in selected)
    BY <1>4
  <2> QED
    BY <1>2, <1>3, <1>5, <1>6, <1>7, <2>1, <2>2, StageMoved
<1>10. Refs(c)'
  <2>1. Own(c) /\ Own(c)'
    BY <1>3, <1>6 DEF Own, Is
  <2> QED
    BY <1>3, <1>4, <1>7, <1>8, <2>1, RefsKept DEF SameOrb
<1> QED
  BY <1>8, <1>9, <1>10 DEF Good

\* ... and the connection has terminated.
LEMMA TerminatedEffectiveGood ==
  ASSUME NEW c \in Conn, Shape, Shape', Mutex, Good(c), NEW t \in Thread, on[t] = c,
         TerminatedEffective(t)
  PROVE  Good(c)'
<1>1. pc[t] = "terminate" /\ pc[t] \in KillPc /\ pc[t] # "kill"
  BY DEF TerminatedEffective, At, KillPc
<1>2. /\ t # Main /\ Quit(c) /\ Closes(c) = 0
      /\ \A u \in Thread : u # t /\ on[u] = c => pc[u] \notin Locked /\ ~Breaks(u, c) /\ ~Told(u, c)
      /\ \A j \in Job : Waits(c, j) > 0 => j.kind # "garbled"
  BY <1>1, Killing
<1>3. Stages(c) /\ Deaf(c) /\ Refs(c) /\ Is(c, 3, 4) /\ state[c].active = 0
  <2>1. Stages(c) /\ Deaf(c) /\ Refs(c)
    BY DEF Good
  <2>2. Is(c, 3, 4)
    BY <1>1, <2>1 DEF Stages, Stage
  <2> QED
    BY <2>1, <2>2 DEF Deaf, Is
<1>4. /\ SetState(c, S!EndChange(state[c])) /\ Goto(t, "abort")
      /\ UNCHANGED clientVars /\ UNCHANGED recVars /\ UNCHANGED poolVars
      /\ UNCHANGED <<life, held, refcnt, selected, conns>>
  BY <1>2 DEF TerminatedEffective
<1>5. Only(t) /\ on'[t] = c /\ job'[t] = job[t] /\ pc'[t] = "abort"
  BY <1>4, GotoOnly
<1>6. Is(c, 4, 4)' /\ state'[c].active = 0
  <2>1. state[c] \in ConnState /\ S!EndChange(state[c]) \in ConnState
    BY StateMethods DEF Shape, ConnShape
  <2>2. state'[c] = S!EndChange(state[c])
    BY <1>4, <2>1, SetStateShape DEF Shape
  <2>3. /\ S!EndChange(state[c]).current = (IF state[c].new > state[c].current THEN state[c].new
                                            ELSE state[c].current)
        /\ S!EndChange(state[c]).new = state[c].new /\ S!EndChange(state[c]).active = state[c].active
    BY <2>1, StateMethods
  <2> QED
    BY <1>3, <2>2, <2>3 DEF Is
<1>7. SameSent(c) /\ SameQueue(c) /\ SameOrb(c)
  BY <1>4, SameParts DEF SameTalk
<1>8. Talk(c)' /\ Tokens(c)' /\ Records(c)' /\ Held(c)' = Held(c)
  <2>1. (state[c].new = 4 => state'[c].new = 4) /\ pc'[t] \in KillPc /\ decode' = decode
    BY <1>4, <1>5, <1>6 DEF KillPc, poolVars, Is
  <2> QED
    BY <1>1, <1>2, <1>4, <1>5, <2>1, KillerMoves
<1>9. Stages(c)' /\ Deaf(c)'
  <2>1. Closes(c)' = 0 /\ c \notin conns' /\ pc'[t] \in Locked
    BY <1>2, <1>3, <1>4, <1>5, <1>7 DEF SameOrb, Locked, Deaf, Is
  <2>2. (c \in held' => c \in held) /\ (c \in selected' => c \in selected)
    BY <1>4
  <2> QED
    BY <1>2, <1>3, <1>5, <1>6, <1>7, <2>1, <2>2, StageMoved
<1>10. Refs(c)'
  <2>1. Own(c) /\ Own(c)'
    BY <1>3, <1>5 DEF Own, Is
  <2> QED
    BY <1>3, <1>4, <1>7, <1>8, <2>1, RefsKept DEF SameOrb
<1> QED
  BY <1>8, <1>9, <1>10 DEF Good

\* No request is under way when a gentle client's connection has been closed:
\* kill_conn() has no record to abort.
LEMMA NoneToAbort ==
  ASSUME NEW c \in Conn, Shape, Good(c), Quit(c)
  PROVE  ActiveRecs(c) = {}
<1> SUFFICES ASSUME NEW q \in ActiveRecs(c) PROVE FALSE
  OBVIOUS
<1>1. Talk(c) /\ Tokens(c) /\ Records(c) /\ Deaf(c)
  BY DEF Good
<1>2. PICK n \in 1..MaxMsg : q = <<c, n>> /\ orbids[q] = "active"
  BY DEF ActiveRecs, Rec
<1>3. PICK w \in Worker : on[w] = c /\ job[w].n = n /\ pc[w] \in HasRec
  BY <1>1, <1>2 DEF Records
<1>4. w \in Thread /\ w # Main /\ Has(w, c) /\ AtWork(w) /\ Mine(w) = q
  BY <1>1, <1>2, <1>3, ConstantsAssumption DEF Thread, Has, Records, Mine
<1>5. pc[w] \notin {"drop", "erase"} /\ job[w].kind \in {"invoke", "locate"}
  BY <1>2, <1>3, <1>4 DEF AtWork
<1>6. <<c, n>> \notin replied
  BY <1>1, <1>3, <1>4, <1>5 DEF Tokens, Holds
<1>7. n \in DOMAIN sent[c] /\ job[w] = sent[c][n]
  BY <1>1, <1>3, <1>4, InHand
<1>8. Awaits(c, n)
  BY <1>5, <1>6, <1>7 DEF Awaits
<1>9. HasReplies(c)
  BY <1>1 DEF Deaf, Talk
<1> QED
  BY <1>2, <1>8, <1>9 DEF HasReplies

\* The connection gives back its own reference.
LEMMA KillEndGood ==
  ASSUME NEW c \in Conn, Shape, Shape', Mutex, Good(c), life[c] # "none",
         NEW t \in Thread, on[t] = c, KillEnd(t)
  PROVE  Good(c)'
<1>1. pc[t] = "abort" /\ pc[t] \in KillPc /\ pc[t] # "kill" /\ pc[t] \in Locked
  BY DEF KillEnd, At, KillPc, Locked
<1>2. /\ t # Main /\ Quit(c) /\ Closes(c) = 0
      /\ \A u \in Thread : u # t /\ on[u] = c => pc[u] \notin Locked /\ ~Breaks(u, c) /\ ~Told(u, c)
      /\ \A j \in Job : Waits(c, j) > 0 => j.kind # "garbled"
  BY <1>1, Killing
<1>3. Stages(c) /\ Deaf(c) /\ Refs(c) /\ Is(c, 4, 4) /\ state[c].active = 0
  <2>1. Stages(c) /\ Deaf(c) /\ Refs(c)
    BY DEF Good
  <2>2. Is(c, 4, 4)
    BY <1>1, <2>1 DEF Stages, Stage
  <2> QED
    BY <2>1, <2>2 DEF Deaf, Is
<1>4. /\ deref_conn(c) /\ Free(t) /\ decode' = decode
      /\ UNCHANGED clientVars /\ UNCHANGED recVars
      /\ UNCHANGED <<life, held, state, selected, conns>>
  BY DEF KillEnd
<1>5. Only(t) /\ on'[t] = NoConn /\ pc'[t] = "free"
  BY <1>4, FreeOnly
<1>6. /\ refcnt[c] > 0 /\ refcnt'[c] = refcnt[c] - 1 /\ refcnt[c] \in Nat
      /\ Closes(c)' = Closes(c) /\ Kills(c) \in Nat
      /\ Kills(c)' = Kills(c) + (IF refcnt[c] = 1 THEN 1 ELSE 0)
  BY <1>4, DerefEffect
<1>7. SameSent(c) /\ SameQueue(c)
  BY <1>4, SameParts, SameQueues DEF SameTalk
<1>8. Talk(c)' /\ Tokens(c)' /\ Records(c)' /\ Held(c)' = Held(c)
  BY <1>1, <1>2, <1>4, <1>5, KillerMoves
<1>9. Stages(c)' /\ Deaf(c)'
  <2>1. Closes(c)' = 0 /\ c \notin conns' /\ Is(c, 4, 4)' /\ state'[c].active = 0
    BY <1>2, <1>3, <1>4, <1>6 DEF Deaf, Is
  <2> QED
    BY <1>2, <1>3, <1>4, <1>5, <1>7, <2>1, StageMoved
<1>10. Refs(c)'
  <2>1. Own(c)
    BY <1>1 DEF Own
  <2>2. ~Own(c)'
    <3>1. \A u \in Thread : ~(pc'[u] = "abort" /\ on'[u] = c)
      BY <1>2, <1>5 DEF Only, Locked
    <3> QED
      BY <1>3, <1>4, <3>1 DEF Own, Is
  <2>3. life[c] = "open" /\ Kills(c) = 0
    BY <1>3, <2>1, Kept
  <2>4. Cardinality(Held(c)) \in Nat
    BY HeldFinite
  <2>5. refcnt'[c] = Cardinality(Held(c)')
    BY <1>3, <1>6, <1>8, <2>1, <2>4 DEF Refs
  <2>6. Kills(c)' = IF refcnt'[c] = 0 THEN 1 ELSE 0
    BY <1>6, <2>3
  <2> QED
    BY <1>4, <1>8, <2>2, <2>3, <2>4, <2>5, <2>6 DEF Refs
<1> QED
  BY <1>8, <1>9, <1>10 DEF Good

\* A worker of the ORB pool is told to close a connection.
LEMMA TakeCloseGood ==
  ASSUME NEW c \in Conn, c = Head(orb).conn, Shape, Shape', Good(c), NEW o \in OrbWorker, TakeClose(o)
  PROVE  Good(c)'
<1>1. Talk(c) /\ Tokens(c) /\ Records(c) /\ Stages(c) /\ Deaf(c) /\ Refs(c)
  BY DEF Good
<1>2. o \in Thread /\ o \notin Worker /\ o # Main /\ on[o] = NoConn /\ c # NoConn
  BY TakeOthers, ConstantsAssumption
<1>3. /\ pc[o] = "free" /\ orb # <<>> /\ Head(orb).ev = "CloseConn" /\ orb' = Tail(orb)
      /\ pc' = [pc EXCEPT ![o] = "kill"] /\ on' = [on EXCEPT ![o] = c] /\ job' = job /\ decode' = decode
      /\ UNCHANGED clientVars /\ UNCHANGED connVars /\ UNCHANGED recVars
  BY DEF TakeClose
<1>4. /\ pc'[o] = "kill" /\ on'[o] = c /\ Only(o)
      /\ \A u \in Thread : u # o => SameThread(u)
  BY <1>2, <1>3 DEF Only, SameThread, Shape, ThreadShape
<1>5. Closes(c) > 0 /\ Closes(c)' = Closes(c) - 1 /\ Kills(c)' = Kills(c)
  <2>1. /\ Closes(c)' \in Nat /\ Kills(c)' \in Nat
        /\ Closes(c) = Closes(c)' + 1 /\ Kills(c) = Kills(c)' + 0
    BY <1>3, OrbTail
  <2> QED
    BY <2>1
<1>6. Closes(c) = 1 /\ Closes(c)' = 0 /\ Is(c, 2, 2) /\ \A u \in Thread : ~Told(u, c)
  <2>1. Closes(c) = 1
    BY <1>1, <1>5 DEF Stages
  <2> QED
    BY <1>1, <1>5, <2>1 DEF Stages, Stage, Told
<1>7. SameTalk(c) /\ SameRecs(c) /\ SameQueue(c) /\ SameState(c) /\ SameSent(c)
  BY <1>3, SameParts, SameQueues DEF SameState, SameTalk, connVars
<1>8. ~Told(o, c) /\ Told(o, c)' /\ \A u \in Thread : u # o => ~Told(u, c)'
  <2>1. \A u \in Thread : u # o => (Told(u, c)' <=> Told(u, c))
    BY <1>4 DEF Told, SameThread
  <2> QED
    BY <1>2, <1>4, <1>6, <2>1 DEF Told
<1>9. \A u \in Thread : (Has(u, c)' <=> Has(u, c)) /\ (Breaks(u, c)' <=> Breaks(u, c))
  <2>1. ~Has(o, c) /\ ~Has(o, c)'
    BY <1>2 DEF Has
  <2> QED
    BY <1>4, <2>1 DEF Has, Breaks, SameThread
<1>10. Talk(c)'
  BY <1>1, <1>7, TalkKept DEF SameState
<1>11. Tokens(c)'
  <2>1. \A u \in Thread : Has(u, c)' => Keeps(u, c)
    BY <1>2, <1>4, <1>9 DEF Has, Keeps, SameThread
  <2> QED
    BY <1>1, <1>7, <2>1, TokensKept DEF SameTalk, SameSent, SamePast
<1>12. Records(c)'
  BY <1>1, <1>2, <1>4, <1>7, RecordsKept
<1>13. Stages(c)'
  <2>1. Is(c, 2, 2)'
    BY <1>6, <1>7 DEF Is, SameState
  <2>2. ASSUME NEW u \in Thread, on'[u] = c PROVE Stage(u, c)'
    <3>1. CASE u = o
      BY <1>2, <1>4, <1>6, <2>1, <3>1 DEF Stage, Breaks, Has
    <3>2. CASE u # o
      <4>1. Stage(u, c) /\ SameThread(u)
        BY <1>1, <1>4, <2>2, <3>2 DEF Stages, SameThread
      <4> QED
        BY <1>6, <1>8, <1>9, <2>1, <3>2, <4>1 DEF Stage, SameThread, Running, Is
    <3> QED
      BY <3>1, <3>2
  <2>3. ~(state'[c].new > state'[c].current) /\ ~Is(c, 3, 3)'
    BY <2>1 DEF Is
  <2>4. \A j \in Job : ~(Waits(c, j)' > 0 /\ j.kind = "garbled")
    BY <1>1, <1>6, <1>7 DEF Stages, Running, Is, SameQueue
  <2> QED
    BY <1>2, <1>6, <1>8, <2>1, <2>2, <2>3, <2>4 DEF Stages
<1>14. Deaf(c)'
  <2>1. SameThread(Main)
    BY <1>2, <1>4 DEF Thread
  <2> QED
    BY <1>1, <1>3, <1>7, <2>1, DeafKept DEF connVars
<1>15. Refs(c)'
  <2>1. \A n \in 1..MaxMsg : orbids'[<<c, n>>] # "none" <=> orbids[<<c, n>>] # "none"
    BY <1>3 DEF recVars
  <2>2. \A u \in Worker : SameThread(u)
    BY <1>2, <1>4 DEF Thread
  <2>3. Held(c)' = Held(c)
    BY <2>1, <2>2, HeldKept
  <2>4. Own(c)' <=> Own(c)
    <3>1. \A u \in Thread : pc'[u] = "abort" /\ on'[u] = c <=> pc[u] = "abort" /\ on[u] = c
      BY <1>3, <1>4 DEF SameThread
    <3> QED
      BY <1>7, <3>1 DEF Own, SameState
  <2> QED
    BY <1>1, <1>3, <1>5, <2>3, <2>4, RefsKept DEF connVars
<1> QED
  BY <1>10, <1>11, <1>12, <1>13, <1>14, <1>15 DEF Good

\* It deletes one, which no one refers to.
LEMMA TakeKillGood ==
  ASSUME NEW c \in Conn, c = Head(orb).conn, Shape, Shape', Good(c), NEW o \in OrbWorker, TakeKill(o)
  PROVE  Good(c)'
<1>1. Talk(c) /\ Tokens(c) /\ Records(c) /\ Stages(c) /\ Deaf(c) /\ Refs(c)
  BY DEF Good
<1>2. /\ orb # <<>> /\ Head(orb).ev = "KillConn" /\ orb' = Tail(orb) /\ decode' = decode
      /\ life' = [life EXCEPT ![c] = "deleted"]
      /\ UNCHANGED clientVars /\ UNCHANGED recVars /\ UNCHANGED threadVars
      /\ UNCHANGED <<held, state, refcnt, selected, conns>>
  BY DEF TakeKill
<1>3. Kills(c) > 0 /\ Kills(c)' = Kills(c) - 1 /\ Closes(c)' = Closes(c)
  <2>1. /\ Closes(c)' \in Nat /\ Kills(c)' \in Nat
        /\ Closes(c) = Closes(c)' + 0 /\ Kills(c) = Kills(c)' + 1
    BY <1>2, OrbTail
  <2> QED
    BY <2>1
<1>4. refcnt[c] = 0 /\ Kills(c) = 1
  BY <1>1, <1>3 DEF Refs
<1>5. SameTalk(c) /\ SameRecs(c) /\ SameQueue(c) /\ SameState(c) /\ SameSent(c)
  BY <1>2, SameParts, SameQueues DEF SameState, SameTalk
<1>6. \A t \in Thread : /\ SameThread(t) /\ (Has(t, c)' <=> Has(t, c))
                        /\ (Breaks(t, c)' <=> Breaks(t, c)) /\ (Told(t, c)' <=> Told(t, c))
  BY <1>2 DEF threadVars, SameThread, Has, Breaks, Told
<1>7. Talk(c)' /\ Tokens(c)'
  <2>1. \A t \in Thread : Has(t, c)' => Keeps(t, c)
    BY <1>6 DEF SameThread, Keeps
  <2> QED
    BY <1>1, <1>5, <2>1, TalkKept, TokensKept DEF SameState, SameTalk, SameSent, SamePast
<1>8. Records(c)'
  <2>1. Main \in Thread /\ Main \notin Worker
    BY ConstantsAssumption DEF Thread
  <2>2. Only(Main)
    BY <1>6 DEF Only, SameThread
  <2> QED
    BY <1>1, <1>5, <2>1, <2>2, RecordsKept
<1>9. Stages(c)' /\ Deaf(c)'
  <2>1. Main \in Thread
    BY DEF Thread
  <2>2. \A j \in Job : Waits(c, j)' = Waits(c, j)
    BY <1>5 DEF SameQueue
  <2>3. Stages(c)'
    BY <1>1, <1>3, <1>5, <1>6, <2>2, StagesKept DEF SameThread
  <2> QED
    BY <1>1, <1>2, <1>5, <1>6, <2>1, <2>3, DeafKept
<1>10. Refs(c)'
  <2>1. \A n \in 1..MaxMsg : orbids'[<<c, n>>] # "none" <=> orbids[<<c, n>>] # "none"
    BY <1>2 DEF recVars
  <2>2. \A u \in Worker : SameThread(u)
    BY <1>6 DEF Thread
  <2>3. Held(c)' = Held(c)
    BY <2>1, <2>2, HeldKept
  <2>4. Own(c)' <=> Own(c)
    BY <1>2 DEF Own, threadVars
  <2>5. refcnt'[c] = 0 /\ life'[c] = "deleted" /\ Kills(c)' = 0
    BY <1>2, <1>3, <1>4 DEF Shape, ConnShape
  <2> QED
    BY <1>1, <1>4, <2>3, <2>4, <2>5 DEF Refs
<1> QED
  BY <1>7, <1>8, <1>9, <1>10 DEF Good

-----------------------------------------------------------------------------
(***************************************************************************)
(* Every step, of the connection of a gentle client or of another.         *)
(***************************************************************************)
\* The steps of a worker, but for those a gentle client never causes.
LEMMA DecodeGood ==
  ASSUME NEW c \in Conn, Shape, Shape', Counts, Good(c), life[c] # "none",
         NEW w \in Worker, on[w] = c, Decode(w), ~TakeInput(w)
  PROVE  Good(c)'
<1>1. AtWork(w)
  BY WorkerFacts
<1>2. ~CancelRequest(w)
  BY <1>1 DEF CancelRequest, At, AtWork
<1>3. ~DerefUndecoded(w) /\ ~OrbCancel(w)
  BY <1>1 DEF DerefUndecoded, OrbCancel, At, AtWork, KillPc, HasRec
<1> QED
  BY <1>2, <1>3, HandleRequestGood, ActiveDerefGood, RespondGood, InvokeGood, AnswerGood, PullGood,
     DeactivateGood, ReplyGood, DropGood, EraseGood DEF Decode

\* The steps of kill_conn().
LEMMA kill_connGood ==
  ASSUME NEW c \in Conn, Shape, Shape', Mutex, ~stopping, Good(c), life[c] # "none",
         NEW t \in Thread, on[t] = c, kill_conn(t)
  PROVE  Good(c)'
<1>1. ~KillReturn(t)
  BY DEF KillReturn
<1>2. ~Abort(t)
  <2>1. SUFFICES ASSUME pc[t] = "abort", ActiveRecs(c) # {} PROVE FALSE
    BY DEF Abort, At
  <2>2. Quit(c)
    BY <2>1, Killing DEF KillPc
  <2> QED
    BY <2>1, <2>2, NoneToAbort
<1> QED
  BY <1>1, <1>2, KillGood, ShutdownEffectiveGood, CloseTransportGood, TerminatedEffectiveGood,
     KillEndGood DEF kill_conn, terminate

\* A connection that is made was made, a client keeps its manners, and the
\* ORB goes on stopping.
LEMMA LifeStays ==
  ASSUME Shape, [Next]_vars
  PROVE  /\ client' = client /\ (stopping => stopping')
         /\ \A c \in Conn : life[c] # "none" => life'[c] # "none"
<1>1. CASE UNCHANGED vars
  BY <1>1 DEF vars, clientVars, connVars
<1>2. CASE \E c \in Conn : Send(c) \/ Hangup(c) \/ Accept(c)
  BY <1>2 DEF Send, Hangup, Accept, GIOPConn, clientVars, connVars, Shape, ConnShape
<1>3. CASE Read \/ ShutdownBegin \/ shutdown
  <2>1. UNCHANGED <<client, life>> /\ (stopping => stopping')
    BY <1>3 DEF Read, Select, ReadMessage, input_ready, ReadError, ReadEnd, ShutdownBegin, shutdown,
       ConnClosed, Bye, terminate, ShutdownEffective, CloseTransport, TerminatedEffective,
       ShutdownEnd, clientVars, connVars
  <2> QED
    BY <2>1
<1>4. ASSUME NEW t \in Thread, kill_conn(t)
      PROVE  UNCHANGED <<client, life>> /\ (stopping => stopping')
  BY <1>4 DEF kill_conn, KillReturn, Kill, terminate, ShutdownEffective, CloseTransport,
     TerminatedEffective, Abort, KillEnd, clientVars, connVars
<1>5. ASSUME NEW w \in Worker, Decode(w)
      PROVE  UNCHANGED <<client, life>> /\ (stopping => stopping')
  BY <1>5 DEF Decode, TakeInput, HandleRequest, CancelRequest, ActiveDeref, AfterActiveDeref,
     DerefUndecoded, Respond, Invoke, Answer, Pull, Deactivate, Reply, Drop, Erase, OrbCancel,
     clientVars, connVars
<1>6. ASSUME NEW o \in OrbWorker, TakeClose(o) \/ TakeKill(o)
      PROVE  client' = client /\ stopping' = stopping /\ \A c \in Conn : life[c] # "none" => life'[c] # "none"
  BY <1>6 DEF TakeClose, TakeKill, clientVars, connVars, Shape, ConnShape
<1>7. CASE \E t \in Thread : Fail(t)
  BY <1>7 DEF Fail, clientVars, connVars
<1> QED
  BY <1>1, <1>2, <1>3, <1>4, <1>5, <1>6, <1>7 DEF Next, Thread

\* A step without effect on a connection keeps it tame; one of a thread that
\* works on it finds it made.
LEMMA Tamed ==
  ASSUME NEW c \in Conn, Shape, Shape', [Next]_vars, Tame(c), NEW d,
         d # c => Untouched(c), d = c => life[c] # "none", d = c /\ Good(c) => Good(c)'
  PROVE  Tame(c)'
<1>1. CASE d # c
  BY <1>1, Elsewhere
<1>2. CASE d = c
  BY <1>2, LifeStays DEF Tame
<1> QED
  BY <1>1, <1>2

\* The connection of a gentle client stays tame, and so does one that is not
\* made yet.
LEMMA TameNext ==
  ASSUME NEW c \in Conn, Shape, Shape', Counts, Gentle(c) \/ life'[c] = "none", Tame(c), Mutex,
         ~stopping, ~stopping', [Next]_vars
  PROVE  Tame(c)'
<1>1. \A t \in Thread : on[t] = c => life[c] # "none"
  BY DEF Tame, Unborn
<1>2. CASE UNCHANGED vars \/ \E t \in Thread : Fail(t)
  <2>1. UNCHANGED <<clientVars, connVars, recVars, poolVars, threadVars>>
    BY <1>2 DEF vars, Fail
  <2>2. Rest(c)
    BY <2>1, SameParts DEF Rest, connVars
  <2>3. Untouched(c)
    BY <2>1, <2>2 DEF Untouched, SameThread, threadVars
  <2> QED
    BY <2>3, Elsewhere
<1>3. ASSUME NEW d \in Conn, Send(d) \/ Hangup(d) PROVE Tame(c)'
  <2>1. d # c => Untouched(c)
    BY <1>3, ClientOthers DEF Others
  <2>2. life[d] # "none" /\ (d = c => Gentle(c))
    BY <1>3, LifeStays DEF Send, Hangup
  <2> QED
    BY <1>3, <2>1, <2>2, SendGood, HangupGood, Tamed
<1>4. ASSUME NEW d \in Conn, Accept(d) PROVE Tame(c)'
  <2>1. CASE d # c
    BY <1>4, <2>1, ClientOthers, Elsewhere DEF Others
  <2>2. CASE d = c
    <3>1. Unborn(c) /\ life'[c] = "open"
      BY <1>4, <2>2 DEF Accept, Tame, GIOPConn, Shape, ConnShape
    <3> QED
      BY <1>4, <2>2, <3>1, AcceptGood DEF Tame
  <2> QED
    BY <2>1, <2>2
<1>5. CASE Read
  <2>1. ASSUME NEW d \in Conn, Select(d) PROVE Tame(c)'
    <3>1. d # c => Untouched(c)
      BY <2>1, SelectOthers DEF Others
    <3>2. d = c => life[c] # "none"
      BY <2>1 DEF Select, Tame, Unborn
    <3> QED
      BY <2>1, <3>1, <3>2, SelectGood, Tamed
  <2>2. CASE ReadMessage \/ input_ready \/ ReadError \/ ReadEnd
    <3>1. on[Main] # c => Untouched(c)
      BY <2>2, ReadOthers DEF Others
    <3>2. on[Main] = c => life[c] # "none"
      BY <1>1 DEF Thread
    <3> QED
      BY <2>2, <3>1, <3>2, ReadMessageGood, input_readyGood, ReadErrorGood, ReadEndGood, Tamed
  <2> QED
    BY <1>5, <2>1, <2>2 DEF Read
<1>6. ~ShutdownBegin /\ ~shutdown
  BY DEF ShutdownBegin, shutdown, ConnClosed, Bye, terminate, ShutdownEffective, CloseTransport,
     TerminatedEffective, ShutdownEnd, At, Mutex
<1>7. ASSUME NEW w \in Worker, Decode(w) PROVE Tame(c)'
  <2>1. CASE TakeInput(w)
    <3>1. Head(decode).conn # c => Untouched(c)
      BY <2>1, TakeInputOthers DEF Others
    <3>2. Head(decode).conn = c => life[c] # "none"
      <4>1. SUFFICES ASSUME Head(decode).conn = c, Unborn(c) PROVE FALSE
        BY DEF Tame
      <4>2. decode # <<>> /\ decode' = Tail(decode)
        BY <2>1 DEF TakeInput
      <4>3. PICK j \in Job : j = Head(decode).job
        BY <4>2, DecodeTail DEF QueuedMsg
      <4>4. Waits(c, j)' \in Nat /\ Waits(c, j) = Waits(c, j)' + 1
        BY <4>1, <4>2, <4>3, DecodeTail
      <4> QED
        BY <4>1, <4>4 DEF Unborn
    <3> QED
      BY <2>1, <3>1, <3>2, TakeInputGood, Tamed
  <2>2. CASE ~TakeInput(w)
    <3>1. on[w] # c => Untouched(c)
      BY <1>7, <2>2, DecodeOthers DEF Others
    <3>2. on[w] = c => life[c] # "none"
      BY <1>1 DEF Thread
    <3> QED
      BY <1>7, <2>2, <3>1, <3>2, DecodeGood, Tamed
  <2> QED
    BY <2>1, <2>2
<1>8. ASSUME NEW o \in OrbWorker, TakeClose(o) \/ TakeKill(o) PROVE Tame(c)'
  <2>1. Head(orb).conn # c => Untouched(c)
    BY <1>8, TakeOthers DEF Others
  <2>2. Head(orb).conn = c => life[c] # "none"
    <3>1. SUFFICES ASSUME Head(orb).conn = c, Unborn(c) PROVE FALSE
      BY DEF Tame
    <3>2. orb # <<>> /\ orb' = Tail(orb) /\ Head(orb).ev \in {"CloseConn", "KillConn"}
      BY <1>8 DEF TakeClose, TakeKill
    <3>3. /\ Closes(c)' \in Nat /\ Kills(c)' \in Nat
          /\ Closes(c) = Closes(c)' + 1 \/ Kills(c) = Kills(c)' + 1
      BY <3>1, <3>2, OrbTail
    <3> QED
      BY <3>1, <3>3 DEF Unborn
  <2> QED
    BY <1>8, <2>1, <2>2, TakeCloseGood, TakeKillGood, Tamed
<1>9. ASSUME NEW t \in Thread, kill_conn(t) PROVE Tame(c)'
  <2>1. on[t] # c => Untouched(c)
    BY <1>9, KillOthers DEF Others
  <2>2. on[t] = c => life[c] # "none"
    BY <1>1
  <2> QED
    BY <1>9, <2>1, <2>2, kill_connGood, Tamed
<1> QED
  BY <1>2, <1>3, <1>4, <1>5, <1>6, <1>7, <1>8, <1>9 DEF Next, Thread

\* One thread at a time stays in the locked part of kill_conn().
LEMMA MutexNext ==
  ASSUME Shape, Mutex, ~stopping, ~stopping', [Next]_vars
  PROVE  Mutex'
<1>1. Main \in Thread /\ Main \notin Worker /\ Main \notin OrbWorker /\ Nobody \notin Thread
  BY ConstantsAssumption DEF Thread
<1>2. ASSUME UNCHANGED <<pc, lock>> PROVE Mutex'
  BY <1>2 DEF Mutex
<1>3. ASSUME NEW t \in Thread, Only(t), pc'[t] \notin Locked, lock' = lock,
             t = Main => pc'[t] \in InLoop
      PROVE  Mutex'
  BY <1>1, <1>3 DEF Mutex, Only, InLoop
<1>4. CASE UNCHANGED vars \/ \E t \in Thread : Fail(t)
  BY <1>2, <1>4 DEF vars, Fail, threadVars
<1>5. CASE \E c \in Conn : Send(c) \/ Hangup(c) \/ Accept(c)
  BY <1>2, <1>5 DEF Send, Hangup, Accept, threadVars
<1>6. CASE Read
  <2>1. /\ pc'[Main] \in InLoop /\ lock' = lock
    BY <1>1, <1>6 DEF Read, Select, ReadMessage, input_ready, ReadError, ReadEnd, Free, Goto, InLoop,
       Shape, ThreadShape
  <2>2. Only(Main)
    BY <1>6, SelectOthers, ReadOthers DEF Read
  <2> QED
    BY <1>1, <1>3, <2>1, <2>2 DEF InLoop, Locked
<1>7. ~ShutdownBegin /\ ~shutdown
  BY DEF ShutdownBegin, shutdown, ConnClosed, Bye, terminate, ShutdownEffective, CloseTransport,
     TerminatedEffective, ShutdownEnd, At, Mutex
<1>8. ASSUME NEW w \in Worker, Decode(w) PROVE Mutex'
  <2>1. w \in Thread /\ w # Main
    BY <1>1 DEF Thread
  <2>2. lock' = lock /\ Only(w)
    <3>1. lock' = lock
      BY <1>8 DEF Decode, TakeInput, HandleRequest, CancelRequest, ActiveDeref, AfterActiveDeref,
         DerefUndecoded, Respond, Invoke, Answer, Pull, Deactivate, Reply, Drop, Erase, OrbCancel
    <3>2. Only(w)
      BY <1>8, TakeInputOthers, DecodeOthers
    <3> QED
      BY <3>1, <3>2
  <2>3. pc'[w] \notin Locked
    <3>1. CASE TakeInput(w)
      <4>1. Head(decode).job.kind \in Message
        BY <3>1, TakeInputOthers DEF QueuedMsg, Job
      <4>2. pc'[w] \in {"input", "ignored"} \cup Message
        BY <3>1, <4>1, TakeInputOthers
      <4> QED
        BY <4>2 DEF Message, Request, Locked
    <3>2. CASE ActiveDeref(w)
      <4>1. \A l \in DOMAIN AfterDecode : AfterDecode[l] \in {"invoke", "drop", "free", "deref", "respond", "kill"}
        BY DEF AfterDecode
      <4> QED
        BY <2>1, <3>2, <4>1 DEF ActiveDeref, AfterActiveDeref, Goto, Free, Locked, Shape, ThreadShape
    <3>3. CASE \/ HandleRequest(w) \/ CancelRequest(w) \/ DerefUndecoded(w) \/ Respond(w) \/ Invoke(w)
               \/ Answer(w)
      BY <2>1, <3>3 DEF HandleRequest, CancelRequest, DerefUndecoded, Respond, Invoke, Answer,
         Goto, Free, Locked, Shape, ThreadShape
    <3>4. CASE Pull(w) \/ Deactivate(w) \/ Reply(w) \/ Drop(w) \/ Erase(w) \/ OrbCancel(w)
      BY <2>1, <3>4 DEF Pull, Deactivate, Reply, Drop, Erase, OrbCancel, Goto, Free, Locked, Shape,
         ThreadShape
    <3> QED
      BY <1>8, <3>1, <3>2, <3>3, <3>4 DEF Decode
  <2> QED
    BY <1>3, <2>1, <2>2, <2>3
<1>9. ASSUME NEW o \in OrbWorker, TakeClose(o) \/ TakeKill(o) PROVE Mutex'
  <2>1. CASE TakeClose(o)
    <3>1. o \in Thread /\ o # Main
      BY <1>1 DEF Thread
    <3>2. Only(o) /\ pc'[o] = "kill" /\ lock' = lock
      BY <2>1, <3>1 DEF TakeClose, Only, Shape, ThreadShape
    <3> QED
      BY <1>3, <3>1, <3>2 DEF Locked
  <2>2. CASE TakeKill(o)
    BY <1>2, <2>2 DEF TakeKill, threadVars
  <2> QED
    BY <1>9, <2>1, <2>2
<1>10. ASSUME NEW t \in Thread, kill_conn(t) PROVE Mutex'
  <2>1. pc[t] \in KillPc /\ t # Main /\ Only(t)
    <3>1. pc[t] \in KillPc
      BY <1>10 DEF kill_conn, KillReturn, Kill, terminate, ShutdownEffective, CloseTransport,
         TerminatedEffective, Abort, KillEnd, At, KillPc
    <3> QED
      BY <1>10, <3>1, OneKiller, KillOthers
  <2>2. CASE Kill(t) /\ pc'[t] \in Locked
    <3>1. lock = Nobody /\ lock' = t
      BY <2>2 DEF Kill, Free, Locked, Shape, ThreadShape
    <3>2. \A u \in Thread : u # t => pc'[u] \notin Locked
      BY <2>1, <3>1, OneKiller DEF Only
    <3> QED
      BY <1>1, <2>1, <3>1, <3>2 DEF Mutex, Only, InLoop
  <2>3. CASE Kill(t) /\ pc'[t] \notin Locked
    <3>1. lock' = lock
      BY <2>3 DEF Kill, Goto, Locked, Shape, ThreadShape
    <3> QED
      BY <1>3, <2>1, <2>3, <3>1
  <2>4. CASE terminate(t) \/ Abort(t)
    <3>1. lock' = lock /\ pc[t] \in Locked
      BY <2>4 DEF terminate, ShutdownEffective, CloseTransport, TerminatedEffective, Abort, At, Locked
    <3>2. lock = t
      BY <3>1 DEF Mutex
    <3> QED
      BY <1>1, <2>1, <3>1, <3>2 DEF Mutex, Only, InLoop
  <2>5. CASE KillEnd(t)
    <3>1. pc[t] \in Locked /\ pc'[t] = "free"
      BY <2>5 DEF KillEnd, At, Locked, Free, Shape, ThreadShape
    <3>2. \A u \in Thread : pc'[u] \notin Locked
      BY <2>1, <3>1, OneKiller DEF Only, Locked
    <3> QED
      BY <1>1, <2>1, <3>2 DEF Mutex, Only, InLoop
  <2>6. ~KillReturn(t)
    BY DEF KillReturn
  <2> QED
    BY <1>10, <2>2, <2>3, <2>4, <2>5, <2>6 DEF kill_conn
<1> QED
  BY <1>4, <1>5, <1>6, <1>7, <1>8, <1>9, <1>10 DEF Next, Thread

-----------------------------------------------------------------------------
(***************************************************************************)
(* No assertion fails, and nothing that was deleted is used.               *)
(***************************************************************************)
\* What a thread uses exists: it works on a connection that is to be deleted
\* by another.
LEMMA ConnExists ==
  ASSUME NEW c \in Conn, Shape, Counts, Mutex, Good(c), life[c] # "none",
         NEW t \in Thread, on[t] = c, pc[t] \in UsesConn
  PROVE  life[c] = "open" /\ refcnt[c] > 0
<1>1. Talk(c) /\ Tokens(c) /\ Records(c) /\ Stages(c) /\ Deaf(c) /\ Refs(c) /\ Stage(t, c)
  BY DEF Good, Stages
<1>2. SUFFICES Own(c) \/ Held(c) # {}
  BY <1>1, Kept
<1>3. state[c].current # 4 => Own(c)
  BY DEF Own
<1>4. Running(c) \/ Is(c, 2, 2) => Own(c)
  BY <1>3 DEF Running, Is
<1>5. CASE t = Main
  <2>1. pc[t] \in {"reading", "read"}
    BY <1>5 DEF Mutex, UsesConn
  <2>2. CASE pc[t] = "read"
    BY <1>4, <1>5, <2>2, ReadRunning
  <2>3. CASE pc[t] = "reading"
    BY <1>1, <1>4, <1>5, <2>3 DEF Deaf, Quit
  <2> QED
    BY <2>1, <2>2, <2>3
<1>6. CASE pc[t] \in Locked
  <2>1. CASE pc[t] = "abort"
    BY <2>1 DEF Own
  <2>2. CASE pc[t] # "abort"
    BY <1>1, <1>3, <1>6, <2>2 DEF Stage, Locked, Is
  <2> QED
    BY <2>1, <2>2
<1>7. CASE t \in Worker /\ pc[t] \notin Locked
  <2>1. AtWork(t) /\ Has(t, c)
    BY <1>7, WorkerFacts
  <2>2. CASE pc[t] \in {"input", "decoded", "ignored", "garbled"}
    <3>1. pc[t] \in Decodes
      BY <2>2 DEF Decodes, AfterDecode
    <3> QED
      BY <1>1, <1>7, <3>1, Engaged
  <2>3. CASE pc[t] \in {"respond", "kill"}
    <3>1. Breaks(t, c)
      BY <1>7, <2>1, <2>3 DEF Breaks
    <3> QED
      BY <1>1, <1>4, <3>1 DEF Stage
  <2>4. CASE pc[t] \in {"send", "drop"}
    <3>1. Mine(t) \in Held(c)
      BY <1>1, <1>7, <2>4, Recorded DEF HasRec
    <3> QED
      BY <3>1
  <2>5. pc[t] \in {"input", "decoded", "ignored", "garbled", "respond", "kill", "send", "drop"}
    BY <1>7, <2>1 DEF AtWork, KillPc, HasRec, Locked, UsesConn
  <2> QED
    BY <2>2, <2>3, <2>4, <2>5
<1>8. CASE t \in OrbWorker /\ pc[t] \notin Locked
  <2>1. pc[t] = "kill"
    BY <1>8, ConstantsAssumption DEF Shape, ThreadShape, PcOf, KillPc, Locked, UsesConn
  <2>2. Told(t, c)
    BY <1>8, <2>1 DEF Told
  <2> QED
    BY <1>1, <1>4, <2>2 DEF Stage
<1> QED
  BY <1>5, <1>6, <1>7, <1>8 DEF Thread

\* A connection to be deleted has terminated.
LEMMA KillTerminated ==
  ASSUME NEW c \in Conn, Shape, Tame(c), orb # <<>>, Head(orb) = [conn |-> c, ev |-> "KillConn"]
  PROVE  state[c].current = 4
<1>1. Kills(c) > 0
  <2>1. 1 \in DOMAIN orb /\ orb[1] = Head(orb)
    BY LenProperties DEF Shape, PoolShape
  <2>2. /\ Kills(c) \in Nat
        /\ Kills(c) = 0 <=> \A i \in DOMAIN orb : orb[i] \notin {[conn |-> c, ev |-> "KillConn"]}
    BY NoneCount DEF Shape, PoolShape, Kills
  <2> QED
    BY <2>1, <2>2
<1>2. Refs(c) /\ life[c] # "none"
  BY <1>1 DEF Tame, Unborn, Good
<1>3. refcnt[c] = 0
  BY <1>1, <1>2 DEF Refs
<1>4. ~Own(c)
  <2>1. Cardinality(Held(c)) \in Nat
    BY HeldFinite
  <2> QED
    BY <1>2, <1>3, <2>1 DEF Refs
<1> QED
  BY <1>4 DEF Own

\* The process survives as long as all clients are gentle.
LEMMA NoFail ==
  ASSUME Shape, Counts, Mutex, ~stopping, \A c \in Conn : Tame(c), NEW t \in Thread
  PROVE  ~Fail(t)
<1>1. ASSUME pc[t] \in UsesConn \cup UsesRec
      PROVE  LET c == on[t] IN c \in Conn /\ Good(c) /\ life[c] # "none"
  <2>1. on[t] \in Conn
    BY <1>1, Busy DEF UsesConn, UsesRec, Away
  <2> QED
    BY <2>1 DEF Tame, Unborn
<1>2. pc[t] \in UsesConn => life[on[t]] = "open" /\ refcnt[on[t]] > 0
  BY <1>1, ConnExists
<1>3. pc[t] \in UsesRec \cup {"deref"} => /\ t \in Worker /\ AtWork(t)
                                          /\ pc[t] # "deref" => orbids[Mine(t)] # "none"
  <2>1. SUFFICES ASSUME pc[t] \in UsesRec \cup {"deref"}
                 PROVE  t \in Worker /\ AtWork(t) /\ (pc[t] # "deref" => orbids[Mine(t)] # "none")
    OBVIOUS
  <2>2. t \in Worker
    BY <2>1 DEF Shape, ThreadShape, Thread, PcOf, KillPc, MainOnly, UsesRec
  <2>3. AtWork(t)
    BY <1>1, <2>1, <2>2, WorkerFacts DEF UsesConn
  <2> QED
    BY <2>1, <2>2, <2>3 DEF AtWork, UsesRec
<1>4. ~UsesDeleted(t)
  BY <1>2, <1>3 DEF UsesDeleted, At, UsesRec
<1>5. ~Aborts(t)
  <2>1. ~ \E l \in {"deref", "drop"} : At(t, l) /\ ~DerefOK(on[t])
    BY <1>2 DEF At, DerefOK, UsesConn
  <2>2. ~(At(t, "abort") /\ ~DerefOK(on[t]))
    BY <1>2 DEF At, DerefOK, UsesConn
  <2>3. ~(At(t, "reading") /\ on[t] \in held)
    BY <1>1 DEF At, UsesConn, Good, Deaf
  <2>4. ASSUME orb # <<>>, Head(orb).ev = "KillConn", state[Head(orb).conn].current # S!Terminated
        PROVE  FALSE
    <3>1. Head(orb) \in OrbMsg
      BY <2>4 DEF Shape, PoolShape
    <3>2. Head(orb).conn \in Conn /\ Head(orb) = [conn |-> Head(orb).conn, ev |-> "KillConn"]
      BY <2>4, <3>1 DEF OrbMsg
    <3> QED
      BY <2>4, <3>2, KillTerminated DEF S!Terminated
  <2> QED
    BY <2>1, <2>2, <2>3, <2>4 DEF Aborts
<1> QED
  BY <1>4, <1>5 DEF Fail

\* One connection changes its references, and the slots with them.
LEMMA SlotsMoved ==
  ASSUME Shape, Shape', NEW c \in Conn, \A d \in Conn : d # c => refcnt'[d] = refcnt[d],
         slots = Cardinality(InUse),
         \/ refcnt[c] > 0 /\ refcnt'[c] > 0 /\ slots' = slots
         \/ refcnt[c] = 0 /\ refcnt'[c] > 0 /\ slots' = slots + 1
         \/ refcnt[c] > 0 /\ refcnt'[c] = 0 /\ slots' = IF slots = 0 THEN CountMod - 1 ELSE slots - 1
  PROVE  slots' = Cardinality(InUse')
<1> DEFINE A == InUse
           B == {d \in Conn : refcnt'[d] > 0}
<1>1. A \in SUBSET Conn /\ B \in SUBSET Conn /\ IsFiniteSet(Conn) /\ \A d \in Conn : d # c => (d \in A <=> d \in B)
  BY ConstantsAssumption DEF InUse
<1>2. /\ Cardinality(A) \in Nat /\ Cardinality(B) \in Nat
      /\ Cardinality(B) + (IF c \in A THEN 1 ELSE 0) = Cardinality(A) + (IF c \in B THEN 1 ELSE 0)
  <2> HIDE DEF A, B
  <2> QED
    BY <1>1, MoveCount
<1>3. (c \in A <=> refcnt[c] > 0) /\ (c \in B <=> refcnt'[c] > 0)
  BY DEF InUse
<1>4. InUse' = B
  BY DEF InUse
<1>5. refcnt[c] \in Nat /\ refcnt'[c] \in Nat
  BY DEF Shape, ConnShape
<1>6. slots = Cardinality(A)
  OBVIOUS
<1> HIDE DEF A, B
<1> QED
  BY <1>2, <1>3, <1>4, <1>5, <1>6

\* As long as all clients are gentle, every connection that is referred to has
\* its slot.
LEMMA SlotsNext ==
  ASSUME Shape, Shape', Counts, Mutex, ~stopping, ~stopping', \A c \in Conn : Tame(c),
         slots = Cardinality(InUse), fault = "none", [Next]_vars
  PROVE  slots' = Cardinality(InUse') /\ fault' = "none"
<1>1. ASSUME UNCHANGED <<refcnt, slots>> PROVE slots' = Cardinality(InUse')
  BY <1>1 DEF InUse
<1>2. \A t \in Thread : ~Fail(t)
  BY NoFail
<1>3. ASSUME NEW c \in Conn, deref_conn(c) PROVE slots' = Cardinality(InUse')
  <2>1. /\ \A d \in Conn : d # c => refcnt'[d] = refcnt[d]
        /\ refcnt[c] > 0 /\ refcnt'[c] = refcnt[c] - 1 /\ refcnt[c] \in Nat
        /\ refcnt[c] # 1 => slots' = slots
        /\ refcnt[c] = 1 => slots' = IF slots = 0 THEN CountMod - 1 ELSE slots - 1
    BY <1>3, DerefEffect
  <2>2. \/ refcnt[c] > 0 /\ refcnt'[c] > 0 /\ slots' = slots
        \/ refcnt[c] > 0 /\ refcnt'[c] = 0 /\ slots' = IF slots = 0 THEN CountMod - 1 ELSE slots - 1
    BY <2>1
  <2> QED
    BY <2>1, <2>2, SlotsMoved
<1>4. CASE UNCHANGED vars
  BY <1>1, <1>4 DEF vars, connVars
<1>5. CASE \E c \in Conn : Send(c) \/ Hangup(c)
  BY <1>1, <1>5 DEF Send, Hangup, connVars
<1>6. CASE \E c \in Conn : Accept(c)
  <2>1. PICK c \in Conn : Accept(c)
    BY <1>6
  <2>2. refcnt[c] = 0
    BY <2>1 DEF Accept, Tame, Unborn
  <2>3. refcnt'[c] = 1 /\ slots' = slots + 1 /\ fault' = fault /\ \A d \in Conn : d # c => refcnt'[d] = refcnt[d]
    BY <2>1 DEF Accept, start, Shape, ConnShape
  <2> QED
    BY <2>2, <2>3, SlotsMoved
<1>7. CASE Read
  BY <1>1, <1>7 DEF Read, Select, ReadMessage, input_ready, ReadError, ReadEnd, connVars
<1>8. ~ShutdownBegin /\ ~shutdown
  BY DEF ShutdownBegin, shutdown, ConnClosed, Bye, terminate, ShutdownEffective, CloseTransport,
     TerminatedEffective, ShutdownEnd, At, Mutex
<1>9. ASSUME NEW w \in Worker, Decode(w) PROVE slots' = Cardinality(InUse') /\ fault' = fault
  <2>1. fault' = fault
    BY <1>9 DEF Decode, TakeInput, HandleRequest, CancelRequest, ActiveDeref, AfterActiveDeref,
       DerefUndecoded, Respond, Invoke, Answer, Pull, Deactivate, Reply, Drop, Erase, OrbCancel
  <2>2. CASE HandleRequest(w)
    <3>1. on[w] \in Conn /\ w \in Thread /\ pc[w] = "input"
      BY <2>2, DecodeOthers DEF Decode, HandleRequest, TakeInput, At
    <3>2. refcnt[on[w]] > 0
      BY <3>1, ConnExists DEF UsesConn, Tame, Unborn
    <3>3. /\ refcnt'[on[w]] = refcnt[on[w]] + 1 /\ refcnt[on[w]] \in Nat /\ slots' = slots
          /\ \A d \in Conn : d # on[w] => refcnt'[d] = refcnt[d]
      BY <2>2, <3>1 DEF HandleRequest, Shape, ConnShape
    <3> QED
      BY <2>1, <3>1, <3>2, <3>3, SlotsMoved
  <2>3. CASE Drop(w)
    <3>1. on[w] \in Conn
      BY <2>3, DecodeOthers DEF Decode, Drop, TakeInput, At
    <3> QED
      BY <1>3, <2>1, <2>3, <3>1 DEF Drop
  <2>4. ~DerefUndecoded(w)
    <3>1. SUFFICES ASSUME pc[w] = "deref" PROVE FALSE
      BY DEF DerefUndecoded, At
    <3>2. w \in Thread /\ on[w] \in Conn
      BY <3>1, Busy DEF Thread, Away
    <3>3. AtWork(w)
      BY <3>2 DEF Tame, Unborn, Good, Records
    <3> QED
      BY <3>1, <3>3 DEF AtWork, KillPc, HasRec
  <2>5. CASE \/ TakeInput(w) \/ CancelRequest(w) \/ ActiveDeref(w) \/ Respond(w) \/ Invoke(w) \/ Answer(w)
             \/ Pull(w) \/ Deactivate(w) \/ Reply(w) \/ Erase(w) \/ OrbCancel(w)
    BY <1>1, <2>1, <2>5 DEF TakeInput, CancelRequest, ActiveDeref, AfterActiveDeref, Respond, Invoke, Answer,
       Pull, Deactivate, Reply, Erase, OrbCancel, connVars
  <2> QED
    BY <1>9, <2>2, <2>3, <2>4, <2>5 DEF Decode
<1>10. CASE \E o \in OrbWorker : TakeClose(o) \/ TakeKill(o)
  BY <1>1, <1>10 DEF TakeClose, TakeKill, connVars
<1>11. ASSUME NEW t \in Thread, kill_conn(t) PROVE slots' = Cardinality(InUse') /\ fault' = fault
  <2>1. CASE KillEnd(t)
    BY <1>3, <1>11, <2>1, KillOthers DEF KillEnd
  <2>2. CASE KillReturn(t) \/ Kill(t) \/ terminate(t) \/ Abort(t)
    BY <1>1, <2>2 DEF KillReturn, Kill, terminate, ShutdownEffective, CloseTransport,
       TerminatedEffective, Abort, connVars
  <2> QED
    BY <1>11, <2>1, <2>2 DEF kill_conn
<1>12. CASE \E c \in Conn : Send(c) \/ Hangup(c) \/ Accept(c)
  BY <1>5, <1>6, <1>12
<1>13. fault' = "none"
  <2>1. CASE UNCHANGED vars
    BY <2>1 DEF vars
  <2>2. CASE \E c \in Conn : Send(c) \/ Hangup(c) \/ Accept(c)
    BY <2>2 DEF Send, Hangup, Accept
  <2>3. CASE Read
    BY <2>3 DEF Read, Select, ReadMessage, input_ready, ReadError, ReadEnd
  <2>4. CASE \E o \in OrbWorker : TakeClose(o) \/ TakeKill(o)
    BY <2>4 DEF TakeClose, TakeKill
  <2> QED
    BY <1>2, <1>8, <1>9, <1>11, <2>1, <2>2, <2>3, <2>4 DEF Next, Thread
<1> QED
  BY <1>2, <1>4, <1>7, <1>8, <1>9, <1>10, <1>11, <1>12, <1>13 DEF Next, Thread

-----------------------------------------------------------------------------
(***************************************************************************)
(* The theorems.                                                           *)
(***************************************************************************)
\* No connection is made at first.
LEMMA InitGentle == Init => GentleInv
<1> SUFFICES ASSUME Init PROVE GentleInv
  OBVIOUS
<1>1. Mutex
  BY DEF Init, Mutex, Thread, Locked
<1>2. Slots
  <2>1. InUse = {}
    BY DEF Init, InUse
  <2>2. Cardinality({}) = 0
    BY FS_EmptySet
  <2> QED
    BY <2>1, <2>2 DEF Init, Slots
<1>3. ASSUME NEW c \in Conn PROVE Tame(c)
  <2>1. \A P : CountIn(<<>>, P) = 0
    <3>1. <<>> \in Seq(OrbMsg) /\ DOMAIN <<>> = {}
      OBVIOUS
    <3> QED
      BY <3>1, NoneCount
  <2>2. Closes(c) = 0 /\ Kills(c) = 0 /\ \A j \in Job : Waits(c, j) = 0
    BY <2>1 DEF Init, Closes, Kills, Waits
  <2>3. \A t \in Thread : on[t] # c
    BY ConstantsAssumption DEF Init
  <2>4. \A n \in 1..MaxMsg : <<c, n>> \notin replied /\ orbids[<<c, n>>] = "none"
    BY DEF Init, Rec
  <2>5. Unborn(c)
    BY <2>2, <2>3, <2>4 DEF Init, Unborn
  <2> QED
    BY <2>5 DEF Init, Tame
<1> QED
  BY <1>1, <1>2, <1>3 DEF GentleInv

\* The invariant of gentle clients is inductive.
LEMMA NextGentle ==
  ASSUME Shape, Shape', Counts, GentleInv, [Next]_vars
  PROVE  GentleInv'
<1> SUFFICES ASSUME ~stopping' PROVE GentleInv'
  BY DEF GentleInv
<1>1. ~stopping /\ client' = client /\ \A c \in Conn : life[c] # "none" => life'[c] # "none"
  BY LifeStays
<1>2. Mutex /\ Slots /\ \A c \in Conn : Gentle(c) \/ life[c] = "none" => Tame(c)
  BY <1>1 DEF GentleInv
<1>3. Mutex'
  BY <1>1, <1>2, MutexNext
<1>4. ASSUME NEW c \in Conn, Gentle(c)' \/ life'[c] = "none" PROVE Tame(c)'
  <2>1. Gentle(c) \/ life'[c] = "none"
    BY <1>1, <1>4 DEF Gentle
  <2>2. Tame(c)
    BY <1>1, <1>2, <2>1
  <2> QED
    BY <1>1, <1>2, <2>1, <2>2, TameNext
<1>5. Slots'
  <2>1. SUFFICES ASSUME AllGentle' PROVE slots' = Cardinality(InUse') /\ fault' = "none"
    BY DEF Slots
  <2>2. AllGentle
    BY <1>1, <2>1 DEF AllGentle, Gentle
  <2>3. \A c \in Conn : Tame(c)
    BY <1>2, <2>2 DEF AllGentle
  <2>4. slots = Cardinality(InUse) /\ fault = "none"
    BY <1>2, <2>2 DEF Slots
  <2> QED
    BY <1>1, <1>2, <2>3, <2>4, SlotsNext
<1> QED
  BY <1>3, <1>4, <1>5 DEF GentleInv

\* In every reachable state, until the ORB shuts down, the connections of
\* gentle clients are as Good says, and, if all clients are gentle, the server
\* has not failed and counts its connections right.
THEOREM GentleInvariance == Spec => []GentleInv
<1>1. Init => GentleInv
  BY InitGentle
<1>2. GentleInv /\ Shape /\ Shape' /\ Counts /\ [Next]_vars => GentleInv'
  BY NextGentle
<1>3. Spec => [](Shape /\ Counts)
  BY Invariance
<1>4. (Shape /\ Counts) => Shape /\ Counts
  OBVIOUS
<1> QED
  BY <1>1, <1>2, <1>3, PTL DEF Spec

\* Gentle clients never bring the server down: no assertion of orb/iop.cc or
\* orb/mt_dispatcher.cc fails, and no deleted connection or record is used.
THEOREM NeverFails == Spec => []NoFault
<1>1. GentleInv => NoFault
  BY DEF GentleInv, Slots, NoFault
<1> QED
  BY <1>1, GentleInvariance, PTL

\* The _refcnt of a gentle client's connection is the number of its records
\* and its own reference.
LEMMA RefcntFollows == Shape /\ GentleInv => RefcntExact
<1> SUFFICES ASSUME Shape, GentleInv, ~stopping, NEW c \in Conn, Gentle(c)
             PROVE  refcnt[c] = Cardinality(HeldRecs(c)) + (IF OwnRef(c) THEN 1 ELSE 0)
  BY DEF RefcntExact
<1>1. Tame(c)
  BY DEF GentleInv
<1>2. HeldRecs(c) = Held(c)
  <2>1. ASSUME NEW q \in Rec, orbids[q] # "none"
        PROVE  \A w \in Worker : At(w, "erase") /\ Mine(w) = q <=> pc[w] = "erase" /\ Mine(w) = q
    BY <2>1 DEF At, UsesConn
  <2> QED
    BY <2>1 DEF HeldRecs, Held
<1>3. CASE life[c] = "none"
  <2>1. Unborn(c)
    BY <1>1, <1>3 DEF Tame
  <2>2. Held(c) = {}
    BY <2>1 DEF Unborn, Held, Rec
  <2>3. ~OwnRef(c)
    BY <1>3 DEF OwnRef
  <2> QED
    BY <1>2, <2>1, <2>2, <2>3, FS_EmptySet DEF Unborn
<1>4. CASE life[c] # "none"
  <2>1. Refs(c) /\ Cardinality(Held(c)) \in Nat
    BY <1>1, <1>4, HeldFinite DEF Tame, Good
  <2>2. CASE life[c] = "open"
    <3>1. OwnRef(c) <=> Own(c)
      <4>1. \A t \in Thread : At(t, "abort") /\ on[t] = c <=> pc[t] = "abort" /\ on[t] = c
        BY <2>2 DEF At, UsesRec
      <4> QED
        BY <2>2, <4>1 DEF OwnRef, Own, S!Terminated
    <3> QED
      BY <1>2, <2>1, <3>1 DEF Refs
  <2>3. CASE life[c] = "deleted"
    <3>1. refcnt[c] = 0 /\ Cardinality(Held(c)) = 0 /\ ~OwnRef(c)
      BY <2>1, <2>3 DEF Refs, OwnRef
    <3> QED
      BY <1>2, <3>1
  <2> QED
    BY <1>4, <2>2, <2>3 DEF Shape, ConnShape
<1> QED
  BY <1>3, <1>4

\* When nothing is going on, the connections that are referred to are those
\* that are open.
LEMMA SlotsFollow == Shape /\ GentleInv => SlotsReleased
<1> SUFFICES ASSUME Shape, GentleInv, ~stopping, AllGentle, Quiet
             PROVE  slots = Cardinality(OpenConns)
  BY DEF SlotsReleased
<1>1. slots = Cardinality(InUse) /\ \A c \in Conn : Tame(c)
  BY DEF GentleInv, Slots, AllGentle
<1>2. ASSUME NEW c \in Conn PROVE refcnt[c] > 0 <=> life[c] = "open" /\ ~Closed(c)
  <2>1. CASE life[c] = "none"
    BY <1>1, <2>1 DEF Tame, Unborn
  <2>2. CASE life[c] # "none"
    <3>1. Records(c) /\ Stages(c) /\ Refs(c)
      BY <1>1, <2>2 DEF Tame, Good
    <3>2. Held(c) = {}
      BY <3>1 DEF Held, Rec, Records, Quiet, HasRec, Thread
    <3>3. Cardinality(Held(c)) = 0
      BY <3>2, FS_EmptySet
    <3>4. Own(c) <=> ~Closed(c)
      <4>1. ~(state[c].new > state[c].current)
        BY <3>1 DEF Stages, Quiet, Locked
      <4>2. state[c].new = 4 <=> state[c].current = 4
        BY <3>1, <4>1 DEF Stages, Is
      <4> QED
        BY <4>2 DEF Own, Closed, Quiet, S!Terminated
    <3>5. refcnt[c] = IF Own(c) THEN 1 ELSE 0
      BY <3>1, <3>3 DEF Refs
    <3>6. life[c] = "deleted" => refcnt[c] = 0
      BY <3>1 DEF Refs
    <3> QED
      BY <2>2, <3>4, <3>5, <3>6 DEF Shape, ConnShape
  <2> QED
    BY <2>1, <2>2
<1>3. InUse = OpenConns
  BY <1>2 DEF InUse, OpenConns
<1> QED
  BY <1>1, <1>3

\* A connection that was deleted is referred to nowhere.
LEMMA NothingDangles == Shape /\ Counts /\ GentleInv => NoDangling
<1> SUFFICES ASSUME Shape, Counts, GentleInv, ~stopping, NEW c \in Conn, Gentle(c), life[c] = "deleted"
             PROVE  /\ c \notin selected \cup conns
                    /\ \A i \in DOMAIN decode : decode[i].conn # c
                    /\ \A i \in DOMAIN orb : orb[i].conn # c
                    /\ ActiveRecs(c) = {}
                    /\ \A t \in Thread : on[t] = c => pc[t] \notin UsesConn
  BY DEF NoDangling
<1>1. Mutex /\ Good(c)
  BY DEF GentleInv, Tame
<1>2. Stages(c) /\ Deaf(c) /\ Refs(c)
  BY <1>1 DEF Good
<1>3. refcnt[c] = 0 /\ ~Own(c)
  <2>1. Cardinality(Held(c)) \in Nat
    BY HeldFinite
  <2> QED
    BY <1>2, <2>1 DEF Refs
<1>4. Is(c, 4, 4) /\ Quit(c) /\ state[c].active = 0
  <2>1. state[c].current = 4
    BY <1>3 DEF Own
  <2>2. Is(c, 4, 4)
    BY <1>2, <2>1 DEF Stages, Is
  <2> QED
    BY <1>2, <2>1, <2>2 DEF Deaf, Quit, Running, Is
<1>5. c \notin selected \cup conns
  BY <1>2, <1>4 DEF Deaf, Is
<1>6. ASSUME NEW i \in DOMAIN decode PROVE decode[i].conn # c
  <2>1. CountIn(decode, For(c)) = 0
    <3>1. state[c].active = CountIn(decode, For(c)) + Cardinality(Decoding(c))
      BY DEF Counts, Counted
    <3> QED
      BY <1>4, <3>1, CountTypes
  <2>2. decode[i] \notin For(c) /\ decode[i] \in QueuedMsg
    BY <1>6, <2>1, NoneCount DEF Shape, PoolShape
  <2> QED
    BY <2>2 DEF For
<1>7. ASSUME NEW i \in DOMAIN orb PROVE orb[i].conn # c
  <2>1. Closes(c) = 0 /\ Kills(c) = 0
    BY <1>2, <1>4 DEF Stages, Refs, Is
  <2>2. orb[i] \in OrbMsg
    BY <1>7 DEF Shape, PoolShape
  <2>3. orb[i] # [conn |-> c, ev |-> "CloseConn"] /\ orb[i] # [conn |-> c, ev |-> "KillConn"]
    BY <1>7, <2>1, NoneCount DEF Shape, PoolShape, Closes, Kills
  <2> QED
    BY <2>2, <2>3 DEF OrbMsg
<1>8. ActiveRecs(c) = {}
  BY <1>1, <1>4, NoneToAbort
<1>9. \A t \in Thread : on[t] = c => pc[t] \notin UsesConn
  BY <1>1, ConnExists
<1> QED
  BY <1>5, <1>6, <1>7, <1>8, <1>9

\* What keeps a connection of a gentle client, and what it takes up, is given
\* back exactly once, and nothing uses a connection after its deletion.
THEOREM CountsAlwaysExact == Spec => []CountsExact
<1>1. Shape /\ Counts /\ GentleInv => CountsExact
  BY RefcntFollows, SlotsFollow, NothingDangles DEF CountsExact
<1> QED
  BY <1>1, Invariance, GentleInvariance, PTL
=============================================================================
