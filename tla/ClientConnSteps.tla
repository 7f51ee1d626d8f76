-------------------------- MODULE ClientConnSteps --------------------------
(***************************************************************************)
(* What each step of ClientConn changes, for any number of callers and     *)
(* connections: the types of the variables, where each thread can be, and, *)
(* action by action, the changes that the invariant of ClientConnProofs    *)
(* depends on.                                                             *)
(***************************************************************************)
EXTENDS ClientConn, FiniteSetTheorems, SequenceTheorems, TLAPS

(***************************************************************************)
(* Cardinalities of sets, and the number of messages of a kind in a queue, *)
(* which references are counted with.                                      *)
(***************************************************************************)

\* how many messages of a queue are of a kind
CountIn(q, P) == Cardinality({i \in DOMAIN q : q[i] \in P})

\* A message that is queued counts for one.
LEMMA AppendCount ==
  ASSUME NEW M, NEW q \in Seq(M), NEW m \in M, NEW P
  PROVE  /\ CountIn(q, P) \in Nat
         /\ CountIn(Append(q, m), P) = CountIn(q, P) + (IF m \in P THEN 1 ELSE 0)
<1> DEFINE n == Len(q)
           A == {i \in DOMAIN q : q[i] \in P}
           B == {i \in DOMAIN Append(q, m) : Append(q, m)[i] \in P}
<1>1. n \in Nat /\ DOMAIN q = 1..n
  BY LenProperties
<1>2. /\ DOMAIN Append(q, m) = 1..(n + 1)
      /\ Append(q, m)[n + 1] = m
      /\ \A i \in 1..n : Append(q, m)[i] = q[i]
  BY <1>1
<1>3. IsFiniteSet(A) /\ Cardinality(A) \in Nat
  <2>1. IsFiniteSet(1..n)
    BY <1>1, FS_Interval
  <2>2. A \in SUBSET (1..n)
    BY <1>1
  <2>3. IsFiniteSet(A)
    BY <2>1, <2>2, FS_Subset
  <2> QED
    BY <2>3, FS_CardinalityType
<1>4. n + 1 \notin A
  BY <1>1
<1>5. B = IF m \in P THEN A \cup {n + 1} ELSE A
  <2> HIDE DEF n
  <2> QED
    BY <1>1, <1>2
<1>6. Cardinality(A \cup {n + 1}) = Cardinality(A) + 1
  <2> HIDE DEF A
  <2> QED
    BY <1>3, <1>4, FS_AddElement
<1>7. CountIn(q, P) = Cardinality(A) /\ CountIn(Append(q, m), P) = Cardinality(B)
  BY DEF CountIn
<1> HIDE DEF A, B
<1> QED
  BY <1>3, <1>5, <1>6, <1>7

\* A message that is taken counts no more.
LEMMA TailCount ==
  ASSUME NEW M, NEW q \in Seq(M), q # <<>>, NEW P
  PROVE  /\ CountIn(q, P) \in Nat /\ CountIn(Tail(q), P) \in Nat
         /\ CountIn(q, P) = CountIn(Tail(q), P) + (IF Head(q) \in P THEN 1 ELSE 0)
<1> DEFINE n == Len(q)
           A == {i \in DOMAIN q : q[i] \in P}
           B == {i \in DOMAIN Tail(q) : Tail(q)[i] \in P}
           C == {i \in 2..n : q[i] \in P}
           f == [i \in B |-> i + 1]
<1>1. n \in Nat /\ n > 0 /\ DOMAIN q = 1..n /\ Head(q) = q[1]
  BY LenProperties
<1>2. /\ DOMAIN Tail(q) = 1..(n - 1)
      /\ \A i \in 1..(n - 1) : Tail(q)[i] = q[i + 1]
  <2>1. Len(Tail(q)) = n - 1 /\ Tail(q) \in Seq(M)
    BY HeadTailProperties
  <2>2. DOMAIN Tail(q) = 1..Len(Tail(q))
    BY <2>1, LenProperties
  <2> QED
    BY <2>1, <2>2, HeadTailProperties
<1> HIDE DEF n
<1>3. IsFiniteSet(B) /\ Cardinality(B) \in Nat
  <2>1. IsFiniteSet(1..(n - 1))
    BY <1>1, FS_Interval
  <2>2. B \in SUBSET (1..(n - 1))
    BY <1>2
  <2>3. IsFiniteSet(B)
    BY <2>1, <2>2, FS_Subset
  <2> QED
    BY <2>3, FS_CardinalityType
<1>4. f \in Bijection(B, C)
  <2>1. \A i \in B : i + 1 \in C /\ i \in Int
    BY <1>1, <1>2
  <2>2. \A j \in C : j - 1 \in B /\ (j - 1) + 1 = j
    BY <1>1, <1>2
  <2>3. f \in [B -> C] /\ \A i, j \in B : f[i] = f[j] => i = j
    BY <2>1
  <2>4. \A j \in C : \E i \in B : f[i] = j
    BY <2>2
  <2> HIDE DEF f, B, C
  <2> QED
    BY <2>3, <2>4 DEF Bijection, Injection, IsInjective, Surjection
<1>5. IsFiniteSet(C) /\ Cardinality(C) = Cardinality(B)
  <2> HIDE DEF f, B, C
  <2> QED
    BY <1>3, <1>4, FS_Bijection DEF ExistsBijection
<1>6. A = IF Head(q) \in P THEN C \cup {1} ELSE C
  BY <1>1
<1>7. 1 \notin C
  BY <1>1
<1>8. Cardinality(C \cup {1}) = Cardinality(C) + 1
  <2> HIDE DEF C
  <2> QED
    BY <1>5, <1>7, FS_AddElement
<1>9. CountIn(q, P) = Cardinality(A) /\ CountIn(Tail(q), P) = Cardinality(B)
  BY DEF CountIn
<1> HIDE DEF A, B, C
<1> QED
  BY <1>3, <1>5, <1>6, <1>8, <1>9

\* Nothing counts for 0.
LEMMA NoneCount ==
  ASSUME NEW M, NEW q \in Seq(M), NEW P
  PROVE  /\ CountIn(q, P) \in Nat
         /\ CountIn(q, P) = 0 <=> \A i \in DOMAIN q : q[i] \notin P
<1> DEFINE A == {i \in DOMAIN q : q[i] \in P}
<1>1. IsFiniteSet(A)
  <2>1. IsFiniteSet(1..Len(q))
    BY LenProperties, FS_Interval
  <2>2. A \in SUBSET (1..Len(q))
    BY LenProperties
  <2> QED
    BY <2>1, <2>2, FS_Subset
<1>2. Cardinality(A) \in Nat
  BY <1>1, FS_CardinalityType
<1>3. Cardinality(A) = 0 <=> A = {}
  BY <1>1, FS_EmptySet
<1> QED
  BY <1>2, <1>3 DEF CountIn

\* A step that concerns one element of a set.
LEMMA MoveCount ==
  ASSUME NEW U, IsFiniteSet(U), NEW A \in SUBSET U, NEW B \in SUBSET U, NEW t,
         \A u \in U : u # t => (u \in A <=> u \in B)
  PROVE  /\ Cardinality(A) \in Nat /\ Cardinality(B) \in Nat
         /\ Cardinality(B) + (IF t \in A THEN 1 ELSE 0) =
              Cardinality(A) + (IF t \in B THEN 1 ELSE 0)
<1>1. IsFiniteSet(A) /\ IsFiniteSet(B)
  BY FS_Subset
<1>2. Cardinality(A) \in Nat /\ Cardinality(B) \in Nat
  BY <1>1, FS_CardinalityType
<1>3. CASE t \in A /\ t \notin B
  <2>1. A = B \cup {t}
    BY <1>3
  <2> QED
    BY <1>1, <1>2, <1>3, <2>1, FS_AddElement
<1>4. CASE t \in B /\ t \notin A
  <2>1. B = A \cup {t}
    BY <1>4
  <2> QED
    BY <1>1, <1>2, <1>4, <2>1, FS_AddElement
<1>5. CASE t \in A <=> t \in B
  <2>1. A = B
    BY <1>5
  <2> QED
    BY <1>2, <2>1
<1> QED
  BY <1>2, <1>3, <1>4, <1>5

(***************************************************************************)
(* The shape of the state: types without bounds, and where threads can be. *)
(***************************************************************************)
ConnState == [current : S!ExecState, new : S!ExecState, active : Int]
BackMsg == [kind : {"reply"}, call : Caller \ Oneway] \cup
           [kind : {"close", "error"}, call : {NoCall}]
OrbMsg == [conn : Conn, ev : {"CloseConn", "KillConn"}]
\* the calls that leave a record
Own == Caller \ Oneway

\* where a thread sends a call: it has no record yet, or it has
Early == {"lookup", "connect", "cache", "ref", "add"}
Invoking == Early \cup {"output", "deref"}
HasOn == {"cache", "ref"} \cup Sending
Handles == Handling \cup {"abort", "redo"} \cup Invoking
PcOf(t) == IF t \in Oneway THEN {"idle", "done"} \cup Invoking
           ELSE IF t \in Caller
             THEN {"idle", "wait", "delcancel", "done"} \cup Invoking \cup Cancelling
           ELSE IF t \in Conn THEN {"idle", "done"} \cup Reading \cup Killing \cup Invoking
           ELSE {"idle", "done"} \cup (Killing \ {"redo"})
\* a thread that kills a connection, perhaps on the way to send a call again
KillsAt(t, l) == l \in Killing \/ (t \in Conn /\ l \in Invoking)

\* thread t may be at l, send on c, kill d as r says, and carry q
Place(t, l, c, d, r, q) ==
  /\ l \in PcOf(t)
  /\ c \in Conn \cup {NoConn} /\ (c \in Conn <=> l \in HasOn)
  /\ d \in Conn \cup {NoConn} /\ (d \in Conn <=> KillsAt(t, l))
  /\ t \in Conn => d \in {t, NoConn}
  /\ r \in BOOLEAN /\ (r => t \in Conn /\ (KillsAt(t, l) \/ l = "closing"))
  /\ l = "redo" \/ (t \in Conn /\ l \in Invoking) => r
  /\ l = "abort" => ~r
  /\ IF t \in Caller THEN q = t
     ELSE q \in Own \cup {NoCall} /\ (l \in Handles => q \in Own)

ThreadShape ==
  /\ pc \in [Thread -> Pc] /\ carries \in [Thread -> Caller \cup {NoCall}]
  /\ on \in [Thread -> Conn \cup {NoConn}]
  /\ victim \in [Thread -> Conn \cup {NoConn}] /\ redo \in [Thread -> BOOLEAN]
  /\ \A t \in Thread : Place(t, pc[t], on[t], victim[t], redo[t], carries[t])

ServerShape ==
  /\ peer \in [Conn -> {"up", "closing", "down"}] /\ requests \in [Conn -> SUBSET Caller]
  /\ inbox \in [Conn -> Seq(BackMsg)] /\ executed \in [Caller -> Nat]

CallShape ==
  /\ status \in [Caller -> {"unsent", "pending", "answered", "returned", "gone"}]
  /\ outcome \in [Caller -> {"none", "reply", "TRANSIENT", "COMM_FAILURE", "TIMEOUT"}]

ConnShape ==
  /\ life \in [Conn -> {"none", "open", "deleted"}] /\ state \in [Conn -> ConnState]
  /\ refcnt \in [Conn -> Nat] /\ slots \in Int

CacheShape == conns \in Conn \cup {NoConn} /\ profconns \in Conn \cup {NoConn} /\ active \in BOOLEAN

\* a record belongs to a call and, while it exists, to a connection
Rec == [conn : Conn, active : BOOLEAN]
IdShape == ids \in [Caller -> Rec \cup {NoRec}] /\ \A q \in Oneway : ids[q] = NoRec

RestShape == /\ orb \in Seq(OrbMsg) /\ kept \subseteq Own \X Conn
             /\ fault \in {"none", "abort", "stale", "late", "overtaken"}

\* a connection is born with its reader and deleted after it has ended
LifeShape == \A c \in Conn : /\ life[c] = "none" <=> pc[c] = "idle"
                             /\ life[c] = "deleted" => pc[c] = "done"

DataShape == ServerShape /\ CallShape /\ ConnShape /\ CacheShape /\ IdShape /\ RestShape
Shape == ThreadShape /\ DataShape /\ LifeShape

\* What threads are.
LEMMA Kinds ==
  /\ NoConn \notin Conn /\ NoCall \notin Caller /\ Main \in Thread
  /\ Caller \subseteq Thread /\ Conn \subseteq Thread /\ OrbWorker \subseteq Thread
  /\ Oneway \subseteq Caller /\ Impatient \subseteq Own /\ Own \subseteq Caller
  /\ \A q \in Own : q \notin Oneway
  /\ \A t \in Conn : t \notin Caller /\ t \notin Oneway /\ t \notin OrbWorker /\ t # Main
  /\ \A t \in OrbWorker \cup {Main} : t \notin Caller /\ t \notin Oneway /\ t \notin Conn
BY ConstantsAssumption DEF Thread, Own

\* Where a thread can be is a control point of the model.
LEMMA PcTypes == \A t : PcOf(t) \subseteq Pc
BY DEF PcOf, Pc, Sending, Handling, Cancelling, Killing, Reading, Invoking, Early

\* What the methods of StateRefCnt do to a state and its active references.
LEMMA StateMethods ==
  ASSUME NEW s \in ConnState
  PROVE  /\ s.current \in 0..4 /\ s.new \in 0..4 /\ s.active \in Int
         /\ S!active_ref(s) \in ConnState
         /\ S!active_ref(s).current = s.current /\ S!active_ref(s).new = s.new
         /\ S!active_ref(s).active = s.active + 1
         /\ S!active_deref(s) \in ConnState
         /\ S!active_deref(s).current = s.current /\ S!active_deref(s).new = s.new
         /\ S!active_deref(s).active = s.active - 1
         /\ \A n \in 0..4 : /\ S!BeginChange(s, n) \in ConnState
                            /\ S!BeginChange(s, n).current = s.current
                            /\ S!BeginChange(s, n).new = n
                            /\ S!BeginChange(s, n).active = s.active
         /\ S!EndChange(s) \in ConnState
         /\ S!EndChange(s).current = (IF s.new > s.current THEN s.new ELSE s.current)
         /\ S!EndChange(s).new = s.new /\ S!EndChange(s).active = s.active
         /\ S!init_shutdown(s) \in ConnState
         /\ S!init_shutdown(s).current = 2 /\ S!init_shutdown(s).new = 2
         /\ S!init_shutdown(s).active = s.active
<1>1. /\ s = [current |-> s.current, new |-> s.new, active |-> s.active]
      /\ s.current \in 0..4 /\ s.new \in 0..4 /\ s.active \in Int
  BY DEF ConnState, S!ExecState
<1>2. \A x, y \in 0..4, n \in Int : [current |-> x, new |-> y, active |-> n] \in ConnState
  BY DEF ConnState, S!ExecState
<1> HIDE DEF ConnState
<1>3. S!active_ref(s) = [current |-> s.current, new |-> s.new, active |-> s.active + 1]
  BY <1>1 DEF S!active_ref
<1>4. S!active_deref(s) = [current |-> s.current, new |-> s.new, active |-> s.active - 1]
  BY <1>1 DEF S!active_deref
<1>5. ASSUME NEW n \in 0..4
      PROVE  S!BeginChange(s, n) = [current |-> s.current, new |-> n, active |-> s.active]
  BY <1>1 DEF S!BeginChange
<1>6. S!EndChange(s) = [current |-> IF s.new > s.current THEN s.new ELSE s.current,
                        new |-> s.new, active |-> s.active]
  BY <1>1 DEF S!EndChange
<1>7. S!init_shutdown(s) = [current |-> 2, new |-> 2, active |-> s.active]
  <2> DEFINE r == [s EXCEPT !.current = 2]
  <2>1. r = [current |-> 2, new |-> s.new, active |-> s.active]
    BY <1>1
  <2>2. S!init_shutdown(s) = [r EXCEPT !.new = 2]
    BY <1>1 DEF S!init_shutdown, S!InitShutdown
  <2> HIDE DEF r
  <2> QED
    BY <2>1, <2>2
<1>8. s.active + 1 \in Int /\ s.active - 1 \in Int
  BY <1>1
<1>9. \A n \in 0..4 : /\ S!BeginChange(s, n) \in ConnState
                      /\ S!BeginChange(s, n).current = s.current
                      /\ S!BeginChange(s, n).new = n
                      /\ S!BeginChange(s, n).active = s.active
  BY <1>1, <1>2, <1>5
<1>10. /\ S!active_ref(s) \in ConnState /\ S!active_deref(s) \in ConnState
       /\ S!EndChange(s) \in ConnState /\ S!init_shutdown(s) \in ConnState
  <2>1. S!active_ref(s) \in ConnState /\ S!active_deref(s) \in ConnState
    BY <1>1, <1>2, <1>3, <1>4, <1>8
  <2>2. S!EndChange(s) \in ConnState
    BY <1>1, <1>2, <1>6
  <2>3. S!init_shutdown(s) \in ConnState
    BY <1>1, <1>2, <1>7
  <2> QED
    BY <2>1, <2>2, <2>3
<1> QED
  BY <1>1, <1>3, <1>4, <1>6, <1>7, <1>9, <1>10

\* The state of one connection changes.
LEMMA SetStateShape ==
  ASSUME ConnShape, NEW c \in Conn, NEW s \in ConnState, SetState(c, s)
  PROVE  /\ state' \in [Conn -> ConnState] /\ state'[c] = s
         /\ \A d \in Conn : d # c => state'[d] = state[d]
BY DEF ConnShape, SetState

\* A step of one thread.
LEMMA MoveShape ==
  ASSUME ThreadShape, NEW t \in Thread, NEW l, NEW c, NEW d, NEW r, NEW q,
         Place(t, l, c, d, r, q), pc' = [pc EXCEPT ![t] = l],
         on' = [on EXCEPT ![t] = c] \/ (on' = on /\ c = on[t]),
         victim' = [victim EXCEPT ![t] = d] \/ (victim' = victim /\ d = victim[t]),
         redo' = [redo EXCEPT ![t] = r] \/ (redo' = redo /\ r = redo[t]),
         carries' = [carries EXCEPT ![t] = q] \/ (carries' = carries /\ q = carries[t])
  PROVE  /\ ThreadShape'
         /\ pc'[t] = l /\ on'[t] = c /\ victim'[t] = d /\ redo'[t] = r /\ carries'[t] = q
         /\ \A u \in Thread : u # t => /\ pc'[u] = pc[u] /\ on'[u] = on[u] /\ victim'[u] = victim[u]
                                       /\ redo'[u] = redo[u] /\ carries'[u] = carries[u]
<1>1. l \in Pc
  BY PcTypes DEF Place
<1>2. c \in Conn \cup {NoConn} /\ d \in Conn \cup {NoConn} /\ r \in BOOLEAN
  BY DEF Place
<1>3. q \in Caller \cup {NoCall}
  <2>1. q \in Own \cup {NoCall} \/ (t \in Caller /\ q = t)
    BY DEF Place
  <2> QED
    BY <2>1 DEF Own
<1>4. /\ pc'[t] = l /\ on'[t] = c /\ victim'[t] = d /\ redo'[t] = r /\ carries'[t] = q
      /\ \A u \in Thread : u # t => /\ pc'[u] = pc[u] /\ on'[u] = on[u] /\ victim'[u] = victim[u]
                                    /\ redo'[u] = redo[u] /\ carries'[u] = carries[u]
  BY DEF ThreadShape
<1>5. /\ pc' \in [Thread -> Pc] /\ carries' \in [Thread -> Caller \cup {NoCall}]
      /\ on' \in [Thread -> Conn \cup {NoConn}]
      /\ victim' \in [Thread -> Conn \cup {NoConn}] /\ redo' \in [Thread -> BOOLEAN]
  BY <1>1, <1>2, <1>3 DEF ThreadShape
<1>6. \A u \in Thread : Place(u, pc'[u], on'[u], victim'[u], redo'[u], carries'[u])
  <2> SUFFICES ASSUME NEW u \in Thread
               PROVE  Place(u, pc'[u], on'[u], victim'[u], redo'[u], carries'[u])
    OBVIOUS
  <2>1. CASE u = t
    BY <1>4, <2>1
  <2>2. CASE u # t
    BY <1>4, <2>2 DEF ThreadShape
  <2> QED
    BY <2>1, <2>2
<1> QED
  BY <1>4, <1>5, <1>6 DEF ThreadShape

-----------------------------------------------------------------------------
(***************************************************************************)
(* Threads keep to their places.                                           *)
(***************************************************************************)

\* A thread goes on and keeps what it works on.
LEMMA GotoShape ==
  ASSUME ThreadShape, NEW t \in Thread, NEW l, Goto(t, l),
         UNCHANGED <<on, victim, redo, carries>>,
         Place(t, l, on[t], victim[t], redo[t], carries[t])
  PROVE  ThreadShape'
BY MoveShape DEF Goto

\* Who runs IIOPProxy::invoke(): a caller, or a reader that redoes a call.
LEMMA Invokers ==
  ASSUME ThreadShape, NEW t \in Thread, pc[t] \in Invoking
  PROVE  /\ t \in Caller \cup Conn
         /\ t \in Conn => victim[t] = t /\ redo[t]
         /\ carries[t] \in Caller /\ (t \in Caller => carries[t] = t)
         /\ t \notin Caller => carries[t] \in Own
<1>1. Place(t, pc[t], on[t], victim[t], redo[t], carries[t])
  BY DEF ThreadShape
<1>2. t \in Caller \cup Conn
  <2> SUFFICES ASSUME t \notin Caller, t \notin Conn PROVE FALSE
    OBVIOUS
  <2>1. t \notin Oneway
    BY Kinds
  <2> QED
    BY <1>1, <2>1 DEF Place, PcOf, Invoking, Early, Killing
<1>3. NoConn \notin Conn /\ Own \subseteq Caller
  BY Kinds
<1> QED
  BY <1>1, <1>2, <1>3 DEF Place, KillsAt, Handles

\* A thread that sends a call stays at a place of its own.
LEMMA InvokeThreads ==
  ASSUME ThreadShape, CacheShape, NEW t \in Thread,
         \/ Lookup(t) \/ FindConn(t) \/ NoConnection(t) \/ Cache(t)
         \/ Ref(t) \/ AddInvoke(t) \/ Output(t) \/ ActiveDeref(t)
  PROVE  ThreadShape'
<1> DEFINE P(l, c) == Place(t, l, c, victim[t], redo[t], carries[t])
<1>1. P(pc[t], on[t])
  BY DEF ThreadShape
<1>2. pc[t] \in Invoking
  BY DEF Lookup, FindConn, NoConnection, Cache, Ref, AddInvoke, Output, ActiveDeref, At,
     Invoking, Early
<1>3. t \in Caller \cup Conn /\ (t \in Conn => victim[t] = t /\ redo[t])
  BY <1>2, Invokers
<1>4. ASSUME NEW l \in Invoking, NEW c \in Conn \cup {NoConn}, c \in Conn <=> l \in HasOn
      PROVE  P(l, c)
  <2>1. l \in PcOf(t) /\ (KillsAt(t, l) <=> KillsAt(t, pc[t]))
    BY <1>2, <1>3, Kinds DEF PcOf, KillsAt, Invoking, Early, Killing
  <2>2. l # "abort" /\ l # "redo" /\ l # "closing" /\ l \in Handles /\ pc[t] \in Handles
    BY <1>2 DEF Invoking, Early, Handles
  <2> HIDE DEF PcOf, KillsAt, Invoking, Handles, HasOn
  <2>3. pc[t] # "closing"
    BY <1>2 DEF Invoking, Early
  <2> QED
    BY <1>1, <1>2, <1>3, <1>4, <2>1, <2>2, <2>3 DEF Place
<1>5. NoConn \notin Conn
  BY Kinds
<1>6. CASE Lookup(t)
  <2>1. CASE active /\ profconns # NoConn
    <3>1. P("ref", profconns)
      BY <1>4, <2>1 DEF CacheShape, Invoking, Early, HasOn
    <3> QED
      BY <1>6, <2>1, <3>1, MoveShape DEF Lookup, Goto
  <2>2. CASE ~(active /\ profconns # NoConn)
    <3>1. on[t] = NoConn
      BY <1>1, <1>5, <1>6 DEF Lookup, Place, HasOn, Sending
    <3>2. P("connect", on[t])
      BY <1>4, <1>5, <3>1 DEF Invoking, Early, HasOn, Sending
    <3> QED
      BY <1>6, <2>2, <3>2, GotoShape DEF Lookup
  <2> QED
    BY <2>1, <2>2
<1>7. CASE FindConn(t)
  <2>1. P("cache", conns)
    BY <1>4, <1>7 DEF FindConn, CacheShape, Invoking, Early, HasOn
  <2> QED
    BY <1>7, <2>1, MoveShape DEF FindConn, Goto
<1>8. CASE Cache(t) \/ Ref(t) \/ AddInvoke(t) \/ Output(t)
  <2>1. PICK l \in {"ref", "add", "output", "deref"} :
          Goto(t, l) /\ UNCHANGED <<on, victim, redo, carries>>
    BY <1>8 DEF Cache, Ref, AddInvoke, Output
  <2>2. pc[t] \in HasOn
    BY <1>8 DEF Cache, Ref, AddInvoke, Output, At, HasOn, Sending
  <2>3. P(l, on[t])
    BY <1>1, <1>4, <2>2 DEF Place, Invoking, Early, HasOn, Sending
  <2> QED
    BY <2>1, <2>3, GotoShape
\* what the sender does next
<1>9. ASSUME NEW l \in {"pending", "done", "wait"}, t \in Conn <=> l = "pending",
             t \in Oneway <=> l = "done"
      PROVE  P(l, NoConn)
  <2>1. l \in PcOf(t) /\ l \notin HasOn
    BY <1>3, <1>9, Kinds DEF PcOf, HasOn, Sending, Killing
  <2>2. KillsAt(t, l) <=> KillsAt(t, pc[t])
    BY <1>2, <1>3, <1>9, Kinds DEF KillsAt, Killing, Invoking, Early
  <2>3. l # "redo" /\ l # "abort" /\ l \notin Invoking /\ l \notin Handles /\ pc[t] # "closing"
    BY <1>2 DEF Invoking, Early, Handles, Handling, Sending
  <2> HIDE DEF PcOf, KillsAt, Invoking, Handles, HasOn
  <2> QED
    BY <1>1, <1>5, <2>1, <2>2, <2>3 DEF Place
<1>10. CASE NoConnection(t) \/ ActiveDeref(t)
  <2>1. PICK l \in {"pending", "done", "wait"} :
          /\ t \in Conn <=> l = "pending"
          /\ t \in Oneway <=> l = "done"
          /\ pc' = [pc EXCEPT ![t] = l] /\ UNCHANGED <<victim, redo, carries>>
          /\ on' = [on EXCEPT ![t] = NoConn] \/ (on' = on /\ pc[t] = "connect")
    BY <1>3, <1>10, Kinds DEF NoConnection, ActiveDeref, Back, Goto
  <2>2. P(l, NoConn)
    BY <1>9, <2>1
  <2>3. pc[t] = "connect" => on[t] = NoConn
    BY <1>1 DEF Place, HasOn, Sending
  <2> QED
    BY <2>1, <2>2, <2>3, MoveShape
<1> QED
  BY <1>6, <1>7, <1>8, <1>10

\* The reader of a new connection begins.
LEMMA NewConnThreads ==
  ASSUME ThreadShape, LifeShape, NEW t \in Thread, NewConn(t)
  PROVE  /\ ThreadShape' /\ conns' \in Conn
         /\ conns' # t /\ life[conns'] = "none" /\ pc[conns'] = "idle"
         /\ pc'[t] = "cache" /\ pc'[conns'] = "select" /\ on'[t] = conns'
         /\ \A u \in Thread : u # t /\ u # conns' => pc'[u] = pc[u]
         /\ \A u \in Thread : u # t => on'[u] = on[u]
         /\ UNCHANGED <<victim, redo, carries>>
<1> DEFINE c == CHOOSE d \in Conn : life[d] = "none"
<1>1. /\ c \in Conn /\ life[c] = "none" /\ conns' = c
      /\ pc' = [pc EXCEPT ![t] = "cache", ![c] = "select"] /\ on' = [on EXCEPT ![t] = c]
      /\ pc[t] = "connect" /\ UNCHANGED <<victim, redo, carries>>
  BY DEF NewConn
<1> HIDE DEF c
<1>2. c \in Thread /\ pc[c] = "idle" /\ c # t
  BY <1>1, Kinds DEF LifeShape
<1>3. /\ pc'[t] = "cache" /\ pc'[c] = "select" /\ on'[t] = c
      /\ \A u \in Thread : u # t /\ u # c => pc'[u] = pc[u]
      /\ \A u \in Thread : u # t => on'[u] = on[u]
  BY <1>1, <1>2 DEF ThreadShape
<1>4. /\ pc' \in [Thread -> Pc] /\ on' \in [Thread -> Conn \cup {NoConn}]
  BY <1>1, <1>2 DEF ThreadShape, Pc, Reading
<1>5. Place(t, "cache", c, victim[t], redo[t], carries[t])
  <2>1. Place(t, "connect", on[t], victim[t], redo[t], carries[t])
    BY <1>1 DEF ThreadShape
  <2>2. t \in Caller \cup Conn
    BY <1>1, Invokers DEF Invoking, Early
  <2>3. "cache" \in PcOf(t) /\ (KillsAt(t, "cache") <=> KillsAt(t, "connect"))
    BY <2>2, Kinds DEF PcOf, KillsAt, Killing, Invoking, Early
  <2> QED
    BY <1>1, <2>1, <2>3 DEF Place, HasOn, Handles, Invoking, Early
<1>6. Place(c, "select", on[c], victim[c], redo[c], carries[c])
  <2>1. Place(c, "idle", on[c], victim[c], redo[c], carries[c])
    BY <1>2 DEF ThreadShape
  <2>2. "select" \in PcOf(c) /\ ~KillsAt(c, "select") /\ ~KillsAt(c, "idle")
    BY <1>1, Kinds DEF PcOf, KillsAt, Reading, Killing, Invoking, Early
  <2>3. "select" \notin Handles /\ "select" \notin HasOn /\ "idle" \notin HasOn /\ "select" \notin Invoking
    BY DEF Handles, HasOn, Handling, Invoking, Early, Sending
  <2> HIDE DEF PcOf, KillsAt, Handles, HasOn, Invoking
  <2> QED
    BY <2>1, <2>2, <2>3 DEF Place
<1>7. \A u \in Thread : Place(u, pc'[u], on'[u], victim'[u], redo'[u], carries'[u])
  <2> SUFFICES ASSUME NEW u \in Thread
               PROVE  Place(u, pc'[u], on'[u], victim'[u], redo'[u], carries'[u])
    OBVIOUS
  <2>1. CASE u = t
    BY <1>1, <1>3, <1>5, <2>1
  <2>2. CASE u = c
    BY <1>1, <1>2, <1>3, <1>6, <2>2
  <2>3. CASE u # t /\ u # c
    BY <1>1, <1>3, <2>3 DEF ThreadShape
  <2> QED
    BY <2>1, <2>2, <2>3
<1> QED
  BY <1>1, <1>2, <1>3, <1>4, <1>7 DEF ThreadShape

\* So does a caller that begins, waits, returns, or gives its call up.
LEMMA CallerThreads ==
  ASSUME ThreadShape, NEW q \in Caller, Begin(q) \/ CallStep(q) \/ Cancel(q)
  PROVE  ThreadShape'
<1> DEFINE P(l) == Place(q, l, on[q], victim[q], redo[q], carries[q])
<1>1. P(pc[q]) /\ q \in Thread
  BY Kinds DEF ThreadShape
<1>2. PICK l \in {"lookup", "done", "sendcancel", "derefcancel", "delcancel"} :
        /\ Goto(q, l) \/ (l = pc[q] /\ pc' = pc)
        /\ UNCHANGED <<on, victim, redo, carries>>
        /\ pc[q] \in {"idle", "wait", "sendcancel", "derefcancel", "delcancel"}
        /\ pc[q] = "idle" <=> l = "lookup"
  BY DEF Begin, CallStep, Cancel, Return, SendCancel, DerefCancel, DelCancel, At, threadVars
<1>3. l \in PcOf(q)
  BY <1>1, <1>2, Kinds DEF Place, PcOf, Invoking, Early, Cancelling
<1>4. /\ ~KillsAt(q, l) /\ ~KillsAt(q, pc[q]) /\ l \notin HasOn /\ pc[q] \notin HasOn
      /\ q \notin Conn
  BY <1>2, Kinds DEF KillsAt, Killing, HasOn, Sending
<1>5. P(l)
  <2> HIDE DEF PcOf, KillsAt, HasOn
  <2> QED
    BY <1>1, <1>2, <1>3, <1>4 DEF Place
<1>6. CASE Goto(q, l)
  BY <1>1, <1>2, <1>5, <1>6, GotoShape
<1>7. CASE l = pc[q] /\ pc' = pc
  BY <1>2, <1>7 DEF ThreadShape
<1> QED
  BY <1>2, <1>6, <1>7

\* So does a reader.
LEMMA ReaderThreads ==
  ASSUME ThreadShape, ServerShape, NEW c \in Conn, Reader(c)
  PROVE  ThreadShape'
<1> DEFINE P(l, d, r, q) == Place(c, l, on[c], d, r, q)
<1>1. P(pc[c], victim[c], redo[c], carries[c]) /\ c \in Thread
  BY Kinds DEF ThreadShape
<1>2. /\ pc[c] \in Reading /\ ~KillsAt(c, pc[c]) /\ pc[c] \notin HasOn
      /\ on[c] \notin Conn /\ victim[c] = NoConn /\ redo[c] \in BOOLEAN
  <2>1. pc[c] \in Reading
    BY DEF Reader, Select, LeaveLoop, Read, ReadEnd, Pull, Delete, Answer, GiveBack, Release,
       Closing, At, Reading, Handling
  <2>2. ~KillsAt(c, pc[c]) /\ pc[c] \notin HasOn
    BY <2>1 DEF KillsAt, Killing, Invoking, Early, HasOn, Sending, Reading, Handling
  <2> HIDE DEF KillsAt, HasOn
  <2> QED
    BY <1>1, <2>1, <2>2 DEF Place
\* the places of a reader that kills nothing
<1>3. ASSUME NEW l \in Reading \cup {"done"}, NEW r \in BOOLEAN, r => l = "closing",
             NEW q \in Own \cup {NoCall}, l \in Handling => q \in Own
      PROVE  P(l, victim[c], r, q)
  <2>1. l \in PcOf(c) /\ ~KillsAt(c, l) /\ l \notin HasOn /\ l # "redo" /\ l # "abort" /\ l \notin Invoking
    BY Kinds DEF PcOf, KillsAt, Killing, Invoking, Early, HasOn, Sending, Reading, Handling
  <2>2. l \in Handles => l \in Handling
    BY <2>1 DEF Handles
  <2>3. c \notin Caller
    BY Kinds
  <2> HIDE DEF PcOf, KillsAt, HasOn, Handles, Handling, Reading, Invoking
  <2> QED
    BY <1>1, <1>2, <1>3, <2>1, <2>2, <2>3 DEF Place
<1>4. CASE Select(c) \/ LeaveLoop(c) \/ ReadEnd(c) \/ Pull(c) \/ Delete(c) \/ Answer(c) \/ GiveBack(c)
  <2>1. PICK l \in Reading \cup {"done"} :
          /\ Goto(c, l) /\ UNCHANGED <<on, victim, redo, carries>> /\ pc[c] # "closing" /\ l # "closing"
          /\ l \in Handling => pc[c] \in Handling
    BY <1>4 DEF Select, LeaveLoop, ReadEnd, Pull, Delete, Answer, GiveBack, At, Reading, Handling
  <2>2. carries[c] \in Own \cup {NoCall} /\ (l \in Handling => carries[c] \in Own) /\ ~redo[c]
    BY <1>1, <1>2, <2>1, Kinds DEF Place, Handles
  <2> QED
    <3>1. P(l, victim[c], redo[c], carries[c])
      BY <1>2, <1>3, <2>1, <2>2
    <3> QED
      BY <1>1, <2>1, <3>1, GotoShape
<1>5. CASE Read(c)
  <2>1. pc[c] = "reading" /\ UNCHANGED <<on, victim>> /\ inbox[c] # <<>>
    BY <1>5 DEF Read, At
  <2>2. carries[c] \in Own \cup {NoCall} /\ ~redo[c]
    BY <1>1, <1>2, <2>1, Kinds DEF Place
  <2>3. CASE ~S!ActiveRefOK(state[c])
    <3>1. Goto(c, "select") /\ UNCHANGED <<carries, redo>>
      BY <1>5, <2>3 DEF Read
    <3>2. P("select", victim[c], redo[c], carries[c])
      BY <1>2, <1>3, <2>2 DEF Reading, Handling
    <3> QED
      BY <1>1, <2>1, <3>1, <3>2, GotoShape
  <2>4. CASE S!ActiveRefOK(state[c])
    <3> DEFINE m == Head(inbox[c])
               l == IF m.kind = "reply" THEN "pull" ELSE "closing"
    <3>1. /\ Goto(c, l) /\ carries' = [carries EXCEPT ![c] = m.call]
          /\ redo' = [redo EXCEPT ![c] = (m.kind = "close")]
      BY <1>5, <2>4 DEF Read
    <3>2. m \in BackMsg
      BY <2>1, HeadTailProperties DEF ServerShape
    <3>3. /\ m.call \in Own \cup {NoCall}
          /\ m.kind \in {"reply", "close", "error"} /\ (m.kind = "reply" => m.call \in Own)
      BY <3>2 DEF BackMsg, Own
    <3> HIDE DEF m
    <3>4. P(l, victim[c], (m.kind = "close"), m.call)
      BY <1>3, <3>3 DEF Reading, Handling
    <3> HIDE DEF l
    <3> QED
      BY <1>1, <2>1, <3>1, <3>4, MoveShape DEF Goto
  <2> QED
    BY <2>3, <2>4
<1>6. CASE Release(c)
  <2>1. /\ Goto(c, "reading") /\ UNCHANGED <<on, victim, redo>> /\ pc[c] = "release"
        /\ carries' = [carries EXCEPT ![c] = NoCall]
    BY <1>6 DEF Release, At
  <2>2. ~redo[c]
    BY <1>1, <1>2, <2>1 DEF Place
  <2>3. P("reading", victim[c], redo[c], NoCall)
    BY <1>2, <1>3, <2>2 DEF Reading, Handling
  <2> QED
    BY <1>1, <2>1, <2>3, MoveShape DEF Goto
<1>7. CASE Closing(c)
  <2>1. /\ Goto(c, "unlist") /\ UNCHANGED <<on, carries, redo>>
        /\ victim' = [victim EXCEPT ![c] = c]
    BY <1>7 DEF Closing
  <2>2. /\ "unlist" \in PcOf(c) /\ KillsAt(c, "unlist") /\ "unlist" \notin Invoking
        /\ "unlist" \notin Handles /\ "unlist" \notin HasOn
    BY Kinds DEF PcOf, KillsAt, Killing, Reading, Handling, Invoking, Early, Handles, HasOn, Sending
  <2>3. P("unlist", c, redo[c], carries[c])
    <3>1. c \notin Caller
      BY Kinds
    <3> HIDE DEF PcOf, KillsAt, Invoking, Handles, HasOn
    <3> QED
      BY <1>1, <1>2, <2>2, <3>1 DEF Place
  <2> QED
    BY <1>1, <2>1, <2>3, MoveShape DEF Goto
<1> QED
  BY <1>4, <1>5, <1>6, <1>7 DEF Reader

\* Who runs kill_conn().
LEMMA KillersOf ==
  ASSUME ThreadShape, NEW t \in Thread, pc[t] \in Killing
  PROVE  /\ t \notin Caller /\ victim[t] \in Conn
         /\ t \in Conn => victim[t] = t
         /\ on[t] = NoConn /\ carries[t] \in Own \cup {NoCall}
         /\ pc[t] = "redo" => t \in Conn /\ redo[t] /\ carries[t] \in Own
         /\ pc[t] = "abort" => ~redo[t] /\ carries[t] \in Own
         /\ redo[t] => t \in Conn
<1>1. Place(t, pc[t], on[t], victim[t], redo[t], carries[t])
  BY DEF ThreadShape
<1>2. t \notin Caller
  <2>1. CASE t \in Oneway
    BY <1>1, <2>1 DEF Place, PcOf, Killing, Invoking, Early
  <2>2. CASE t \in Caller /\ t \notin Oneway
    BY <1>1, <2>2 DEF Place, PcOf, Killing, Invoking, Early, Cancelling
  <2> QED
    BY <2>1, <2>2
<1>3. KillsAt(t, pc[t]) /\ pc[t] \notin HasOn /\ NoConn \notin Conn
  BY Kinds DEF KillsAt, HasOn, Killing, Sending
<1>4. pc[t] = "redo" => t \in Conn
  BY <1>1, <1>3 DEF Place
<1> HIDE DEF KillsAt, HasOn, Killing
<1> QED
  BY <1>1, <1>2, <1>3, <1>4 DEF Place, Handles

\* So does a thread that kills a connection.
LEMMA KillThreads ==
  ASSUME ThreadShape, IdShape, NEW t \in Thread, kill_conn(t)
  PROVE  ThreadShape'
<1> DEFINE P(l, d, r, q) == Place(t, l, on[t], d, r, q)
<1>1. P(pc[t], victim[t], redo[t], carries[t])
  BY DEF ThreadShape
<1>2. pc[t] \in Killing
  BY DEF kill_conn, Unlist, Uncache, ShutdownEffective, Join, TerminatedEffective, NextPending,
     Abort, Redo, KillEnd, At, Killing
<1>3. /\ t \notin Caller /\ victim[t] \in Conn /\ (t \in Conn => victim[t] = t)
      /\ on[t] = NoConn /\ carries[t] \in Own \cup {NoCall}
      /\ redo[t] \in BOOLEAN /\ (redo[t] => t \in Conn) /\ t \notin Oneway
      /\ NoConn \notin Conn
  BY <1>2, KillersOf, Kinds DEF ThreadShape
\* the places of a thread that kills
<1>4. ASSUME NEW l \in Killing \cup {"lookup"}, l \in {"redo", "lookup"} => t \in Conn /\ redo[t],
             NEW q \in Own \cup {NoCall}, l \in {"abort", "redo", "lookup"} => q \in Own,
             l = "abort" => ~redo[t]
      PROVE  P(l, victim[t], redo[t], q)
  <2>1. l \in PcOf(t) /\ KillsAt(t, l) /\ l \notin HasOn /\ (l \in Invoking => l = "lookup")
    BY <1>3, <1>4 DEF PcOf, KillsAt, Killing, Invoking, Early, HasOn, Sending
  <2>2. l \in Handles => l \in {"abort", "redo", "lookup"}
    BY DEF Handles, Handling, Killing, Invoking, Early
  <2> HIDE DEF PcOf, KillsAt, HasOn, Handles, Killing, Invoking
  <2> QED
    BY <1>3, <1>4, <2>1, <2>2 DEF Place
<1>5. CASE Uncache(t) \/ ShutdownEffective(t) \/ Join(t) \/ TerminatedEffective(t)
  <2>1. PICK l \in {"shutdown", "join", "terminated", "pending"} :
          Goto(t, l) /\ UNCHANGED <<on, victim, redo, carries>>
    BY <1>5 DEF Uncache, ShutdownEffective, Join, TerminatedEffective
  <2>2. P(l, victim[t], redo[t], carries[t])
    BY <1>3, <1>4 DEF Killing
  <2> QED
    BY <2>1, <2>2, GotoShape
<1>6. CASE NextPending(t)
  <2>1. PICK q \in PendingOn(victim[t]) : carries' = [carries EXCEPT ![t] = q]
    BY <1>6 DEF NextPending
  <2> DEFINE l == IF redo[t] THEN "redo" ELSE "abort"
  <2>2. Goto(t, l) /\ UNCHANGED <<on, victim, redo>>
    BY <1>6 DEF NextPending
  <2>3. q \in Own
    BY <2>1 DEF PendingOn, IdShape, NoRec, Own
  <2>4. P(l, victim[t], redo[t], q)
    BY <1>3, <1>4, <2>3 DEF Killing
  <2> HIDE DEF l
  <2> QED
    BY <2>1, <2>2, <2>4, MoveShape DEF Goto
<1>7. CASE Abort(t) \/ Redo(t)
  <2>1. PICK l \in {"pending", "lookup"} :
          /\ Goto(t, l) /\ UNCHANGED <<on, victim, redo, carries>>
          /\ l = "lookup" => pc[t] = "redo"
    BY <1>7 DEF Abort, Redo, At
  <2>2. P(l, victim[t], redo[t], carries[t])
    BY <1>2, <1>3, <1>4, <2>1, KillersOf DEF Killing
  <2> QED
    BY <2>1, <2>2, GotoShape
<1>8. CASE Leave(t)
  <2> DEFINE l == IF t \in Conn THEN "select" ELSE IF t = Main THEN "done" ELSE "idle"
  <2>1. /\ l \in PcOf(t) /\ ~KillsAt(t, l) /\ l \notin HasOn /\ l \notin Handles /\ l \notin Invoking
        /\ l # "redo" /\ l # "abort"
    BY <1>3, Kinds DEF PcOf, KillsAt, Killing, Invoking, Early, HasOn, Sending, Reading, Handling, Handles
  <2>2. P(l, NoConn, FALSE, NoCall)
    <3> HIDE DEF PcOf, KillsAt, HasOn, Handles, Invoking, l
    <3> QED
      BY <1>3, <2>1 DEF Place
  <2>3. /\ Goto(t, l)
        /\ victim' = [victim EXCEPT ![t] = NoConn]
        /\ redo' = [redo EXCEPT ![t] = FALSE] /\ carries' = [carries EXCEPT ![t] = NoCall]
    BY <1>8 DEF Leave
  <2>4. on' = on
    BY <1>8 DEF kill_conn, Unlist, Uncache, ShutdownEffective, Join, TerminatedEffective, NextPending,
       Abort, Redo, KillEnd
  <2> HIDE DEF l
  <2> QED
    BY <2>2, <2>3, <2>4, MoveShape DEF Goto
<1>9. CASE Unlist(t)
  <2>1. CASE conns = victim[t]
    <3>1. Goto(t, "uncache") /\ UNCHANGED <<on, victim, redo, carries>>
      BY <1>9, <2>1 DEF Unlist
    <3>2. P("uncache", victim[t], redo[t], carries[t])
      BY <1>3, <1>4 DEF Killing
    <3> QED
      BY <3>1, <3>2, GotoShape
  <2>2. CASE conns # victim[t]
    BY <1>8, <1>9, <2>2 DEF Unlist
  <2> QED
    BY <2>1, <2>2
<1>10. CASE KillEnd(t)
  BY <1>8, <1>10 DEF KillEnd
<1> QED
  BY <1>5, <1>6, <1>7, <1>9, <1>10 DEF kill_conn

\* So does a thread of the ORB pool, and the one that shuts the ORB down.
LEMMA PoolThreads ==
  ASSUME ThreadShape, CacheShape, RestShape, NEW t \in OrbWorker \cup {Main},
         (t \in OrbWorker /\ Pool(t)) \/ (t = Main /\ Shutdown)
  PROVE  ThreadShape'
<1>1. /\ t \in Thread /\ t \notin Conn /\ t \notin Caller /\ t \notin Oneway /\ NoConn \notin Conn
      /\ Place(t, pc[t], on[t], victim[t], redo[t], carries[t])
  BY Kinds DEF ThreadShape
<1>2. /\ \A l \in {"unlist", "done"} : /\ l \in PcOf(t) /\ l \notin HasOn /\ l \notin Handles
                                     /\ l \notin Invoking /\ (KillsAt(t, l) <=> l = "unlist")
      /\ ~KillsAt(t, "idle") /\ "idle" \notin HasOn
  BY <1>1 DEF PcOf, KillsAt, Killing, HasOn, Sending, Handles, Handling, Invoking, Early
<1>3. CASE t \in OrbWorker /\ TakeKill(t)
  BY <1>3 DEF TakeKill, threadVars, ThreadShape
<1>4. CASE t \in OrbWorker /\ TakeClose(t)
  <2> DEFINE c == Head(orb).conn
  <2>1. /\ pc[t] = "idle" /\ Goto(t, "unlist") /\ victim' = [victim EXCEPT ![t] = c]
        /\ redo' = [redo EXCEPT ![t] = FALSE] /\ UNCHANGED <<on, carries>> /\ orb # <<>>
    BY <1>4 DEF TakeClose
  <2>2. c \in Conn
    <3>1. Head(orb) \in OrbMsg
      BY <2>1, HeadTailProperties DEF RestShape
    <3> QED
      BY <3>1 DEF OrbMsg
  <2>3. Place(t, "unlist", on[t], c, FALSE, carries[t])
    <3> HIDE DEF PcOf, KillsAt, HasOn, Handles, Invoking, c
    <3>1. /\ "unlist" \in PcOf(t) /\ "unlist" \notin HasOn /\ "unlist" \notin Handles
          /\ "unlist" \notin Invoking /\ KillsAt(t, "unlist")
      BY <1>2
    <3>2. on[t] \in Conn \cup {NoConn} /\ on[t] \notin Conn /\ carries[t] \in Own \cup {NoCall}
      BY <1>1, <1>2, <2>1 DEF Place
    <3> QED
      BY <1>1, <2>2, <3>1, <3>2 DEF Place
  <2> HIDE DEF c
  <2> QED
    BY <1>1, <2>1, <2>3, MoveShape DEF Goto
<1>5. CASE t = Main /\ Shutdown
  <2> HIDE DEF PcOf, KillsAt, HasOn, Handles, Invoking
  <2>1. pc[t] = "idle" /\ UNCHANGED <<on, carries, redo>>
    BY <1>5 DEF Shutdown
  <2>2. CASE conns = NoConn
    <3>1. Goto(t, "done") /\ victim' = victim
      BY <1>5, <2>2 DEF Shutdown
    <3>2. Place(t, "done", on[t], victim[t], redo[t], carries[t])
      BY <1>1, <1>2, <2>1 DEF Place
    <3> QED
      BY <1>1, <2>1, <3>1, <3>2, GotoShape
  <2>3. CASE conns # NoConn
    <3>1. Goto(t, "unlist") /\ victim' = [victim EXCEPT ![t] = conns]
      BY <1>5, <2>3 DEF Shutdown
    <3>2. Place(t, "unlist", on[t], conns, redo[t], carries[t])
      BY <1>1, <1>2, <2>1, <2>3 DEF Place, CacheShape
    <3> QED
      BY <1>1, <2>1, <3>1, <3>2, MoveShape DEF Goto
  <2> QED
    BY <2>2, <2>3
<1> QED
  BY <1>3, <1>4, <1>5 DEF Pool

-----------------------------------------------------------------------------
(***************************************************************************)
(* The data keep their types.                                              *)
(***************************************************************************)

\* What the helpers that close, write, count and answer do.
LEMMA CloseShape ==
  ASSUME ConnShape, RestShape, NEW c \in Conn, close_connection(c)
  PROVE  /\ state' \in [Conn -> ConnState] /\ orb' \in Seq(OrbMsg)
         /\ \A d \in Conn : d # c => state'[d] = state[d]
         /\ state'[c].active = state[c].active
         /\ state'[c] # state[c] => /\ state[c].new = 1
                                    /\ state'[c].current = 2 /\ state'[c].new = 2
         /\ orb' = orb \/ orb' = Append(orb, [conn |-> c, ev |-> "CloseConn"])
<1>1. [conn |-> c, ev |-> "CloseConn"] \in OrbMsg
  BY DEF OrbMsg
<1>2. /\ S!init_shutdown(state[c]) \in ConnState
      /\ S!init_shutdown(state[c]).active = state[c].active
      /\ S!init_shutdown(state[c]).current = 2 /\ S!init_shutdown(state[c]).new = 2
  BY StateMethods DEF ConnShape
<1>3. CASE S!ShutdownOK(state[c])
  <2>1. /\ SetState(c, S!init_shutdown(state[c])) /\ state[c].new = 1
        /\ orb' = Append(orb, [conn |-> c, ev |-> "CloseConn"])
    BY <1>3 DEF close_connection, S!ShutdownOK, S!Active
  <2>2. orb' \in Seq(OrbMsg)
    BY <1>1, <2>1 DEF RestShape
  <2> QED
    BY <1>2, <2>1, <2>2, SetStateShape
<1>4. CASE ~S!ShutdownOK(state[c])
  BY <1>4 DEF close_connection, ConnShape, RestShape
<1> QED
  BY <1>3, <1>4

\* output() sends what it is given or finds the connection broken, and asks for
\* its close then.
LEMMA OutputShape ==
  ASSUME ConnShape, RestShape, ServerShape, NEW c \in Conn, NEW A \in SUBSET Caller, output(c, A)
  PROVE  /\ state' \in [Conn -> ConnState] /\ orb' \in Seq(OrbMsg)
         /\ requests' \in [Conn -> SUBSET Caller]
         /\ \A d \in Conn : d # c => state'[d] = state[d] /\ requests'[d] = requests[d]
         /\ state'[c].active = state[c].active
         /\ state'[c] # state[c] => /\ state[c].new = 1
                                    /\ state'[c].current = 2 /\ state'[c].new = 2
         /\ requests'[c] \subseteq requests[c] \cup A
         /\ requests'[c] # requests[c] => peer[c] = "up"
         /\ orb' = orb \/ orb' = Append(orb, [conn |-> c, ev |-> "CloseConn"])
<1>1. CASE Broken(c) /\ close_connection(c) /\ UNCHANGED requests
  BY <1>1, CloseShape DEF ServerShape
<1>2. CASE UNCHANGED <<state, orb, requests>>
  BY <1>2 DEF ConnShape, RestShape, ServerShape
<1>3. CASE /\ requests' = [requests EXCEPT ![c] = @ \cup A] /\ peer[c] = "up"
           /\ UNCHANGED <<state, orb>>
  BY <1>3 DEF ConnShape, RestShape, ServerShape
<1> QED
  BY <1>1, <1>2, <1>3 DEF output

\* deref() takes one reference, and the last one frees the slot and asks for the
\* deletion of the connection.
LEMMA DerefShape ==
  ASSUME ConnShape, RestShape, NEW c \in Conn, deref_conn(c)
  PROVE  /\ refcnt' \in [Conn -> Nat] /\ refcnt'[c] = refcnt[c] - 1 /\ refcnt[c] > 0
         /\ \A d \in Conn : d # c => refcnt'[d] = refcnt[d]
         /\ orb' \in Seq(OrbMsg) /\ slots' \in Int
         /\ IF refcnt[c] = 1 THEN slots' = slots - 1 /\ orb' = Append(orb, [conn |-> c, ev |-> "KillConn"])
                             ELSE slots' = slots /\ orb' = orb
<1>1. [conn |-> c, ev |-> "KillConn"] \in OrbMsg
  BY DEF OrbMsg
<1>2. /\ refcnt' \in [Conn -> Nat] /\ refcnt'[c] = refcnt[c] - 1 /\ refcnt[c] > 0
      /\ \A d \in Conn : d # c => refcnt'[d] = refcnt[d]
  <2>1. /\ refcnt \in [Conn -> Nat] /\ refcnt[c] > 0 /\ refcnt' = [refcnt EXCEPT ![c] = @ - 1]
    BY DEF deref_conn, ConnShape
  <2>2. refcnt[c] - 1 \in Nat
    BY <2>1
  <2> QED
    BY <2>1, <2>2
<1>3. IF refcnt[c] = 1 THEN slots' = slots - 1 /\ orb' = Append(orb, [conn |-> c, ev |-> "KillConn"])
                       ELSE slots' = slots /\ orb' = orb
  BY DEF deref_conn
<1>4. slots' = slots - 1 \/ slots' = slots
  BY <1>3
<1>5. orb' = Append(orb, [conn |-> c, ev |-> "KillConn"]) \/ orb' = orb
  BY <1>3
<1>6. orb' \in Seq(OrbMsg)
  BY <1>1, <1>5 DEF RestShape
<1>7. slots' \in Int
  BY <1>4 DEF ConnShape
<1> QED
  BY <1>2, <1>3, <1>6, <1>7

\* answer_invoke() gives a call that waits its result, and does nothing to another.
LEMMA AnswerShape ==
  ASSUME CallShape, NEW q \in Caller, NEW o \in {"reply", "TRANSIENT", "COMM_FAILURE", "TIMEOUT"},
         answer_invoke(q, o)
  PROVE  /\ CallShape'
         /\ \A p \in Caller : p # q => status'[p] = status[p] /\ outcome'[p] = outcome[p]
         /\ \/ /\ status[q] \in {"pending", "answered"} /\ q \notin Oneway /\ outcome[q] = "none"
               /\ status'[q] = "answered" /\ outcome'[q] = o
            \/ /\ status[q] \notin {"pending", "answered"} \/ q \in Oneway
               /\ UNCHANGED <<status, outcome>>
BY DEF CallShape, answer_invoke, AnswerOK, callVars

\* Records come and go.
LEMMA RecShape ==
  ASSUME IdShape, NEW q \in Own, NEW r \in Rec \cup {NoRec}, ids' = [ids EXCEPT ![q] = r]
  PROVE  /\ IdShape' /\ ids'[q] = r
         /\ \A p \in Caller : p # q => ids'[p] = ids[p]
BY Kinds DEF IdShape

\* A record belongs to a call and names its connection.
LEMMA RecTypes ==
  ASSUME IdShape, NEW q \in Caller
  PROVE  /\ ids[q] = NoRec \/ (q \in Own /\ ids[q] \in Rec /\ ids[q].conn \in Conn)
         /\ ids[q] = NoRec <=> ids[q].conn \notin Conn
         /\ ids[q] = NoRec <=> ids[q].conn = NoConn
         /\ ids[q].active => ids[q] \in Rec /\ ids[q] = [conn |-> ids[q].conn, active |-> TRUE]
         /\ ids[q].active \in BOOLEAN
         /\ ids[q] \in Rec /\ ~ids[q].active => ids[q] = [conn |-> ids[q].conn, active |-> FALSE]
<1>1. NoRec.conn = NoConn /\ NoRec.active = FALSE /\ NoConn \notin Conn
  BY Kinds DEF NoRec
<1>2. ids[q] \in Rec => /\ ids[q].conn \in Conn /\ ids[q].active \in BOOLEAN
                        /\ ids[q] = [conn |-> ids[q].conn, active |-> ids[q].active]
  BY DEF Rec
<1>3. ids[q] \in Rec \cup {NoRec} /\ (q \in Oneway => ids[q] = NoRec)
  BY DEF IdShape
<1>4. ids[q] \in Rec => ids[q] # NoRec
  BY <1>1, <1>2
<1> HIDE DEF NoRec, Rec
<1> QED
  BY <1>1, <1>2, <1>3, <1>4 DEF Own

\* A record is pulled.
LEMMA PullShape ==
  ASSUME IdShape, NEW q \in Caller, ids[q].active, ids' = [ids EXCEPT ![q].active = FALSE]
  PROVE  /\ IdShape' /\ q \in Own /\ ids'[q] = [conn |-> ids[q].conn, active |-> FALSE]
         /\ ids[q].conn \in Conn
         /\ \A p \in Caller : p # q => ids'[p] = ids[p]
<1>1. q \in Own /\ ids[q] \in Rec /\ ids[q].conn \in Conn /\ ids[q] = [conn |-> ids[q].conn, active |-> TRUE]
  <2>1. ids[q] \in Rec /\ ids[q] = [conn |-> ids[q].conn, active |-> TRUE]
    BY RecTypes
  <2>2. ids[q].conn \in Conn
    BY <2>1 DEF Rec
  <2>3. q \in Own
    BY <2>2, RecTypes
  <2> QED
    BY <2>1, <2>2, <2>3
<1> DEFINE r == [conn |-> ids[q].conn, active |-> FALSE]
<1>2. r \in Rec
  BY <1>1 DEF Rec
<1>3. ids' = [ids EXCEPT ![q] = r]
  <2>1. \A b \in BOOLEAN : [ids[q] EXCEPT !.active = b] = [conn |-> ids[q].conn, active |-> b]
    BY <1>1 DEF Rec
  <2>2. [ids[q] EXCEPT !.active = FALSE] = r
    BY <2>1
  <2> HIDE DEF r
  <2> QED
    BY <2>2
<1> HIDE DEF r
<1>4. IdShape' /\ ids'[q] = r /\ \A p \in Caller : p # q => ids'[p] = ids[p]
  BY <1>1, <1>2, <1>3, RecShape
<1> QED
  BY <1>1, <1>4 DEF r


-----------------------------------------------------------------------------
(***************************************************************************)
(* What the actions do, point by point, and that they keep the shape.      *)
(***************************************************************************)

\* no thread but t goes on
Only(t) == \A u \in Thread : u # t =>
  /\ pc'[u] = pc[u] /\ on'[u] = on[u] /\ victim'[u] = victim[u]
  /\ redo'[u] = redo[u] /\ carries'[u] = carries[u]
\* ... and it goes on with what it has
Keeps(t) == /\ on'[t] = on[t] /\ victim'[t] = victim[t]
            /\ redo'[t] = redo[t] /\ carries'[t] = carries[t]
\* the active references of c change by n
Counted(c, n) ==
  /\ state'[c].active = state[c].active + n
  /\ state'[c].current = state[c].current /\ state'[c].new = state[c].new
  /\ \A d \in Conn : d # c => state'[d] = state[d]
\* init_shutdown() may be called on c
MayClose(c) ==
  /\ \A d \in Conn : d # c => state'[d] = state[d]
  /\ state'[c].active = state[c].active
  /\ \/ state'[c] = state[c]
     \/ state[c].new = 1 /\ state'[c].current = 2 /\ state'[c].new = 2
  /\ orb' = orb \/ orb' = Append(orb, [conn |-> c, ev |-> "CloseConn"])

\* The thread that moves is the only one that does.
LEMMA Moves ==
  ASSUME ThreadShape, NEW t \in Thread, NEW l, NEW c, NEW d, NEW r, NEW q,
         pc' = [pc EXCEPT ![t] = l],
         on' = [on EXCEPT ![t] = c] \/ (on' = on /\ c = on[t]),
         victim' = [victim EXCEPT ![t] = d] \/ (victim' = victim /\ d = victim[t]),
         redo' = [redo EXCEPT ![t] = r] \/ (redo' = redo /\ r = redo[t]),
         carries' = [carries EXCEPT ![t] = q] \/ (carries' = carries /\ q = carries[t])
  PROVE  /\ pc'[t] = l /\ on'[t] = c /\ victim'[t] = d /\ redo'[t] = r /\ carries'[t] = q
         /\ Only(t)
BY DEF ThreadShape, Only

\* A thread that goes on keeps what it has in hand.
LEMMA GoesOn ==
  ASSUME ThreadShape, NEW t \in Thread, NEW l, Goto(t, l), UNCHANGED <<on, victim, redo, carries>>
  PROVE  pc'[t] = l /\ Only(t) /\ Keeps(t)
BY Moves DEF Goto, Keeps

\* A step that makes no connection and deletes none keeps the shape.
LEMMA ShapeStep ==
  ASSUME Shape, NEW t \in Thread, Only(t), ThreadShape', DataShape', life' = life,
         t \in Conn => pc[t] \notin {"idle", "done"} /\ pc'[t] # "idle"
  PROVE  Shape'
<1>1. LifeShape'
  <2> SUFFICES ASSUME NEW c \in Conn
               PROVE  /\ life[c] = "none" <=> pc'[c] = "idle"
                      /\ life[c] = "deleted" => pc'[c] = "done"
    BY DEF LifeShape
  <2>1. CASE c = t
    BY <2>1 DEF Shape, LifeShape
  <2>2. CASE c # t
    BY <2>2, Kinds DEF Shape, LifeShape, Only
  <2> QED
    BY <2>1, <2>2
<1> QED
  BY <1>1 DEF Shape

\* A reference is counted.
LEMMA RefShape ==
  ASSUME ConnShape, NEW c \in Conn
  PROVE  /\ SetState(c, S!active_ref(state[c])) => Counted(c, 1) /\ state' \in [Conn -> ConnState]
         /\ SetState(c, S!active_deref(state[c])) => Counted(c, -1) /\ state' \in [Conn -> ConnState]
<1>1. state[c] \in ConnState /\ state[c].active \in Int
  BY StateMethods DEF ConnShape
<1>2. state[c].active - 1 = state[c].active + (-1)
  BY <1>1
<1>3. ASSUME NEW s \in ConnState, SetState(c, s)
      PROVE  /\ state' \in [Conn -> ConnState] /\ state'[c] = s
             /\ \A d \in Conn : d # c => state'[d] = state[d]
  BY <1>3, SetStateShape
<1>4. /\ S!active_ref(state[c]) \in ConnState /\ S!active_deref(state[c]) \in ConnState
      /\ S!active_ref(state[c]).current = state[c].current
      /\ S!active_ref(state[c]).new = state[c].new
      /\ S!active_ref(state[c]).active = state[c].active + 1
      /\ S!active_deref(state[c]).current = state[c].current
      /\ S!active_deref(state[c]).new = state[c].new
      /\ S!active_deref(state[c]).active = state[c].active - 1
  BY <1>1, StateMethods
<1> QED
  BY <1>2, <1>3, <1>4 DEF Counted

\* The profile cache is asked: a connection is found there, or not.
LEMMA LookupStep ==
  ASSUME Shape, NEW t \in Thread, Lookup(t)
  PROVE  /\ Shape' /\ Only(t) /\ pc[t] = "lookup" /\ pc'[t] \in {"ref", "connect"}
         /\ victim'[t] = victim[t] /\ redo'[t] = redo[t] /\ carries'[t] = carries[t]
         /\ on'[t] \in {on[t], profconns}
         /\ UNCHANGED <<serverVars, callVars, connVars, conns, profconns, ids, orb, kept, fault>>
<1>1. ThreadShape'
  BY InvokeThreads DEF Shape, DataShape
<1>2. PICK l \in {"ref", "connect"} : Goto(t, l) /\ on' \in {on, [on EXCEPT ![t] = profconns]}
  BY DEF Lookup
<1>3. /\ pc'[t] = l /\ Only(t) /\ victim'[t] = victim[t] /\ redo'[t] = redo[t]
      /\ carries'[t] = carries[t] /\ on'[t] \in {on[t], profconns}
  <2>1. UNCHANGED <<victim, redo, carries>>
    BY DEF Lookup
  <2> QED
    BY <1>2, <2>1, Moves DEF Goto, Shape
<1>4. DataShape'
  BY DEF Lookup, Shape, DataShape, serverVars, callVars, connVars, ServerShape, CallShape, ConnShape,
     CacheShape, IdShape, RestShape
<1>5. pc[t] = "lookup" /\ UNCHANGED <<serverVars, callVars, connVars, conns, profconns, ids, orb, kept, fault>>
  BY DEF Lookup
<1>6. life' = life
  BY <1>5 DEF connVars
<1> QED
  BY <1>1, <1>2, <1>3, <1>4, <1>5, <1>6, ShapeStep

\* make_conn() finds the connection in conns, and caches it.
LEMMA FindStep ==
  ASSUME Shape, NEW t \in Thread, FindConn(t) \/ Cache(t)
  PROVE  /\ Shape' /\ Only(t)
         /\ \/ pc[t] = "connect" /\ pc'[t] = "cache" /\ on'[t] = conns /\ conns \in Conn
               /\ profconns' = profconns
            \/ pc[t] = "cache" /\ pc'[t] = "ref" /\ on'[t] = on[t] /\ on[t] \in Conn
               /\ profconns' \in {profconns, on[t]}
         /\ victim'[t] = victim[t] /\ redo'[t] = redo[t] /\ carries'[t] = carries[t]
         /\ UNCHANGED <<serverVars, callVars, connVars, conns, ids, orb, kept, fault>>
<1>1. ThreadShape'
  BY InvokeThreads DEF Shape, DataShape
<1>2. UNCHANGED <<serverVars, callVars, connVars, conns, ids, orb, kept, fault, victim, redo, carries>>
  BY DEF FindConn, Cache, cacheVars
<1>3. life' = life
  BY <1>2 DEF connVars
<1>4. CASE FindConn(t)
  <2>1. /\ pc[t] = "connect" /\ pc' = [pc EXCEPT ![t] = "cache"] /\ on' = [on EXCEPT ![t] = conns]
        /\ profconns' = profconns /\ active' = active /\ conns \in Conn
    BY <1>4 DEF FindConn, Goto, cacheVars, Shape, DataShape, CacheShape
  <2>2. /\ pc'[t] = "cache" /\ on'[t] = conns /\ Only(t) /\ victim'[t] = victim[t]
        /\ redo'[t] = redo[t] /\ carries'[t] = carries[t]
    BY <1>2, <2>1, Moves DEF Shape
  <2>3. DataShape'
    BY <1>2, <2>1 DEF Shape, DataShape, serverVars, callVars, connVars, ServerShape, CallShape,
       ConnShape, CacheShape, IdShape, RestShape
  <2> QED
    BY <1>1, <1>2, <1>3, <2>1, <2>2, <2>3, ShapeStep
<1>5. CASE Cache(t)
  <2>1. /\ pc[t] = "cache" /\ Goto(t, "ref") /\ on' = on
        /\ profconns' \in {profconns, on[t]} /\ active' = TRUE
    BY <1>5 DEF Cache
  <2>2. on[t] \in Conn
    <3>1. Place(t, pc[t], on[t], victim[t], redo[t], carries[t])
      BY DEF Shape, ThreadShape
    <3> QED
      BY <2>1, <3>1 DEF Place, HasOn
  <2>3. pc'[t] = "ref" /\ Only(t) /\ Keeps(t)
    BY <1>2, <2>1, GoesOn DEF Shape
  <2>4. DataShape'
    BY <1>2, <2>1, <2>2 DEF Shape, DataShape, serverVars, callVars, connVars, ServerShape, CallShape,
       ConnShape, CacheShape, IdShape, RestShape
  <2> QED
    BY <1>1, <1>2, <1>3, <2>1, <2>2, <2>3, <2>4, ShapeStep DEF Keeps
<1> QED
  BY <1>4, <1>5

\* Who sends on a connection.
LEMMA Sender ==
  ASSUME ThreadShape, NEW t \in Thread, pc[t] \in HasOn
  PROVE  on[t] \in Conn /\ pc[t] \in Invoking /\ on[t] # NoConn
<1>1. Place(t, pc[t], on[t], victim[t], redo[t], carries[t])
  BY DEF ThreadShape
<1>2. pc[t] \in Invoking
  BY DEF HasOn, Invoking, Sending, Early
<1> QED
  BY <1>1, <1>2, Kinds DEF Place

\* What threads use exists.
LEMMA Usage ==
  ASSUME ThreadShape, NEW t \in Thread, NEW l, At(t, l)
  PROVE  /\ pc[t] = l
         /\ l \in Sending => on[t] \in Conn /\ life[on[t]] = "open"
         /\ l \in Cancelling /\ ids[t].conn # NoConn => life[ids[t].conn] = "open"
         /\ l \in Killing => victim[t] \in Conn /\ life[victim[t]] = "open"
         /\ l \in Reading /\ t \in Conn => life[t] = "open"
<1>1. /\ l \in Sending => Uses(t, l) = on[t]
      /\ l \in Cancelling => Uses(t, l) = ids[t].conn
      /\ l \in Killing => Uses(t, l) = victim[t]
      /\ l \in Reading => Uses(t, l) = t
  <2>1. /\ l \in Cancelling => l \notin Sending
        /\ l \in Killing => l \notin Sending /\ l \notin Cancelling
        /\ l \in Reading => l \notin Sending /\ l \notin Cancelling /\ l \notin Killing
    BY DEF Sending, Cancelling, Killing, Reading, Handling
  <2> QED
    BY <2>1 DEF Uses
<1>2. pc[t] = l /\ (Uses(t, l) # NoConn => life[Uses(t, l)] = "open")
  BY DEF At
<1>3. l \in Sending => on[t] \in Conn
  BY <1>2, Sender DEF HasOn
<1>4. l \in Killing => victim[t] \in Conn
  BY <1>2, KillersOf
<1> QED
  BY <1>1, <1>2, <1>3, <1>4, Kinds

\* make_conn() makes a connection and starts its reader.
LEMMA NewConnStep ==
  ASSUME Shape, NEW t \in Thread, NewConn(t)
  PROVE  /\ Shape' /\ conns = NoConn /\ conns' \in Conn /\ conns' # t
         /\ life[conns'] = "none" /\ life'[conns'] = "open"
         /\ \A d \in Conn : d # conns' => life'[d] = life[d] /\ refcnt'[d] = refcnt[d] /\ state'[d] = state[d]
         /\ refcnt'[conns'] = 1 /\ state'[conns'].active = state[conns'].active + 1
         /\ state'[conns'].new = 1
         /\ state[conns'].current = 0 => state'[conns'].current = 1
         /\ slots' = slots + 1 /\ slots < ConnLimit
         /\ pc[t] = "connect" /\ pc'[t] = "cache" /\ pc[conns'] = "idle" /\ pc'[conns'] = "select"
         /\ on'[t] = conns' /\ \A u \in Thread : u # t /\ u # conns' => pc'[u] = pc[u]
         /\ \A u \in Thread : u # t => on'[u] = on[u]
         /\ UNCHANGED <<victim, redo, carries>>
         /\ UNCHANGED <<serverVars, callVars, profconns, active, ids, orb, kept, fault>>
<1>1. /\ ThreadShape' /\ conns' \in Conn
      /\ conns' # t /\ life[conns'] = "none" /\ pc[conns'] = "idle"
      /\ pc'[t] = "cache" /\ pc'[conns'] = "select" /\ on'[t] = conns'
      /\ \A u \in Thread : u # t /\ u # conns' => pc'[u] = pc[u]
      /\ \A u \in Thread : u # t => on'[u] = on[u]
      /\ UNCHANGED <<victim, redo, carries>>
  BY NewConnThreads DEF Shape
<1>2. /\ life' = [life EXCEPT ![conns'] = "open"]
      /\ refcnt' = [refcnt EXCEPT ![conns'] = 1]
      /\ SetState(conns', S!active_ref(S!EndChange(S!BeginChange(state[conns'], S!Active))))
      /\ slots' = slots + 1 /\ slots < ConnLimit /\ pc[t] = "connect" /\ conns = NoConn
      /\ UNCHANGED <<serverVars, callVars, profconns, active, ids, orb, kept, fault>>
  BY DEF NewConn
<1> DEFINE c == conns'
           s == state[c]
           b == S!BeginChange(s, 1)
           e == S!EndChange(b)
<1>3. s \in ConnState
  BY <1>1 DEF Shape, DataShape, ConnShape
<1>4. /\ b \in ConnState /\ b.current = s.current /\ b.new = 1 /\ b.active = s.active
      /\ s.active \in Int
  <2> HIDE DEF s
  <2> QED
    BY <1>3, StateMethods
<1>5. /\ e \in ConnState /\ e.current = (IF 1 > s.current THEN 1 ELSE s.current)
      /\ e.new = 1 /\ e.active = s.active
  <2> HIDE DEF b, s
  <2> QED
    BY <1>4, StateMethods
<1>6. /\ S!active_ref(e) \in ConnState /\ S!active_ref(e).current = e.current
      /\ S!active_ref(e).new = e.new /\ S!active_ref(e).active = e.active + 1
  <2> HIDE DEF e
  <2> QED
    BY <1>5, StateMethods
<1>7. SetState(c, S!active_ref(e))
  BY <1>2 DEF S!Active
<1> HIDE DEF e, b
<1>8. /\ state' \in [Conn -> ConnState] /\ state'[c] = S!active_ref(e)
      /\ \A d \in Conn : d # c => state'[d] = state[d]
  <2> HIDE DEF c
  <2> QED
    BY <1>1, <1>6, <1>7, SetStateShape DEF c, Shape, DataShape
<1>9. /\ life' \in [Conn -> {"none", "open", "deleted"}] /\ refcnt' \in [Conn -> Nat]
      /\ life'[c] = "open" /\ refcnt'[c] = 1 /\ slots' \in Int
      /\ \A d \in Conn : d # c => life'[d] = life[d] /\ refcnt'[d] = refcnt[d]
  BY <1>1, <1>2 DEF Shape, DataShape, ConnShape
<1>10. DataShape'
  BY <1>1, <1>2, <1>8, <1>9 DEF Shape, DataShape, serverVars, callVars, ServerShape, CallShape,
     ConnShape, CacheShape, IdShape, RestShape
<1>11. LifeShape'
  <2> SUFFICES ASSUME NEW d \in Conn
               PROVE  /\ life'[d] = "none" <=> pc'[d] = "idle"
                      /\ life'[d] = "deleted" => pc'[d] = "done"
    BY DEF LifeShape
  <2>1. CASE d = c
    BY <1>1, <1>9, <2>1
  <2>2. CASE d # c /\ d # t
    BY <1>1, <1>9, <2>2, Kinds DEF Shape, LifeShape
  <2>3. CASE d = t
    BY <1>1, <1>2, <1>9, <2>3 DEF Shape, LifeShape
  <2> QED
    BY <2>1, <2>2, <2>3
<1>12. /\ state'[c].active = state[c].active + 1 /\ state'[c].new = 1
       /\ state[c].current = 0 => state'[c].current = 1
  BY <1>5, <1>6, <1>8
<1>13. Shape'
  BY <1>1, <1>10, <1>11 DEF Shape
<1> HIDE DEF s
<1> QED
  BY <1>1, <1>2, <1>8, <1>9, <1>12, <1>13

\* active_ref() of a connection that is not yet shut down.
LEMMA RefStep ==
  ASSUME Shape, NEW t \in Thread, Ref(t)
  PROVE  /\ Shape' /\ Only(t) /\ Keeps(t) /\ pc[t] = "ref" /\ pc'[t] = "add"
         /\ on[t] \in Conn /\ life[on[t]] = "open" /\ state[on[t]].current <= 2
         /\ Counted(on[t], 1)
         /\ UNCHANGED <<serverVars, callVars, life, refcnt, slots, cacheVars, ids, orb, kept, fault>>
<1>1. /\ pc[t] = "ref" /\ Goto(t, "add") /\ UNCHANGED <<on, victim, redo, carries>>
      /\ life[on[t]] = "open" /\ SetState(on[t], S!active_ref(state[on[t]]))
      /\ ~(state[on[t]].current > 2)
      /\ UNCHANGED <<serverVars, callVars, life, refcnt, slots, cacheVars, ids, orb, kept, fault>>
  BY DEF Ref, Late, S!InitShutdown
<1>2. ThreadShape'
  BY InvokeThreads DEF Shape, DataShape
<1>3. pc'[t] = "add" /\ Only(t) /\ Keeps(t)
  BY <1>1, GoesOn DEF Shape
<1>4. on[t] \in Conn
  BY <1>1, Sender DEF Shape, HasOn
<1>5. Counted(on[t], 1) /\ state' \in [Conn -> ConnState]
  BY <1>1, <1>4, RefShape DEF Shape, DataShape
<1>6. DataShape'
  BY <1>1, <1>5 DEF Shape, DataShape, serverVars, callVars, cacheVars, ServerShape, CallShape,
     ConnShape, CacheShape, IdShape, RestShape
<1>7. state[on[t]].current <= 2
  <2>1. state[on[t]].current \in 0..4
    BY <1>4, StateMethods DEF Shape, DataShape, ConnShape
  <2> QED
    BY <1>1, <2>1
<1> QED
  BY <1>1, <1>2, <1>3, <1>4, <1>5, <1>6, <1>7, ShapeStep

\* add_invoke() and the record of the call, with its reference.
LEMMA AddStep ==
  ASSUME Shape, NEW t \in Thread, AddInvoke(t)
  PROVE  /\ Shape' /\ Only(t) /\ Keeps(t) /\ pc[t] = "add" /\ pc'[t] = "output"
         /\ on[t] \in Conn /\ life[on[t]] = "open" /\ carries[t] \in Caller
         /\ \/ carries[t] \in Oneway /\ ids' = ids /\ refcnt' = refcnt
            \/ /\ carries[t] \in Own /\ ids'[carries[t]] = [conn |-> on[t], active |-> TRUE]
               /\ \A q \in Caller : q # carries[t] => ids'[q] = ids[q]
               /\ refcnt'[on[t]] = refcnt[on[t]] + 1
               /\ \A d \in Conn : d # on[t] => refcnt'[d] = refcnt[d]
         /\ UNCHANGED <<serverVars, callVars, life, state, slots, cacheVars, orb, kept, fault>>
<1>1. /\ pc[t] = "add" /\ Goto(t, "output") /\ UNCHANGED <<on, victim, redo, carries>>
      /\ UNCHANGED <<serverVars, callVars, life, state, slots, cacheVars, orb, kept, fault>>
  BY DEF AddInvoke, At
<1>2. ThreadShape'
  BY InvokeThreads DEF Shape, DataShape
<1>3. pc'[t] = "output" /\ Only(t) /\ Keeps(t)
  BY <1>1, GoesOn DEF Shape
<1>4. on[t] \in Conn /\ on[t] # NoConn
  BY <1>1, Sender DEF Shape, HasOn, Sending
<1>5. life[on[t]] = "open"
  BY Usage DEF AddInvoke, Shape, Sending
<1>6. carries[t] \in Caller
  BY <1>1, Invokers DEF Shape, Invoking, Early
<1>7. CASE carries[t] \in Oneway
  <2>1. ids' = ids /\ refcnt' = refcnt
    BY <1>7 DEF AddInvoke
  <2>2. DataShape'
    BY <1>1, <2>1 DEF Shape, DataShape, serverVars, callVars, cacheVars, ServerShape, CallShape,
       ConnShape, CacheShape, IdShape, RestShape
  <2> QED
    BY <1>1, <1>2, <1>3, <1>4, <1>5, <1>6, <1>7, <2>1, <2>2, ShapeStep
<1>8. CASE carries[t] \notin Oneway
  <2> DEFINE r == [conn |-> on[t], active |-> TRUE]
  <2>1. /\ ids' = [ids EXCEPT ![carries[t]] = r]
        /\ refcnt' = [refcnt EXCEPT ![on[t]] = @ + 1]
    BY <1>8 DEF AddInvoke
  <2>2. carries[t] \in Own /\ r \in Rec
    BY <1>4, <1>6, <1>8 DEF Own, Rec
  <2> HIDE DEF r
  <2>3. IdShape' /\ ids'[carries[t]] = r /\ \A q \in Caller : q # carries[t] => ids'[q] = ids[q]
    BY <2>1, <2>2, RecShape DEF Shape, DataShape
  <2>4. /\ refcnt' \in [Conn -> Nat] /\ refcnt'[on[t]] = refcnt[on[t]] + 1
        /\ \A d \in Conn : d # on[t] => refcnt'[d] = refcnt[d]
    BY <1>4, <2>1 DEF Shape, DataShape, ConnShape
  <2>5. DataShape'
    BY <1>1, <2>3, <2>4 DEF Shape, DataShape, serverVars, callVars, cacheVars, ServerShape, CallShape,
       ConnShape, CacheShape, RestShape
  <2> QED
    BY <1>1, <1>2, <1>3, <1>4, <1>5, <1>6, <2>2, <2>3, <2>4, <2>5, ShapeStep DEF r
<1> QED
  BY <1>7, <1>8

\* The request is written, or the connection found broken.
LEMMA OutputStep ==
  ASSUME Shape, NEW t \in Thread, Output(t)
  PROVE  /\ Shape' /\ Only(t) /\ Keeps(t) /\ pc[t] = "output" /\ pc'[t] = "deref"
         /\ on[t] \in Conn /\ carries[t] \in Caller
         /\ MayClose(on[t])
         /\ \A d \in Conn : d # on[t] => requests'[d] = requests[d]
         /\ requests'[on[t]] \subseteq requests[on[t]] \cup {carries[t]}
         /\ requests'[on[t]] # requests[on[t]] => peer[on[t]] = "up"
         /\ UNCHANGED <<peer, inbox, executed, callVars, life, refcnt, slots, cacheVars, ids, kept, fault>>
<1>1. /\ pc[t] = "output" /\ Goto(t, "deref") /\ UNCHANGED <<on, victim, redo, carries>>
      /\ output(on[t], {carries[t]})
      /\ UNCHANGED <<peer, inbox, executed, callVars, life, refcnt, slots, cacheVars, ids, kept, fault>>
  BY DEF Output, At
<1>2. ThreadShape'
  BY InvokeThreads DEF Shape, DataShape
<1>3. pc'[t] = "deref" /\ Only(t) /\ Keeps(t)
  BY <1>1, GoesOn DEF Shape
<1>4. on[t] \in Conn
  BY <1>1, Sender DEF Shape, HasOn, Sending
<1>5. carries[t] \in Caller
  BY <1>1, Invokers DEF Shape, Invoking, Early
<1>6. {carries[t]} \in SUBSET Caller
  BY <1>5
<1>7. /\ state' \in [Conn -> ConnState] /\ orb' \in Seq(OrbMsg)
      /\ requests' \in [Conn -> SUBSET Caller]
      /\ \A d \in Conn : d # on[t] => requests'[d] = requests[d]
      /\ requests'[on[t]] \subseteq requests[on[t]] \cup {carries[t]}
      /\ requests'[on[t]] # requests[on[t]] => peer[on[t]] = "up"
  BY <1>1, <1>4, <1>6, OutputShape DEF Shape, DataShape
<1>8. MayClose(on[t])
  BY <1>1, <1>4, <1>6, OutputShape DEF Shape, DataShape, MayClose
<1>9. DataShape'
  BY <1>1, <1>7 DEF Shape, DataShape, callVars, cacheVars, ServerShape, CallShape,
     ConnShape, CacheShape, IdShape, RestShape
<1> QED
  BY <1>1, <1>2, <1>3, <1>4, <1>5, <1>7, <1>8, <1>9, ShapeStep

\* Where a sender goes: back to kill_conn(), to the end, or to wait.
LEMMA BackStep ==
  ASSUME Shape, NEW t \in Thread, pc[t] \in Invoking, Back(t), UNCHANGED <<victim, redo, carries, outcome>>
  PROVE  /\ Only(t) /\ on'[t] = NoConn
         /\ victim'[t] = victim[t] /\ redo'[t] = redo[t] /\ carries'[t] = carries[t]
         /\ CallShape' /\ outcome' = outcome
         /\ \/ t \in Conn /\ pc'[t] = "pending" /\ status' = status
            \/ /\ t \in Oneway /\ pc'[t] = "done" /\ status'[t] = "returned"
               /\ \A q \in Caller : q # t => status'[q] = status[q]
            \/ t \in Own /\ pc'[t] = "wait" /\ status' = status
<1>1. t \in Caller \cup Conn
  BY Invokers DEF Shape
<1>2. ASSUME NEW l, pc' = [pc EXCEPT ![t] = l]
      PROVE  /\ pc'[t] = l /\ Only(t) /\ on'[t] = NoConn
             /\ victim'[t] = victim[t] /\ redo'[t] = redo[t] /\ carries'[t] = carries[t]
  <2>1. on' = [on EXCEPT ![t] = NoConn]
    BY DEF Back
  <2> QED
    BY <1>2, <2>1, Moves DEF Shape
<1>3. CASE t \in Conn
  <2>1. pc' = [pc EXCEPT ![t] = "pending"] /\ status' = status
    BY <1>3, Kinds DEF Back, Goto
  <2>2. CallShape'
    BY <2>1 DEF Shape, DataShape, CallShape
  <2> QED
    BY <1>2, <1>3, <2>1, <2>2
<1>4. CASE t \in Oneway
  <2>1. pc' = [pc EXCEPT ![t] = "done"] /\ status' = [status EXCEPT ![t] = "returned"]
    BY <1>4, Kinds DEF Back, Goto
  <2>2. /\ CallShape' /\ status'[t] = "returned"
        /\ \A q \in Caller : q # t => status'[q] = status[q]
    BY <1>4, <2>1, Kinds DEF Shape, DataShape, CallShape
  <2> QED
    BY <1>2, <1>4, <2>1, <2>2
<1>5. CASE t \in Caller /\ t \notin Oneway
  <2>1. pc' = [pc EXCEPT ![t] = "wait"] /\ status' = status
    BY <1>5 DEF Back, Goto
  <2>2. CallShape'
    BY <2>1 DEF Shape, DataShape, CallShape
  <2> QED
    BY <1>2, <1>5, <2>1, <2>2 DEF Own
<1> QED
  BY <1>1, <1>3, <1>4, <1>5

\* active_deref() after the request has been written.
LEMMA ActiveDerefStep ==
  ASSUME Shape, NEW t \in Thread, ActiveDeref(t)
  PROVE  /\ Shape' /\ Only(t) /\ pc[t] = "deref" /\ on[t] \in Conn /\ life[on[t]] = "open"
         /\ Counted(on[t], -1) /\ on'[t] = NoConn
         /\ victim'[t] = victim[t] /\ redo'[t] = redo[t] /\ carries'[t] = carries[t]
         /\ \/ t \in Conn /\ pc'[t] = "pending" /\ status' = status
            \/ /\ t \in Oneway /\ pc'[t] = "done" /\ status'[t] = "returned"
               /\ \A q \in Caller : q # t => status'[q] = status[q]
            \/ t \in Own /\ pc'[t] = "wait" /\ status' = status
         /\ UNCHANGED <<serverVars, outcome, life, refcnt, slots, cacheVars, ids, orb, kept, fault>>
<1>1. /\ pc[t] = "deref" /\ Back(t) /\ UNCHANGED <<victim, redo, carries>>
      /\ SetState(on[t], S!active_deref(state[on[t]]))
      /\ UNCHANGED <<serverVars, outcome, life, refcnt, slots, cacheVars, ids, orb, kept, fault>>
  BY DEF ActiveDeref, At
<1>2. ThreadShape'
  BY InvokeThreads DEF Shape, DataShape
<1>3. on[t] \in Conn /\ on[t] # NoConn /\ pc[t] \in Invoking
  BY <1>1, Sender DEF Shape, HasOn, Sending
<1>4. life[on[t]] = "open"
  BY Usage DEF ActiveDeref, Shape, Sending
<1>5. Counted(on[t], -1) /\ state' \in [Conn -> ConnState]
  BY <1>1, <1>3, RefShape DEF Shape, DataShape
<1>6. /\ Only(t) /\ on'[t] = NoConn
      /\ victim'[t] = victim[t] /\ redo'[t] = redo[t] /\ carries'[t] = carries[t]
      /\ CallShape'
      /\ \/ t \in Conn /\ pc'[t] = "pending" /\ status' = status
         \/ /\ t \in Oneway /\ pc'[t] = "done" /\ status'[t] = "returned"
            /\ \A q \in Caller : q # t => status'[q] = status[q]
         \/ t \in Own /\ pc'[t] = "wait" /\ status' = status
  BY <1>1, <1>3, BackStep
<1>7. DataShape'
  BY <1>1, <1>5, <1>6 DEF Shape, DataShape, serverVars, cacheVars, ServerShape,
     ConnShape, CacheShape, IdShape, RestShape
<1>8. pc'[t] # "idle"
  BY <1>6
<1> QED
  BY <1>1, <1>2, <1>3, <1>4, <1>5, <1>6, <1>7, <1>8, ShapeStep

\* make_conn() fails, and the call with it.
LEMMA NoConnectionStep ==
  ASSUME Shape, NEW t \in Thread, NoConnection(t)
  PROVE  /\ Shape' /\ Only(t) /\ pc[t] = "connect" /\ on'[t] \in {on[t], NoConn}
         /\ victim'[t] = victim[t] /\ redo'[t] = redo[t] /\ carries'[t] = carries[t]
         /\ carries[t] \in Caller
         /\ t \in Conn => pc'[t] = "pending"
         /\ t \in Own => pc'[t] = "wait"
         /\ \/ /\ t \in Oneway /\ pc'[t] = "done" /\ status'[t] = "returned" /\ outcome' = outcome
               /\ \A q \in Caller : q # t => status'[q] = status[q]
            \/ /\ carries[t] \in Own /\ t \notin Oneway
               /\ answer_invoke(carries[t], "COMM_FAILURE")
         /\ UNCHANGED <<serverVars, connVars, cacheVars, ids, orb, kept, fault>>
<1>1. /\ pc[t] = "connect" /\ UNCHANGED <<victim, redo, carries>>
      /\ UNCHANGED <<serverVars, connVars, cacheVars, ids, orb, kept, fault>>
  BY DEF NoConnection
<1>2. ThreadShape'
  BY InvokeThreads DEF Shape, DataShape
<1>3. pc[t] \in Invoking /\ t \in Caller \cup Conn /\ carries[t] \in Caller
      /\ (t \in Caller => carries[t] = t) /\ (t \notin Caller => carries[t] \in Own)
  <2>1. pc[t] \in Invoking
    BY <1>1 DEF Invoking, Early
  <2> QED
    BY <2>1, Invokers DEF Shape
<1>4. CASE t \in Oneway /\ Back(t) /\ UNCHANGED outcome
  <2>1. /\ Only(t) /\ on'[t] = NoConn
        /\ victim'[t] = victim[t] /\ redo'[t] = redo[t] /\ carries'[t] = carries[t]
        /\ CallShape' /\ outcome' = outcome /\ pc'[t] = "done" /\ status'[t] = "returned"
        /\ \A q \in Caller : q # t => status'[q] = status[q]
    BY <1>1, <1>3, <1>4, BackStep, Kinds
  <2>2. DataShape'
    BY <1>1, <2>1 DEF Shape, DataShape, serverVars, connVars, cacheVars, ServerShape,
       ConnShape, CacheShape, IdShape, RestShape
  <2>3. t \notin Conn /\ t \notin Own /\ life' = life
    BY <1>1, <1>4, Kinds DEF connVars
  <2>4. Shape'
    BY <1>1, <1>2, <2>1, <2>2, <2>3, ShapeStep
  <2> QED
    BY <1>1, <1>3, <1>4, <2>1, <2>3, <2>4
<1>5. CASE t \notin Oneway
  <2> DEFINE l == IF t \in Caller THEN "wait" ELSE "pending"
  <2>1. answer_invoke(carries[t], "COMM_FAILURE") /\ Goto(t, l) /\ on' = on
    BY <1>5 DEF NoConnection
  <2>2. pc'[t] = l /\ Only(t) /\ Keeps(t)
    BY <1>1, <2>1, GoesOn DEF Shape
  <2>3. CallShape'
    BY <1>3, <2>1, AnswerShape DEF Shape, DataShape
  <2>4. DataShape'
    BY <1>1, <2>3 DEF Shape, DataShape, serverVars, connVars, cacheVars, ServerShape,
       ConnShape, CacheShape, IdShape, RestShape
  <2>5. /\ t \in Conn => pc'[t] = "pending"
        /\ t \in Own => pc'[t] = "wait"
        /\ pc'[t] # "idle" /\ carries[t] \in Own /\ life' = life
    BY <1>1, <1>3, <1>5, <2>2, Kinds DEF connVars, Own
  <2>6. Shape'
    BY <1>1, <1>2, <2>2, <2>4, <2>5, ShapeStep
  <2> QED
    BY <1>1, <1>3, <1>5, <2>1, <2>2, <2>5, <2>6 DEF Keeps
<1> QED
  BY <1>4, <1>5 DEF NoConnection

\* The server and the network move no thread of the client.
LEMMA PeerStep ==
  ASSUME Shape, NEW c \in Conn,
         Serve(c) \/ Crash(c) \/ \E k \in {"close", "error"} : ServerCloses(c, k)
  PROVE  /\ Shape' /\ peer[c] = "up"
         /\ \A d \in Conn : d # c => /\ peer'[d] = peer[d] /\ requests'[d] = requests[d]
                                     /\ inbox'[d] = inbox[d]
         /\ UNCHANGED <<callVars, connVars, cacheVars, ids, orb, threadVars, kept, fault>>
<1>1. UNCHANGED <<callVars, connVars, cacheVars, ids, orb, threadVars, kept, fault>> /\ peer[c] = "up"
  BY DEF Serve, Crash, ServerCloses
<1>2. ServerShape /\ inbox[c] \in Seq(BackMsg)
  BY DEF Shape, DataShape, ServerShape
<1>3. CASE Serve(c)
  <2>1. PICK q \in requests[c] :
          /\ requests' = [requests EXCEPT ![c] = @ \ {q}]
          /\ executed' = [executed EXCEPT ![q] = @ + 1]
          /\ inbox' = IF q \in Oneway \/ ~Transport(c) THEN inbox
                      ELSE [inbox EXCEPT ![c] = Append(@, [kind |-> "reply", call |-> q])]
    BY <1>3 DEF Serve
  <2>2. q \in Caller
    BY <1>2, <2>1 DEF ServerShape
  <2>3. q \notin Oneway => [kind |-> "reply", call |-> q] \in BackMsg
    BY <2>2 DEF BackMsg
  <2>4. q \notin Oneway => Append(inbox[c], [kind |-> "reply", call |-> q]) \in Seq(BackMsg)
    BY <1>2, <2>3
  <2>5. inbox' \in [Conn -> Seq(BackMsg)] /\ \A d \in Conn : d # c => inbox'[d] = inbox[d]
    BY <1>2, <2>1, <2>4 DEF ServerShape
  <2>6. executed' \in [Caller -> Nat]
    BY <1>2, <2>1, <2>2 DEF ServerShape
  <2>7. requests' \in [Conn -> SUBSET Caller] /\ \A d \in Conn : d # c => requests'[d] = requests[d]
    BY <1>2, <2>1 DEF ServerShape
  <2>8. peer' = peer
    BY <1>3 DEF Serve
  <2>9. ServerShape'
    BY <1>2, <2>5, <2>6, <2>7, <2>8 DEF ServerShape
  <2> QED
    BY <1>1, <2>5, <2>7, <2>8, <2>9 DEF Shape, DataShape, callVars, connVars, cacheVars, threadVars,
       ThreadShape, CallShape, ConnShape, CacheShape, IdShape, RestShape, LifeShape
<1>4. CASE Crash(c) \/ \E k \in {"close", "error"} : ServerCloses(c, k)
  <2>1. PICK i \in Seq(BackMsg) : inbox' = [inbox EXCEPT ![c] = i]
    <3>1. CASE Crash(c)
      <4>1. PICK n \in 0..Len(inbox[c]) : inbox' = [inbox EXCEPT ![c] = SubSeq(@, 1, n)]
        BY <3>1 DEF Crash
      <4>2. SubSeq(inbox[c], 1, n) \in Seq(BackMsg)
        BY <1>2, LenProperties
      <4> QED
        BY <4>1, <4>2
    <3>2. ASSUME NEW k \in {"close", "error"}, ServerCloses(c, k)
          PROVE  \E i \in Seq(BackMsg) : inbox' = [inbox EXCEPT ![c] = i]
      <4>1. inbox' = [inbox EXCEPT ![c] = Append(@, [kind |-> k, call |-> NoCall])]
        BY <3>2 DEF ServerCloses
      <4>2. [kind |-> k, call |-> NoCall] \in BackMsg
        BY DEF BackMsg
      <4>3. Append(inbox[c], [kind |-> k, call |-> NoCall]) \in Seq(BackMsg)
        BY <1>2, <4>2
      <4> QED
        BY <4>1, <4>3
    <3> QED
      BY <1>4, <3>1, <3>2
  <2>2. PICK p \in {"closing", "down"} : peer' = [peer EXCEPT ![c] = p]
    BY <1>4 DEF Crash, ServerCloses
  <2>3. requests' = [requests EXCEPT ![c] = {}] /\ executed' = executed
    BY <1>4 DEF Crash, ServerCloses
  <2>4. /\ ServerShape'
        /\ \A d \in Conn : d # c => /\ peer'[d] = peer[d] /\ requests'[d] = requests[d]
                                    /\ inbox'[d] = inbox[d]
    BY <1>2, <2>1, <2>2, <2>3 DEF ServerShape
  <2> QED
    BY <1>1, <2>4 DEF Shape, DataShape, callVars, connVars, cacheVars, threadVars,
       ThreadShape, CallShape, ConnShape, CacheShape, IdShape, RestShape, LifeShape
<1> QED
  BY <1>3, <1>4

\* The server executes a request and replies.
LEMMA ServeStep ==
  ASSUME Shape, NEW c \in Conn, Serve(c)
  PROVE  \E q \in requests[c] :
           /\ q \in Caller /\ peer' = peer
           /\ requests'[c] = requests[c] \ {q}
           /\ executed'[q] = executed[q] + 1
           /\ \A p \in Caller : p # q => executed'[p] = executed[p]
           /\ IF q \in Oneway \/ ~Transport(c) THEN inbox'[c] = inbox[c]
              ELSE inbox'[c] = Append(inbox[c], [kind |-> "reply", call |-> q])
<1>1. PICK q \in requests[c] :
        /\ requests' = [requests EXCEPT ![c] = @ \ {q}]
        /\ executed' = [executed EXCEPT ![q] = @ + 1]
        /\ inbox' = IF q \in Oneway \/ ~Transport(c) THEN inbox
                    ELSE [inbox EXCEPT ![c] = Append(@, [kind |-> "reply", call |-> q])]
  BY DEF Serve
<1>2. q \in Caller /\ peer' = peer
  BY <1>1 DEF Serve, Shape, DataShape, ServerShape
<1>3. /\ requests'[c] = requests[c] \ {q} /\ executed'[q] = executed[q] + 1
      /\ \A p \in Caller : p # q => executed'[p] = executed[p]
  BY <1>1, <1>2 DEF Shape, DataShape, ServerShape
<1>4. IF q \in Oneway \/ ~Transport(c) THEN inbox'[c] = inbox[c]
      ELSE inbox'[c] = Append(inbox[c], [kind |-> "reply", call |-> q])
  BY <1>1 DEF Shape, DataShape, ServerShape
<1> QED
  BY <1>1, <1>2, <1>3, <1>4

\* The server closes the connection, or dies.
LEMMA CutStep ==
  ASSUME Shape, NEW c \in Conn, Crash(c) \/ \E k \in {"close", "error"} : ServerCloses(c, k)
  PROVE  /\ requests'[c] = {} /\ executed' = executed
         /\ life[c] = "open" /\ state[c].new # 4
         /\ \/ /\ peer'[c] = "down"
               /\ \E n \in 0..Len(inbox[c]) : inbox'[c] = SubSeq(inbox[c], 1, n)
            \/ /\ peer'[c] = "closing"
               /\ \E k \in {"close", "error"} :
                    inbox'[c] = Append(inbox[c], [kind |-> k, call |-> NoCall])
<1>1. requests' = [requests EXCEPT ![c] = {}] /\ executed' = executed /\ Transport(c)
  BY DEF Crash, ServerCloses
<1>2. requests'[c] = {} /\ life[c] = "open" /\ state[c].new # 4
  BY <1>1 DEF Shape, DataShape, ServerShape, Transport, S!Terminated
<1>3. CASE Crash(c)
  <2>1. PICK n \in 0..Len(inbox[c]) : inbox' = [inbox EXCEPT ![c] = SubSeq(@, 1, n)]
    BY <1>3 DEF Crash
  <2>2. peer' = [peer EXCEPT ![c] = "down"]
    BY <1>3 DEF Crash
  <2> DEFINE i == SubSeq(inbox[c], 1, n)
  <2>3. inbox' = [inbox EXCEPT ![c] = i]
    BY <2>1
  <2> HIDE DEF i
  <2>4. inbox'[c] = i /\ peer'[c] = "down"
    BY <2>2, <2>3 DEF Shape, DataShape, ServerShape
  <2> QED
    BY <1>1, <1>2, <2>4 DEF i
<1>4. CASE \E k \in {"close", "error"} : ServerCloses(c, k)
  <2>1. PICK k \in {"close", "error"} :
          inbox' = [inbox EXCEPT ![c] = Append(@, [kind |-> k, call |-> NoCall])]
    BY <1>4 DEF ServerCloses
  <2>2. peer' = [peer EXCEPT ![c] = "closing"]
    BY <1>4 DEF ServerCloses
  <2> DEFINE i == Append(inbox[c], [kind |-> k, call |-> NoCall])
  <2>3. inbox' = [inbox EXCEPT ![c] = i]
    BY <2>1
  <2> HIDE DEF i
  <2>4. inbox'[c] = i /\ peer'[c] = "closing"
    BY <2>2, <2>3 DEF Shape, DataShape, ServerShape
  <2> QED
    BY <1>1, <1>2, <2>4 DEF i
<1> QED
  BY <1>3, <1>4

\* A caller begins.
LEMMA BeginStep ==
  ASSUME Shape, NEW q \in Caller, Begin(q)
  PROVE  /\ Shape' /\ Only(q) /\ Keeps(q) /\ pc[q] = "idle" /\ pc'[q] = "lookup"
         /\ status'[q] = "pending" /\ \A p \in Caller : p # q => status'[p] = status[p]
         /\ UNCHANGED <<serverVars, outcome, connVars, cacheVars, ids, orb, kept, fault>>
<1>1. /\ pc[q] = "idle" /\ Goto(q, "lookup") /\ UNCHANGED <<on, victim, redo, carries>>
      /\ status' = [status EXCEPT ![q] = "pending"] /\ life' = life
      /\ UNCHANGED <<serverVars, outcome, connVars, cacheVars, ids, orb, kept, fault>>
  BY DEF Begin, connVars
<1>2. ThreadShape' /\ pc'[q] = "lookup" /\ Only(q) /\ Keeps(q) /\ q \in Thread /\ q \notin Conn
  BY <1>1, CallerThreads, GoesOn, Kinds DEF Shape
<1>3. /\ status'[q] = "pending" /\ \A p \in Caller : p # q => status'[p] = status[p]
      /\ CallShape'
  BY <1>1 DEF Shape, DataShape, CallShape
<1>4. DataShape'
  BY <1>1, <1>3 DEF Shape, DataShape, serverVars, connVars, cacheVars, ServerShape,
     ConnShape, CacheShape, IdShape, RestShape
<1> QED
  BY <1>1, <1>2, <1>3, <1>4, ShapeStep

\* A caller that has its answer returns.
LEMMA ReturnStep ==
  ASSUME Shape, NEW q \in Caller, Return(q)
  PROVE  /\ Shape' /\ Only(q) /\ Keeps(q) /\ pc[q] = "wait" /\ pc'[q] = "done"
         /\ status[q] = "answered" /\ status'[q] = "returned"
         /\ \A p \in Caller : p # q => status'[p] = status[p]
         /\ UNCHANGED <<serverVars, outcome, connVars, cacheVars, ids, orb, kept, fault>>
<1>1. /\ pc[q] = "wait" /\ Goto(q, "done") /\ UNCHANGED <<on, victim, redo, carries>>
      /\ status' = [status EXCEPT ![q] = "returned"] /\ life' = life /\ status[q] = "answered"
      /\ UNCHANGED <<serverVars, outcome, connVars, cacheVars, ids, orb, kept, fault>>
  BY DEF Return, connVars
<1>2. ThreadShape' /\ pc'[q] = "done" /\ Only(q) /\ Keeps(q) /\ q \in Thread /\ q \notin Conn
  BY <1>1, CallerThreads, GoesOn, Kinds DEF Shape, CallStep
<1>3. /\ status'[q] = "returned" /\ \A p \in Caller : p # q => status'[p] = status[p]
      /\ CallShape'
  BY <1>1 DEF Shape, DataShape, CallShape
<1>4. DataShape'
  BY <1>1, <1>3 DEF Shape, DataShape, serverVars, connVars, cacheVars, ServerShape,
     ConnShape, CacheShape, IdShape, RestShape
<1> QED
  BY <1>1, <1>2, <1>3, <1>4, ShapeStep

\* waitfor() times out: the record goes, without its reference.
LEMMA TimeOutStep ==
  ASSUME Shape, NEW q \in Caller, TimeOut(q)
  PROVE  /\ Shape' /\ q \in Impatient /\ q \in Own /\ pc[q] = "wait" /\ status[q] = "pending"
         /\ ids[q] = [conn |-> ids[q].conn, active |-> TRUE] /\ ids[q].conn \in Conn
         /\ ids'[q] = NoRec /\ \A p \in Caller : p # q => ids'[p] = ids[p]
         /\ kept' = kept \cup {<<q, ids[q].conn>>}
         /\ answer_invoke(q, "TIMEOUT")
         /\ UNCHANGED <<serverVars, connVars, cacheVars, orb, threadVars, fault>>
<1>1. /\ q \in Impatient /\ pc[q] = "wait" /\ status[q] = "pending" /\ ids[q].active
      /\ ids' = [ids EXCEPT ![q] = NoRec]
      /\ kept' = kept \cup {<<q, ids[q].conn>>}
      /\ answer_invoke(q, "TIMEOUT")
      /\ UNCHANGED <<serverVars, connVars, cacheVars, orb, threadVars, fault>>
  BY DEF TimeOut
<1>2. /\ ids[q] = [conn |-> ids[q].conn, active |-> TRUE] /\ q \in Own /\ ids[q].conn \in Conn
  BY <1>1, RecTypes, Kinds DEF Shape, DataShape, Rec
<1>3. IdShape' /\ ids'[q] = NoRec /\ \A p \in Caller : p # q => ids'[p] = ids[p]
  BY <1>1, <1>2, RecShape DEF Shape, DataShape
<1>4. CallShape'
  BY <1>1, AnswerShape DEF Shape, DataShape
<1>5. kept' \subseteq Own \X Conn
  BY <1>1, <1>2 DEF Shape, DataShape, RestShape
<1>6. Shape'
  BY <1>1, <1>3, <1>4, <1>5 DEF Shape, DataShape, serverVars, connVars, cacheVars, threadVars,
     ThreadShape, ServerShape, ConnShape, CacheShape, RestShape, LifeShape
<1> QED
  BY <1>1, <1>2, <1>3, <1>6

\* cancel() pulls the record, unless someone else has it.
LEMMA CancelStep ==
  ASSUME Shape, NEW q \in Caller, Cancel(q)
  PROVE  /\ Shape' /\ Only(q) /\ Keeps(q) /\ q \in Impatient /\ q \in Own /\ pc[q] = "wait"
         /\ status'[q] = "gone" /\ \A p \in Caller : p # q => status'[p] = status[p]
         /\ \A p \in Caller : p # q => ids'[p] = ids[p]
         /\ \/ /\ ids[q] = [conn |-> ids[q].conn, active |-> TRUE] /\ ids[q].conn \in Conn
               /\ ids'[q] = [conn |-> ids[q].conn, active |-> FALSE] /\ pc'[q] = "sendcancel"
            \/ ~ids[q].active /\ ids' = ids /\ pc'[q] = "done"
         /\ UNCHANGED <<serverVars, outcome, connVars, cacheVars, orb, kept, fault>>
<1>1. /\ pc[q] = "wait" /\ UNCHANGED <<on, victim, redo, carries>> /\ q \in Impatient
      /\ status' = [status EXCEPT ![q] = "gone"] /\ life' = life
      /\ UNCHANGED <<serverVars, outcome, connVars, cacheVars, orb, kept, fault>>
  BY DEF Cancel, connVars
<1>2. ThreadShape' /\ q \in Thread /\ q \notin Conn /\ q \in Own
  BY <1>1, CallerThreads, Kinds DEF Shape
<1>3. /\ status'[q] = "gone" /\ \A p \in Caller : p # q => status'[p] = status[p]
      /\ CallShape'
  BY <1>1 DEF Shape, DataShape, CallShape
<1>4. ASSUME IdShape' PROVE DataShape'
  BY <1>1, <1>3, <1>4 DEF Shape, DataShape, serverVars, connVars, cacheVars, ServerShape,
     ConnShape, CacheShape, RestShape
<1>5. CASE ids[q].active
  <2>1. ids' = [ids EXCEPT ![q].active = FALSE] /\ Goto(q, "sendcancel")
    BY <1>5 DEF Cancel
  <2>2. /\ IdShape' /\ ids[q] = [conn |-> ids[q].conn, active |-> TRUE] /\ ids[q].conn \in Conn
        /\ ids'[q] = [conn |-> ids[q].conn, active |-> FALSE]
        /\ \A p \in Caller : p # q => ids'[p] = ids[p]
    BY <1>5, <2>1, PullShape, RecTypes DEF Shape, DataShape
  <2>3. pc'[q] = "sendcancel" /\ Only(q) /\ Keeps(q)
    BY <1>1, <1>2, <2>1, GoesOn DEF Shape
  <2> QED
    BY <1>1, <1>2, <1>3, <1>4, <2>2, <2>3, ShapeStep
<1>6. CASE ~ids[q].active
  <2>1. ids' = ids /\ Goto(q, "done")
    BY <1>6 DEF Cancel
  <2>2. IdShape'
    BY <2>1 DEF Shape, DataShape, IdShape
  <2>3. pc'[q] = "done" /\ Only(q) /\ Keeps(q)
    BY <1>1, <1>2, <2>1, GoesOn DEF Shape
  <2> QED
    BY <1>1, <1>2, <1>3, <1>4, <1>6, <2>1, <2>2, <2>3, ShapeStep
<1> QED
  BY <1>5, <1>6

\* Who cancels a call uses its record.
LEMMA SendCancelStep ==
  ASSUME Shape, NEW q \in Caller, SendCancel(q), ids[q].conn \in Conn
  PROVE  /\ Shape' /\ Only(q) /\ Keeps(q) /\ pc[q] = "sendcancel" /\ pc'[q] = "derefcancel"
         /\ MayClose(ids[q].conn) /\ requests' = requests
         /\ UNCHANGED <<peer, inbox, executed, callVars, life, refcnt, slots, cacheVars, ids, kept, fault>>
<1> DEFINE c == ids[q].conn
<1>1. /\ pc[q] = "sendcancel" /\ Goto(q, "derefcancel") /\ UNCHANGED <<on, victim, redo, carries>>
      /\ output(c, {})
      /\ UNCHANGED <<peer, inbox, executed, callVars, life, refcnt, slots, cacheVars, ids, kept, fault>>
  BY DEF SendCancel, At
<1>2. ThreadShape' /\ pc'[q] = "derefcancel" /\ Only(q) /\ Keeps(q) /\ q \in Thread /\ q \notin Conn
  BY <1>1, CallerThreads, GoesOn, Kinds DEF Shape, CallStep
<1>3. {} \in SUBSET Caller
  OBVIOUS
<1> HIDE DEF c
<1>4. c \in Conn
  BY DEF c
<1>5. /\ state' \in [Conn -> ConnState] /\ orb' \in Seq(OrbMsg)
      /\ requests' \in [Conn -> SUBSET Caller]
      /\ \A d \in Conn : d # c => requests'[d] = requests[d]
      /\ requests'[c] \subseteq requests[c] \cup {}
  BY <1>1, <1>3, <1>4, OutputShape DEF Shape, DataShape
<1>6. MayClose(c)
  BY <1>1, <1>3, <1>4, OutputShape DEF Shape, DataShape, MayClose
<1>7. requests' = requests
  BY <1>1, <1>4 DEF output, Shape, DataShape, ServerShape
<1>8. DataShape'
  BY <1>1, <1>5 DEF Shape, DataShape, callVars, cacheVars, ServerShape, CallShape,
     ConnShape, CacheShape, IdShape, RestShape
<1>9. Shape'
  BY <1>1, <1>2, <1>8, ShapeStep
<1> QED
  BY <1>1, <1>2, <1>6, <1>7, <1>9 DEF c

\* A call that is given up gives its reference back.
LEMMA DerefCancelStep ==
  ASSUME Shape, NEW q \in Caller, DerefCancel(q), ids[q].conn \in Conn
  PROVE  /\ Shape' /\ Only(q) /\ Keeps(q) /\ pc[q] = "derefcancel" /\ pc'[q] = "delcancel"
         /\ deref_conn(ids[q].conn)
         /\ UNCHANGED <<serverVars, callVars, life, state, cacheVars, ids, kept, fault>>
<1>1. /\ pc[q] = "derefcancel" /\ Goto(q, "delcancel") /\ UNCHANGED <<on, victim, redo, carries>>
      /\ deref_conn(ids[q].conn)
      /\ UNCHANGED <<serverVars, callVars, life, state, cacheVars, ids, kept, fault>>
  BY DEF DerefCancel, At
<1>2. ThreadShape' /\ pc'[q] = "delcancel" /\ Only(q) /\ Keeps(q) /\ q \in Thread /\ q \notin Conn
  BY <1>1, CallerThreads, GoesOn, Kinds DEF Shape, CallStep
<1>3. refcnt' \in [Conn -> Nat] /\ orb' \in Seq(OrbMsg) /\ slots' \in Int
  BY <1>1, DerefShape DEF Shape, DataShape
<1>4. DataShape'
  BY <1>1, <1>3 DEF Shape, DataShape, serverVars, callVars, cacheVars, ServerShape, CallShape,
     ConnShape, CacheShape, IdShape, RestShape
<1> QED
  BY <1>1, <1>2, <1>4, ShapeStep

\* A call that is given up deletes its record.
LEMMA DelCancelStep ==
  ASSUME Shape, NEW q \in Caller, DelCancel(q)
  PROVE  /\ Shape' /\ Only(q) /\ Keeps(q) /\ pc[q] = "delcancel" /\ pc'[q] = "done" /\ q \in Own
         /\ ids'[q] = NoRec /\ \A p \in Caller : p # q => ids'[p] = ids[p]
         /\ UNCHANGED <<serverVars, callVars, connVars, cacheVars, orb, kept, fault>>
<1>1. /\ pc[q] = "delcancel" /\ Goto(q, "done") /\ UNCHANGED <<on, victim, redo, carries>>
      /\ ids' = [ids EXCEPT ![q] = NoRec] /\ life' = life
      /\ UNCHANGED <<serverVars, callVars, connVars, cacheVars, orb, kept, fault>>
  BY DEF DelCancel, connVars
<1>2. ThreadShape' /\ pc'[q] = "done" /\ Only(q) /\ Keeps(q) /\ q \in Thread /\ q \notin Conn
  BY <1>1, CallerThreads, GoesOn, Kinds DEF Shape, CallStep
<1>3. q \in Own
  <2>1. Place(q, pc[q], on[q], victim[q], redo[q], carries[q])
    BY <1>2 DEF Shape, ThreadShape
  <2>2. q \notin Oneway
    BY <1>1, <2>1 DEF Place, PcOf, Invoking, Early
  <2> QED
    BY <2>2 DEF Own
<1>4. IdShape' /\ ids'[q] = NoRec /\ \A p \in Caller : p # q => ids'[p] = ids[p]
  BY <1>1, <1>3, RecShape DEF Shape, DataShape
<1>5. DataShape'
  BY <1>1, <1>4 DEF Shape, DataShape, serverVars, callVars, connVars, cacheVars, ServerShape, CallShape,
     ConnShape, CacheShape, RestShape
<1> QED
  BY <1>1, <1>2, <1>3, <1>4, <1>5, ShapeStep

\* The reader of c, which is open.
LEMMA ReaderShape ==
  ASSUME Shape, NEW c \in Conn, Reader(c), Only(c), DataShape', life' = life, pc'[c] # "idle"
  PROVE  Shape'
<1>1. ThreadShape' /\ c \in Thread
  BY ReaderThreads, Kinds DEF Shape, DataShape
<1>2. pc[c] \notin {"idle", "done"}
  BY DEF Reader, Select, LeaveLoop, Read, ReadEnd, Pull, Delete, Answer, GiveBack, Release,
     Closing, At
<1> QED
  BY <1>1, <1>2, ShapeStep

\* What a reader handles.
LEMMA HandledCall ==
  ASSUME Shape, NEW c \in Conn, pc[c] \in Handling
  PROVE  carries[c] \in Own /\ carries[c] \in Caller
<1>1. c \in Thread /\ c \notin Caller /\ Own \subseteq Caller
  BY Kinds
<1>2. Place(c, pc[c], on[c], victim[c], redo[c], carries[c])
  BY <1>1 DEF Shape, ThreadShape
<1> QED
  BY <1>1, <1>2 DEF Place, Handles

\* The reader begins to read, or leaves its loop.
LEMMA SelectStep ==
  ASSUME Shape, NEW c \in Conn, Select(c) \/ LeaveLoop(c)
  PROVE  /\ Shape' /\ Only(c) /\ Keeps(c) /\ pc[c] = "select" /\ life[c] = "open"
         /\ \/ state[c].current = 1 /\ pc'[c] = "reading"
            \/ state[c].current # 1 /\ pc'[c] = "done"
         /\ UNCHANGED <<serverVars, callVars, connVars, cacheVars, ids, orb, kept, fault>>
<1>1. PICK l \in {"reading", "done"} :
        /\ Goto(c, l)
        /\ state[c].current = 1 <=> l = "reading"
        /\ At(c, "select") /\ UNCHANGED <<on, victim, redo, carries>>
        /\ UNCHANGED <<serverVars, callVars, connVars, cacheVars, ids, orb, kept, fault>>
  BY DEF Select, LeaveLoop, S!Active
<1>2. c \in Thread /\ pc[c] = "select" /\ life[c] = "open"
  BY <1>1, Usage, Kinds DEF Shape, Reading
<1>3. pc'[c] = l /\ Only(c) /\ Keeps(c)
  BY <1>1, <1>2, GoesOn DEF Shape
<1>4. DataShape' /\ life' = life
  BY <1>1 DEF Shape, DataShape, serverVars, callVars, connVars, cacheVars, ServerShape, CallShape,
     ConnShape, CacheShape, IdShape, RestShape
<1>5. Shape'
  BY <1>3, <1>4, ReaderShape DEF Reader
<1> QED
  BY <1>1, <1>2, <1>3, <1>5

\* The reader takes a message, and hands it over or drops it.
LEMMA ReadStep ==
  ASSUME Shape, NEW c \in Conn, Read(c)
  PROVE  /\ Shape' /\ Only(c) /\ pc[c] = "reading" /\ life[c] = "open" /\ ~redo[c]
         /\ on'[c] = on[c] /\ victim'[c] = victim[c]
         /\ inbox[c] # <<>> /\ inbox[c] \in Seq(BackMsg) /\ inbox'[c] = Tail(inbox[c])
         /\ \A d \in Conn : d # c => inbox'[d] = inbox[d]
         /\ \/ /\ state[c].current # 1 /\ pc'[c] = "select"
               /\ state' = state /\ carries'[c] = carries[c] /\ redo'[c] = redo[c]
            \/ \E m \in BackMsg :
                 /\ m = Head(inbox[c]) /\ Counted(c, 1)
                 /\ pc'[c] = (IF m.kind = "reply" THEN "pull" ELSE "closing")
                 /\ carries'[c] = m.call /\ redo'[c] = (m.kind = "close")
         /\ UNCHANGED <<peer, requests, executed, callVars, life, refcnt, slots, cacheVars, ids, orb,
                        kept, fault>>
<1> DEFINE m == Head(inbox[c])
<1>1. /\ At(c, "reading") /\ UNCHANGED <<on, victim>> /\ inbox[c] # <<>>
      /\ inbox' = [inbox EXCEPT ![c] = Tail(@)]
      /\ UNCHANGED <<peer, requests, executed, callVars, life, refcnt, slots, cacheVars, ids, orb,
                     kept, fault>>
  BY DEF Read
<1>2. c \in Thread /\ pc[c] = "reading" /\ life[c] = "open" /\ inbox[c] \in Seq(BackMsg)
  BY <1>1, Usage, Kinds DEF Shape, DataShape, ServerShape, Reading
<1>3. m \in BackMsg /\ Tail(inbox[c]) \in Seq(BackMsg)
  BY <1>1, <1>2, HeadTailProperties
<1>4. /\ inbox'[c] = Tail(inbox[c]) /\ \A d \in Conn : d # c => inbox'[d] = inbox[d]
      /\ inbox' \in [Conn -> Seq(BackMsg)]
  <2> DEFINE i == Tail(inbox[c])
  <2>1. inbox' = [inbox EXCEPT ![c] = i] /\ i \in Seq(BackMsg)
    BY <1>1, <1>3
  <2> HIDE DEF i
  <2>2. /\ inbox'[c] = i /\ \A d \in Conn : d # c => inbox'[d] = inbox[d]
        /\ inbox' \in [Conn -> Seq(BackMsg)]
    BY <2>1 DEF Shape, DataShape, ServerShape
  <2> QED
    BY <2>2 DEF i
<1>5. ~redo[c]
  <2>1. Place(c, pc[c], on[c], victim[c], redo[c], carries[c])
    BY <1>2 DEF Shape, ThreadShape
  <2> QED
    BY <1>2, <2>1 DEF Place, KillsAt, Killing, Invoking, Early
<1> HIDE DEF m
<1>6. ASSUME state' \in [Conn -> ConnState] PROVE DataShape'
  BY <1>1, <1>4, <1>6 DEF Shape, DataShape, callVars, cacheVars, ServerShape, CallShape,
     ConnShape, CacheShape, IdShape, RestShape
<1>7. CASE ~S!ActiveRefOK(state[c])
  <2>1. Goto(c, "select") /\ UNCHANGED <<state, carries, redo>> /\ state[c].current # 1
    BY <1>7 DEF Read, S!ActiveRefOK, S!Active
  <2>2. pc'[c] = "select" /\ Only(c) /\ Keeps(c)
    BY <1>1, <1>2, <2>1, GoesOn DEF Shape
  <2>3. DataShape'
    BY <1>6, <2>1 DEF Shape, DataShape, ConnShape
  <2>4. Shape'
    BY <1>1, <2>2, <2>3, ReaderShape DEF Reader
  <2> QED
    BY <1>1, <1>2, <1>4, <1>5, <2>1, <2>2, <2>4 DEF Keeps
<1>8. CASE S!ActiveRefOK(state[c])
  <2> DEFINE l == IF m.kind = "reply" THEN "pull" ELSE "closing"
             r == m.kind = "close"
             q == m.call
  <2>1. /\ SetState(c, S!active_ref(state[c])) /\ Goto(c, l)
        /\ carries' = [carries EXCEPT ![c] = q]
        /\ redo' = [redo EXCEPT ![c] = r]
    BY <1>8 DEF Read, m
  <2>2. Counted(c, 1) /\ state' \in [Conn -> ConnState]
    BY <2>1, RefShape DEF Shape, DataShape
  <2> HIDE DEF q, r
  <2>3. pc'[c] = l /\ carries'[c] = q /\ redo'[c] = r /\ Only(c)
        /\ on'[c] = on[c] /\ victim'[c] = victim[c]
    <3> HIDE DEF l
    <3> QED
      BY <1>1, <1>2, <2>1, Moves DEF Shape, Goto
  <2>4. Shape'
    BY <1>1, <1>6, <2>2, <2>3, ReaderShape DEF Reader
  <2> QED
    BY <1>1, <1>2, <1>3, <1>4, <1>5, <2>2, <2>3, <2>4 DEF m, q, r
<1> QED
  BY <1>7, <1>8

\* The reader has read and goes back to its select().
LEMMA ReadEndStep ==
  ASSUME Shape, NEW c \in Conn, ReadEnd(c)
  PROVE  /\ Shape' /\ Only(c) /\ Keeps(c) /\ pc[c] = "reading" /\ pc'[c] = "select"
         /\ life[c] = "open" /\ MayClose(c)
         /\ UNCHANGED <<serverVars, callVars, life, refcnt, slots, cacheVars, ids, kept, fault>>
<1>1. /\ At(c, "reading") /\ Goto(c, "select") /\ UNCHANGED <<on, victim, redo, carries>>
      /\ close_connection(c) \/ UNCHANGED <<state, orb>>
      /\ UNCHANGED <<serverVars, callVars, life, refcnt, slots, cacheVars, ids, kept, fault>>
  BY DEF ReadEnd
<1>2. c \in Thread /\ pc[c] = "reading" /\ life[c] = "open"
  BY <1>1, Usage, Kinds DEF Shape, Reading
<1>3. pc'[c] = "select" /\ Only(c) /\ Keeps(c)
  BY <1>1, <1>2, GoesOn DEF Shape
<1>4. state' \in [Conn -> ConnState] /\ orb' \in Seq(OrbMsg) /\ MayClose(c)
  <2>1. CASE close_connection(c)
    BY <2>1, CloseShape DEF Shape, DataShape, MayClose
  <2>2. CASE UNCHANGED <<state, orb>>
    BY <2>2 DEF Shape, DataShape, ConnShape, RestShape, MayClose
  <2> QED
    BY <1>1, <2>1, <2>2
<1>5. DataShape'
  BY <1>1, <1>4 DEF Shape, DataShape, serverVars, callVars, cacheVars, ServerShape, CallShape,
     ConnShape, CacheShape, IdShape, RestShape
<1>6. Shape'
  BY <1>1, <1>3, <1>5, ReaderShape DEF Reader
<1> QED
  BY <1>1, <1>2, <1>3, <1>4, <1>6

\* The reader pulls the record of a reply, or finds none.
LEMMA PullStep ==
  ASSUME Shape, NEW c \in Conn, Pull(c)
  PROVE  /\ Shape' /\ Only(c) /\ Keeps(c) /\ pc[c] = "pull" /\ life[c] = "open" /\ carries[c] \in Own
         /\ \A p \in Caller : p # carries[c] => ids'[p] = ids[p]
         /\ \/ /\ ids[carries[c]] = [conn |-> ids[carries[c]].conn, active |-> TRUE]
               /\ ids[carries[c]].conn \in Conn
               /\ ids'[carries[c]] = [conn |-> ids[carries[c]].conn, active |-> FALSE]
               /\ pc'[c] = "delete"
            \/ ~ids[carries[c]].active /\ ids' = ids /\ pc'[c] = "release"
         /\ UNCHANGED <<serverVars, callVars, connVars, cacheVars, orb, kept, fault>>
<1> DEFINE q == carries[c]
<1>1. /\ At(c, "pull") /\ UNCHANGED <<on, victim, redo, carries>>
      /\ IF ids[q].active THEN ids' = [ids EXCEPT ![q].active = FALSE] /\ Goto(c, "delete")
                          ELSE Goto(c, "release") /\ UNCHANGED ids
      /\ UNCHANGED <<serverVars, callVars, connVars, cacheVars, orb, kept, fault>>
  BY DEF Pull
<1>2. c \in Thread /\ pc[c] = "pull" /\ life[c] = "open" /\ q \in Own /\ q \in Caller /\ life' = life
  BY <1>1, Usage, Kinds, HandledCall DEF Shape, Reading, Handling, connVars
<1> HIDE DEF q
<1>3. ASSUME IdShape', Only(c), pc'[c] # "idle" PROVE Shape'
  <2>1. DataShape'
    BY <1>1, <1>3 DEF Shape, DataShape, serverVars, callVars, connVars, cacheVars, ServerShape, CallShape,
       ConnShape, CacheShape, RestShape
  <2> QED
    BY <1>2, <1>3, <2>1, ReaderShape DEF Reader
<1>4. CASE ids[q].active
  <2>1. ids' = [ids EXCEPT ![q].active = FALSE] /\ Goto(c, "delete")
    BY <1>1, <1>4
  <2>2. /\ IdShape' /\ ids[q] = [conn |-> ids[q].conn, active |-> TRUE] /\ ids[q].conn \in Conn
        /\ ids'[q] = [conn |-> ids[q].conn, active |-> FALSE]
        /\ \A p \in Caller : p # q => ids'[p] = ids[p]
    BY <1>2, <1>4, <2>1, PullShape, RecTypes DEF Shape, DataShape
  <2>3. pc'[c] = "delete" /\ Only(c) /\ Keeps(c)
    BY <1>1, <1>2, <2>1, GoesOn DEF Shape
  <2> QED
    BY <1>1, <1>2, <1>3, <2>2, <2>3 DEF q
<1>5. CASE ~ids[q].active
  <2>1. ids' = ids /\ Goto(c, "release")
    BY <1>1, <1>5
  <2>2. IdShape'
    BY <2>1 DEF Shape, DataShape, IdShape
  <2>3. pc'[c] = "release" /\ Only(c) /\ Keeps(c)
    BY <1>1, <1>2, <2>1, GoesOn DEF Shape
  <2> QED
    BY <1>1, <1>2, <1>3, <1>5, <2>1, <2>2, <2>3 DEF q
<1> QED
  BY <1>4, <1>5

\* The reader deletes the record it has pulled.
LEMMA DeleteStep ==
  ASSUME Shape, NEW c \in Conn, Delete(c)
  PROVE  /\ Shape' /\ Only(c) /\ Keeps(c) /\ pc[c] = "delete" /\ pc'[c] = "answer" /\ life[c] = "open"
         /\ carries[c] \in Own /\ ids'[carries[c]] = NoRec
         /\ \A p \in Caller : p # carries[c] => ids'[p] = ids[p]
         /\ UNCHANGED <<serverVars, callVars, connVars, cacheVars, orb, kept, fault>>
<1>1. /\ At(c, "delete") /\ Goto(c, "answer") /\ UNCHANGED <<on, victim, redo, carries>>
      /\ ids' = [ids EXCEPT ![carries[c]] = NoRec] /\ life' = life
      /\ UNCHANGED <<serverVars, callVars, connVars, cacheVars, orb, kept, fault>>
  BY DEF Delete, connVars
<1>2. c \in Thread /\ pc[c] = "delete" /\ life[c] = "open" /\ carries[c] \in Own
  BY <1>1, Usage, Kinds, HandledCall DEF Shape, Reading, Handling
<1>3. pc'[c] = "answer" /\ Only(c) /\ Keeps(c)
  BY <1>1, <1>2, GoesOn DEF Shape
<1>4. /\ IdShape' /\ ids'[carries[c]] = NoRec
      /\ \A p \in Caller : p # carries[c] => ids'[p] = ids[p]
  BY <1>1, <1>2, RecShape DEF Shape, DataShape
<1>5. DataShape'
  BY <1>1, <1>4 DEF Shape, DataShape, serverVars, callVars, connVars, cacheVars, ServerShape, CallShape,
     ConnShape, CacheShape, RestShape
<1>6. Shape'
  BY <1>1, <1>3, <1>5, ReaderShape DEF Reader
<1> QED
  BY <1>1, <1>2, <1>3, <1>4, <1>6

\* The reader gives the call its answer.
LEMMA AnswerStep ==
  ASSUME Shape, NEW c \in Conn, Answer(c)
  PROVE  /\ Shape' /\ Only(c) /\ Keeps(c) /\ pc[c] = "answer" /\ pc'[c] = "giveback" /\ life[c] = "open"
         /\ carries[c] \in Own /\ answer_invoke(carries[c], "reply")
         /\ UNCHANGED <<serverVars, connVars, cacheVars, ids, orb, kept, fault>>
<1>1. /\ At(c, "answer") /\ Goto(c, "giveback") /\ UNCHANGED <<on, victim, redo, carries>>
      /\ answer_invoke(carries[c], "reply") /\ life' = life
      /\ UNCHANGED <<serverVars, connVars, cacheVars, ids, orb, kept, fault>>
  BY DEF Answer, connVars
<1>2. c \in Thread /\ pc[c] = "answer" /\ life[c] = "open" /\ carries[c] \in Own /\ carries[c] \in Caller
  BY <1>1, Usage, Kinds, HandledCall DEF Shape, Reading, Handling
<1>3. pc'[c] = "giveback" /\ Only(c) /\ Keeps(c)
  BY <1>1, <1>2, GoesOn DEF Shape
<1>4. CallShape'
  BY <1>1, <1>2, AnswerShape DEF Shape, DataShape
<1>5. DataShape'
  BY <1>1, <1>4 DEF Shape, DataShape, serverVars, connVars, cacheVars, ServerShape,
     ConnShape, CacheShape, IdShape, RestShape
<1>6. Shape'
  BY <1>1, <1>3, <1>5, ReaderShape DEF Reader
<1> QED
  BY <1>1, <1>2, <1>3, <1>6

\* The reader gives back the reference of the record.
LEMMA GiveBackStep ==
  ASSUME Shape, NEW c \in Conn, GiveBack(c)
  PROVE  /\ Shape' /\ Only(c) /\ Keeps(c) /\ pc[c] = "giveback" /\ pc'[c] = "release" /\ life[c] = "open"
         /\ carries[c] \in Own /\ deref_conn(c)
         /\ UNCHANGED <<serverVars, callVars, life, state, cacheVars, ids, kept, fault>>
<1>1. /\ At(c, "giveback") /\ Goto(c, "release") /\ UNCHANGED <<on, victim, redo, carries>>
      /\ deref_conn(c)
      /\ UNCHANGED <<serverVars, callVars, life, state, cacheVars, ids, kept, fault>>
  BY DEF GiveBack
<1>2. c \in Thread /\ pc[c] = "giveback" /\ life[c] = "open" /\ carries[c] \in Own
  BY <1>1, Usage, Kinds, HandledCall DEF Shape, Reading, Handling
<1>3. pc'[c] = "release" /\ Only(c) /\ Keeps(c)
  BY <1>1, <1>2, GoesOn DEF Shape
<1>4. refcnt' \in [Conn -> Nat] /\ orb' \in Seq(OrbMsg) /\ slots' \in Int
  BY <1>1, DerefShape DEF Shape, DataShape
<1>5. DataShape'
  BY <1>1, <1>4 DEF Shape, DataShape, serverVars, callVars, cacheVars, ServerShape, CallShape,
     ConnShape, CacheShape, IdShape, RestShape
<1>6. Shape'
  BY <1>1, <1>3, <1>5, ReaderShape DEF Reader
<1> QED
  BY <1>1, <1>2, <1>3, <1>6

\* The reader gives back the active reference of a message, and kills the
\* connection when that says so.
LEMMA ReleaseStep ==
  ASSUME Shape, NEW c \in Conn, Release(c) \/ Closing(c)
  PROVE  /\ Shape' /\ Only(c) /\ life[c] = "open" /\ Counted(c, -1)
         /\ on'[c] = on[c] /\ redo'[c] = redo[c]
         /\ \/ /\ pc[c] = "release" /\ pc'[c] = "reading" /\ carries'[c] = NoCall
               /\ victim'[c] = victim[c]
            \/ /\ pc[c] = "closing" /\ pc'[c] = "unlist" /\ carries'[c] = carries[c]
               /\ victim'[c] = c
         /\ UNCHANGED <<serverVars, callVars, life, refcnt, slots, cacheVars, ids, orb, kept, fault>>
<1>1. /\ At(c, "release") \/ At(c, "closing")
      /\ SetState(c, S!active_deref(state[c])) /\ UNCHANGED <<on, redo>>
      /\ UNCHANGED <<serverVars, callVars, life, refcnt, slots, cacheVars, ids, orb, kept, fault>>
  BY DEF Release, Closing
<1>2. c \in Thread /\ life[c] = "open"
  BY <1>1, Usage, Kinds DEF Shape, Reading, Handling
<1>3. Counted(c, -1) /\ state' \in [Conn -> ConnState]
  BY <1>1, RefShape DEF Shape, DataShape
<1>4. DataShape'
  BY <1>1, <1>3 DEF Shape, DataShape, serverVars, callVars, cacheVars, ServerShape, CallShape,
     ConnShape, CacheShape, IdShape, RestShape
<1>5. CASE Release(c)
  <2>1. /\ pc[c] = "release" /\ pc' = [pc EXCEPT ![c] = "reading"]
        /\ carries' = [carries EXCEPT ![c] = NoCall] /\ victim' = victim
    BY <1>5 DEF Release, Goto, At
  <2>2. /\ pc'[c] = "reading" /\ carries'[c] = NoCall /\ victim'[c] = victim[c] /\ Only(c)
        /\ on'[c] = on[c] /\ redo'[c] = redo[c]
    BY <1>1, <1>2, <2>1, Moves DEF Shape
  <2>3. Shape'
    BY <1>1, <1>4, <1>5, <2>2, ReaderShape DEF Reader
  <2> QED
    BY <1>1, <1>2, <1>3, <2>1, <2>2, <2>3
<1>6. CASE Closing(c)
  <2>1. /\ pc[c] = "closing" /\ pc' = [pc EXCEPT ![c] = "unlist"]
        /\ victim' = [victim EXCEPT ![c] = c] /\ carries' = carries
    BY <1>6 DEF Closing, Goto, At
  <2>2. /\ pc'[c] = "unlist" /\ carries'[c] = carries[c] /\ victim'[c] = c /\ Only(c)
        /\ on'[c] = on[c] /\ redo'[c] = redo[c]
    BY <1>1, <1>2, <2>1, Moves DEF Shape
  <2>3. Shape'
    BY <1>1, <1>4, <1>6, <2>2, ReaderShape DEF Reader
  <2> QED
    BY <1>1, <1>2, <1>3, <2>1, <2>2, <2>3
<1> QED
  BY <1>5, <1>6

\* Who kills victim[t], which is open.
LEMMA KillerShape ==
  ASSUME Shape, NEW t \in Thread, kill_conn(t), Only(t), DataShape', life' = life, pc'[t] # "idle" \/ t \notin Conn
  PROVE  Shape'
<1>1. ThreadShape'
  BY KillThreads DEF Shape, DataShape
<1>2. pc[t] \notin {"idle", "done"}
  BY DEF kill_conn, Unlist, Uncache, ShutdownEffective, Join, TerminatedEffective, NextPending,
     Abort, Redo, KillEnd, At
<1> QED
  BY <1>1, <1>2, ShapeStep

\* t is done with its connection
Left(t) == /\ pc'[t] = (IF t \in Conn THEN "select" ELSE IF t = Main THEN "done" ELSE "idle")
           /\ victim'[t] = NoConn /\ ~redo'[t] /\ carries'[t] = NoCall /\ on'[t] = on[t]

\* A thread that leaves holds nothing.
LEMMA LeaveStep ==
  ASSUME ThreadShape, NEW t \in Thread, Leave(t), on' = on
  PROVE  Left(t) /\ Only(t)
<1> DEFINE l == IF t \in Conn THEN "select" ELSE IF t = Main THEN "done" ELSE "idle"
<1>1. /\ pc' = [pc EXCEPT ![t] = l] /\ victim' = [victim EXCEPT ![t] = NoConn]
      /\ redo' = [redo EXCEPT ![t] = FALSE] /\ carries' = [carries EXCEPT ![t] = NoCall]
  BY DEF Leave, Goto
<1>2. /\ pc'[t] = l /\ victim'[t] = NoConn /\ carries'[t] = NoCall
      /\ on'[t] = on[t] /\ Only(t) /\ redo'[t] = FALSE
  <2> HIDE DEF l
  <2> QED
    BY <1>1, Moves
<1> QED
  BY <1>2 DEF Left

\* kill_conn() takes the connection from conns, or finds it gone.
LEMMA UnlistStep ==
  ASSUME Shape, NEW t \in Thread, Unlist(t)
  PROVE  /\ Shape' /\ Only(t) /\ pc[t] = "unlist" /\ victim[t] \in Conn /\ life[victim[t]] = "open"
         /\ \/ conns = victim[t] /\ conns' = NoConn /\ pc'[t] = "uncache" /\ Keeps(t)
            \/ conns # victim[t] /\ conns' = conns /\ Left(t)
         /\ UNCHANGED <<serverVars, callVars, connVars, profconns, active, ids, orb, kept, fault>>
<1>1. /\ At(t, "unlist") /\ on' = on /\ life' = life
      /\ UNCHANGED <<serverVars, callVars, connVars, profconns, active, ids, orb, kept, fault>>
  BY DEF Unlist, connVars
<1>2. pc[t] = "unlist" /\ victim[t] \in Conn /\ life[victim[t]] = "open"
  BY <1>1, Usage DEF Shape, Killing
<1>3. ASSUME conns' \in {conns, NoConn} PROVE DataShape'
  BY <1>1, <1>3 DEF Shape, DataShape, serverVars, callVars, connVars, ServerShape, CallShape,
     ConnShape, CacheShape, IdShape, RestShape
<1>4. CASE conns = victim[t]
  <2>1. conns' = NoConn /\ Goto(t, "uncache") /\ UNCHANGED <<on, victim, redo, carries>>
    BY <1>1, <1>4 DEF Unlist
  <2>2. pc'[t] = "uncache" /\ Only(t) /\ Keeps(t)
    BY <2>1, GoesOn DEF Shape
  <2>3. Shape'
    BY <1>1, <1>3, <2>1, <2>2, KillerShape DEF kill_conn
  <2> QED
    BY <1>1, <1>2, <1>4, <2>1, <2>2, <2>3
<1>5. CASE conns # victim[t]
  <2>1. conns' = conns /\ Leave(t)
    BY <1>5 DEF Unlist
  <2>2. Left(t) /\ Only(t)
    BY <1>1, <2>1, LeaveStep DEF Shape
  <2>3. Shape'
    BY <1>1, <1>3, <2>1, <2>2, KillerShape DEF kill_conn, Left
  <2> QED
    BY <1>1, <1>2, <1>5, <2>1, <2>2, <2>3
<1> QED
  BY <1>4, <1>5


\* kill_conn() takes the connection from the profile cache and gives back the
\* active reference of its entry.
LEMMA UncacheStep ==
  ASSUME Shape, NEW t \in Thread, Uncache(t)
  PROVE  /\ Shape' /\ Only(t) /\ Keeps(t) /\ pc[t] = "uncache" /\ pc'[t] = "shutdown"
         /\ victim[t] \in Conn /\ life[victim[t]] = "open"
         /\ profconns' \in {profconns, NoConn}
         /\ state'[victim[t]].active = state[victim[t]].active - 1
         /\ state'[victim[t]].current = state[victim[t]].current
         /\ state'[victim[t]].new = 3
         /\ \A d \in Conn : d # victim[t] => state'[d] = state[d]
         /\ UNCHANGED <<serverVars, callVars, life, refcnt, slots, conns, active, ids, orb, kept, fault>>
<1> DEFINE c == victim[t]
           s == S!active_deref(state[c])
           b == S!BeginChange(s, 3)
<1>1. /\ At(t, "uncache") /\ Goto(t, "shutdown") /\ UNCHANGED <<on, victim, redo, carries>>
      /\ SetState(c, b) /\ profconns' \in {profconns, NoConn}
      /\ UNCHANGED <<serverVars, callVars, life, refcnt, slots, conns, active, ids, orb, kept, fault>>
  BY DEF Uncache, S!Shutdown
<1>2. pc[t] = "uncache" /\ victim[t] \in Conn /\ life[victim[t]] = "open"
  BY <1>1, Usage DEF Shape, Killing
<1>3. pc'[t] = "shutdown" /\ Only(t) /\ Keeps(t)
  BY <1>1, GoesOn DEF Shape
<1>4. /\ s \in ConnState /\ s.active = state[c].active - 1 /\ s.current = state[c].current
  BY <1>2, StateMethods DEF Shape, DataShape, ConnShape
<1> HIDE DEF s
<1>5. b \in ConnState /\ b.active = s.active /\ b.current = s.current /\ b.new = 3
  BY <1>4, StateMethods
<1> HIDE DEF b, c
<1>6. state' \in [Conn -> ConnState] /\ state'[c] = b /\ \A d \in Conn : d # c => state'[d] = state[d]
  BY <1>1, <1>2, <1>5, SetStateShape DEF Shape, DataShape, c
<1>7. DataShape'
  BY <1>1, <1>6, Kinds DEF Shape, DataShape, serverVars, callVars, ServerShape, CallShape,
     ConnShape, CacheShape, IdShape, RestShape
<1>8. Shape'
  BY <1>1, <1>3, <1>7, KillerShape DEF kill_conn, c
<1> QED
  BY <1>1, <1>2, <1>3, <1>4, <1>5, <1>6, <1>8 DEF c

\* state_change() takes effect.
LEMMA EffectiveStep ==
  ASSUME Shape, NEW t \in Thread, ShutdownEffective(t) \/ TerminatedEffective(t)
  PROVE  /\ Shape' /\ Only(t) /\ Keeps(t)
         /\ \/ pc[t] = "shutdown" /\ pc'[t] = "join"
            \/ pc[t] = "terminated" /\ pc'[t] = "pending"
         /\ victim[t] \in Conn /\ life[victim[t]] = "open"
         /\ state[victim[t]].active = 0
         /\ state'[victim[t]].active = 0
         /\ state'[victim[t]].current = (IF state[victim[t]].new > state[victim[t]].current
                                           THEN state[victim[t]].new ELSE state[victim[t]].current)
         /\ state'[victim[t]].new = state[victim[t]].new
         /\ \A d \in Conn : d # victim[t] => state'[d] = state[d]
         /\ UNCHANGED <<serverVars, callVars, life, refcnt, slots, cacheVars, ids, orb, kept, fault>>
<1> DEFINE c == victim[t]
           e == S!EndChange(state[c])
<1>1. /\ state[c].active = 0 /\ SetState(c, e) /\ UNCHANGED <<on, victim, redo, carries>>
      /\ UNCHANGED <<serverVars, callVars, life, refcnt, slots, cacheVars, ids, orb, kept, fault>>
      /\ \/ At(t, "shutdown") /\ Goto(t, "join")
         \/ At(t, "terminated") /\ Goto(t, "pending")
  BY DEF ShutdownEffective, TerminatedEffective, S!ChangeEffective
<1>2. victim[t] \in Conn /\ life[victim[t]] = "open"
  BY <1>1, Usage DEF Shape, Killing
<1>3. /\ \/ pc[t] = "shutdown" /\ pc'[t] = "join"
         \/ pc[t] = "terminated" /\ pc'[t] = "pending"
      /\ Only(t) /\ Keeps(t)
  BY <1>1, GoesOn DEF Shape, At
<1>4. /\ e \in ConnState /\ e.active = state[c].active /\ e.new = state[c].new
      /\ e.current = (IF state[c].new > state[c].current THEN state[c].new ELSE state[c].current)
  BY <1>2, StateMethods DEF Shape, DataShape, ConnShape
<1> HIDE DEF e, c
<1>6. state' \in [Conn -> ConnState] /\ state'[c] = e /\ \A d \in Conn : d # c => state'[d] = state[d]
  BY <1>1, <1>2, <1>4, SetStateShape DEF Shape, DataShape, c
<1>7. DataShape'
  BY <1>1, <1>6 DEF Shape, DataShape, serverVars, callVars, cacheVars, ServerShape, CallShape,
     ConnShape, CacheShape, IdShape, RestShape
<1>8. Shape'
  BY <1>1, <1>3, <1>7, KillerShape DEF kill_conn
<1> QED
  BY <1>1, <1>2, <1>3, <1>4, <1>6, <1>8 DEF c

\* kill_conn() waits for the reader to end.
LEMMA JoinStep ==
  ASSUME Shape, NEW t \in Thread, Join(t)
  PROVE  /\ Shape' /\ Only(t) /\ Keeps(t) /\ pc[t] = "join" /\ pc'[t] = "terminated"
         /\ victim[t] \in Conn /\ life[victim[t]] = "open"
         /\ t = victim[t] \/ pc[victim[t]] = "done"
         /\ state'[victim[t]].active = state[victim[t]].active
         /\ state'[victim[t]].current = state[victim[t]].current
         /\ state'[victim[t]].new = 4
         /\ \A d \in Conn : d # victim[t] => state'[d] = state[d] /\ inbox'[d] = inbox[d]
         /\ inbox'[victim[t]] = <<>>
         /\ UNCHANGED <<peer, requests, executed, callVars, life, refcnt, slots, cacheVars, ids, orb,
                        kept, fault>>
<1> DEFINE c == victim[t]
           b == S!BeginChange(state[c], 4)
<1>1. /\ At(t, "join") /\ Goto(t, "terminated") /\ UNCHANGED <<on, victim, redo, carries>>
      /\ SetState(c, b) /\ inbox' = [inbox EXCEPT ![c] = <<>>]
      /\ t = victim[t] \/ pc[victim[t]] = "done"
      /\ UNCHANGED <<peer, requests, executed, callVars, life, refcnt, slots, cacheVars, ids, orb,
                     kept, fault>>
  BY DEF Join, S!Terminated
<1>2. pc[t] = "join" /\ victim[t] \in Conn /\ life[victim[t]] = "open"
  BY <1>1, Usage DEF Shape, Killing
<1>3. pc'[t] = "terminated" /\ Only(t) /\ Keeps(t)
  BY <1>1, GoesOn DEF Shape
<1>4. /\ b \in ConnState /\ b.active = state[c].active /\ b.current = state[c].current /\ b.new = 4
  BY <1>2, StateMethods DEF Shape, DataShape, ConnShape
<1> HIDE DEF b, c
<1>5. /\ inbox' \in [Conn -> Seq(BackMsg)] /\ inbox'[c] = <<>>
      /\ \A d \in Conn : d # c => inbox'[d] = inbox[d]
  BY <1>1, <1>2 DEF Shape, DataShape, ServerShape, c
<1>6. state' \in [Conn -> ConnState] /\ state'[c] = b /\ \A d \in Conn : d # c => state'[d] = state[d]
  BY <1>1, <1>2, <1>4, SetStateShape DEF Shape, DataShape, c
<1>7. DataShape'
  BY <1>1, <1>5, <1>6 DEF Shape, DataShape, callVars, cacheVars, ServerShape, CallShape,
     ConnShape, CacheShape, IdShape, RestShape
<1>8. Shape'
  BY <1>1, <1>3, <1>7, KillerShape DEF kill_conn, c
<1> QED
  BY <1>1, <1>2, <1>3, <1>4, <1>5, <1>6, <1>8 DEF c

\* kill_conn() takes up one of the calls that are pending.
LEMMA NextPendingStep ==
  ASSUME Shape, NEW t \in Thread, NextPending(t)
  PROVE  /\ Shape' /\ Only(t) /\ pc[t] = "pending" /\ pc'[t] = (IF redo[t] THEN "redo" ELSE "abort")
         /\ victim[t] \in Conn /\ life[victim[t]] = "open"
         /\ on'[t] = on[t] /\ victim'[t] = victim[t] /\ redo'[t] = redo[t]
         /\ carries'[t] \in Own /\ ids[carries'[t]] = [conn |-> victim[t], active |-> TRUE]
         /\ UNCHANGED <<serverVars, callVars, connVars, cacheVars, ids, orb, kept, fault>>
<1> DEFINE l == IF redo[t] THEN "redo" ELSE "abort"
<1>1. /\ At(t, "pending") /\ UNCHANGED <<on, victim, redo>> /\ pc' = [pc EXCEPT ![t] = l]
      /\ life' = life
      /\ UNCHANGED <<serverVars, callVars, connVars, cacheVars, ids, orb, kept, fault>>
  BY DEF NextPending, Goto, connVars
<1>2. PICK q \in PendingOn(victim[t]) : carries' = [carries EXCEPT ![t] = q]
  BY DEF NextPending
<1>3. pc[t] = "pending" /\ victim[t] \in Conn /\ life[victim[t]] = "open"
  BY <1>1, Usage DEF Shape, Killing
<1>4. q \in Own /\ ids[q] = [conn |-> victim[t], active |-> TRUE]
  BY <1>2, RecTypes DEF PendingOn, Shape, DataShape, Rec
<1>5. /\ pc'[t] = l /\ carries'[t] = q /\ Only(t)
      /\ on'[t] = on[t] /\ victim'[t] = victim[t] /\ redo'[t] = redo[t]
  <2> HIDE DEF l
  <2> QED
    BY <1>1, <1>2, Moves DEF Shape
<1>6. DataShape'
  BY <1>1 DEF Shape, DataShape, serverVars, callVars, connVars, cacheVars, ServerShape, CallShape,
     ConnShape, CacheShape, IdShape, RestShape
<1>7. Shape'
  BY <1>1, <1>5, <1>6, KillerShape DEF kill_conn
<1> QED
  BY <1>1, <1>3, <1>4, <1>5, <1>7

\* kill_conn() aborts or redoes a call whose record it drops.
LEMMA DropStep ==
  ASSUME Shape, NEW t \in Thread, Abort(t) \/ Redo(t)
  PROVE  /\ Shape' /\ Only(t) /\ Keeps(t) /\ victim[t] \in Conn /\ life[victim[t]] = "open"
         /\ carries[t] \in Own
         /\ ids[carries[t]] = [conn |-> ids[carries[t]].conn, active |-> TRUE]
         /\ ids[carries[t]].conn \in Conn
         /\ ids'[carries[t]] = NoRec /\ \A p \in Caller : p # carries[t] => ids'[p] = ids[p]
         /\ kept' = kept \cup {<<carries[t], ids[carries[t]].conn>>}
         /\ \/ pc[t] = "abort" /\ pc'[t] = "pending" /\ ~redo[t] /\ answer_invoke(carries[t], "TRANSIENT")
            \/ /\ pc[t] = "redo" /\ redo[t] /\ t \in Conn /\ UNCHANGED callVars
               /\ pc'[t] = (IF status[carries[t]] = "pending" THEN "lookup" ELSE "pending")
         /\ UNCHANGED <<serverVars, connVars, cacheVars, orb, fault>>
<1> DEFINE q == carries[t]
<1>1. /\ DropRec(t) /\ UNCHANGED <<on, victim, redo, carries>> /\ life' = life
      /\ UNCHANGED <<serverVars, connVars, cacheVars, orb, fault>>
      /\ \/ At(t, "abort") /\ Goto(t, "pending") /\ answer_invoke(q, "TRANSIENT")
         \/ /\ At(t, "redo") /\ UNCHANGED callVars
            /\ Goto(t, IF status[q] = "pending" THEN "lookup" ELSE "pending")
  BY DEF Abort, Redo, connVars
<1>2. /\ victim[t] \in Conn /\ life[victim[t]] = "open" /\ pc[t] \in Killing
  BY <1>1, Usage DEF Shape, Killing
<1>3. /\ q \in Own /\ q \in Caller
      /\ pc[t] = "abort" => ~redo[t]
      /\ pc[t] = "redo" => redo[t] /\ t \in Conn
  BY <1>1, <1>2, KillersOf, Kinds DEF Shape, At
<1>4. ids[q].active /\ ids' = [ids EXCEPT ![q] = NoRec] /\ kept' = kept \cup {<<q, ids[q].conn>>}
  BY <1>1 DEF DropRec
<1> HIDE DEF q
<1>5. ids[q] = [conn |-> ids[q].conn, active |-> TRUE] /\ ids[q].conn \in Conn
  BY <1>3, <1>4, RecTypes DEF Shape, DataShape, Rec
<1>6. IdShape' /\ ids'[q] = NoRec /\ \A p \in Caller : p # q => ids'[p] = ids[p]
  BY <1>3, <1>4, RecShape DEF Shape, DataShape
<1>7. kept' \subseteq Own \X Conn
  BY <1>3, <1>4, <1>5 DEF Shape, DataShape, RestShape
<1>8. CallShape'
  BY <1>1, <1>3, AnswerShape DEF Shape, DataShape, CallShape, callVars
<1>9. DataShape'
  BY <1>1, <1>6, <1>7, <1>8 DEF Shape, DataShape, serverVars, connVars, cacheVars, ServerShape,
     ConnShape, CacheShape, RestShape
<1>10. /\ Only(t) /\ Keeps(t)
       /\ \/ pc[t] = "abort" /\ pc'[t] = "pending" /\ ~redo[t] /\ answer_invoke(q, "TRANSIENT")
          \/ /\ pc[t] = "redo" /\ redo[t] /\ t \in Conn /\ UNCHANGED callVars
             /\ pc'[t] = (IF status[q] = "pending" THEN "lookup" ELSE "pending")
  <2>1. CASE At(t, "abort") /\ Goto(t, "pending") /\ answer_invoke(q, "TRANSIENT")
    BY <1>1, <1>3, <2>1, GoesOn DEF Shape, At
  <2>2. CASE At(t, "redo") /\ UNCHANGED callVars
             /\ Goto(t, IF status[q] = "pending" THEN "lookup" ELSE "pending")
    BY <1>1, <1>3, <2>2, GoesOn DEF Shape, At
  <2> QED
    BY <1>1, <2>1, <2>2 DEF q
<1>11. Shape'
  BY <1>1, <1>9, <1>10, KillerShape DEF kill_conn
<1> QED
  BY <1>1, <1>2, <1>3, <1>4, <1>5, <1>6, <1>10, <1>11 DEF q

\* kill_conn() gives back the own reference of the connection.
LEMMA KillEndStep ==
  ASSUME Shape, NEW t \in Thread, KillEnd(t)
  PROVE  /\ Shape' /\ Only(t) /\ Left(t) /\ pc[t] = "pending"
         /\ victim[t] \in Conn /\ life[victim[t]] = "open" /\ deref_conn(victim[t])
         /\ UNCHANGED <<serverVars, callVars, life, state, cacheVars, ids, kept, fault>>
<1>1. /\ At(t, "pending") /\ Leave(t) /\ on' = on /\ deref_conn(victim[t])
      /\ UNCHANGED <<serverVars, callVars, life, state, cacheVars, ids, kept, fault>>
  BY DEF KillEnd
<1>2. pc[t] = "pending" /\ victim[t] \in Conn /\ life[victim[t]] = "open"
  BY <1>1, Usage DEF Shape, Killing
<1>3. Left(t) /\ Only(t)
  BY <1>1, LeaveStep DEF Shape
<1>4. refcnt' \in [Conn -> Nat] /\ orb' \in Seq(OrbMsg) /\ slots' \in Int
  BY <1>1, <1>2, DerefShape DEF Shape, DataShape
<1>5. DataShape'
  BY <1>1, <1>4 DEF Shape, DataShape, serverVars, callVars, cacheVars, ServerShape, CallShape,
     ConnShape, CacheShape, IdShape, RestShape
<1>6. Shape'
  BY <1>1, <1>3, <1>5, KillerShape DEF kill_conn, Left
<1> QED
  BY <1>1, <1>2, <1>3, <1>6

\* A thread of the ORB pool takes up a CloseConn.
LEMMA TakeCloseStep ==
  ASSUME Shape, NEW o \in OrbWorker, TakeClose(o)
  PROVE  /\ Shape' /\ Only(o) /\ pc[o] = "idle" /\ pc'[o] = "unlist" /\ orb # <<>>
         /\ Head(orb) \in OrbMsg /\ Head(orb).ev = "CloseConn" /\ orb' = Tail(orb)
         /\ victim'[o] = Head(orb).conn /\ ~redo'[o] /\ on'[o] = on[o] /\ carries'[o] = carries[o]
         /\ UNCHANGED <<serverVars, callVars, connVars, cacheVars, ids, kept, fault>>
<1> DEFINE c == Head(orb).conn
           r == FALSE
<1>1. /\ pc[o] = "idle" /\ pc' = [pc EXCEPT ![o] = "unlist"] /\ orb # <<>> /\ Head(orb).ev = "CloseConn"
      /\ orb' = Tail(orb) /\ victim' = [victim EXCEPT ![o] = c]
      /\ redo' = [redo EXCEPT ![o] = r] /\ UNCHANGED <<on, carries>>
      /\ UNCHANGED <<serverVars, callVars, connVars, cacheVars, ids, kept, fault>> /\ life' = life
  BY DEF TakeClose, Goto, connVars
<1>2. Head(orb) \in OrbMsg /\ Tail(orb) \in Seq(OrbMsg)
  BY <1>1, HeadTailProperties DEF Shape, DataShape, RestShape
<1>3. o \in Thread /\ o \notin Conn /\ ThreadShape'
  BY Kinds, PoolThreads DEF Shape, DataShape, Pool
<1> HIDE DEF c, r
<1>4. /\ pc'[o] = "unlist" /\ victim'[o] = c /\ redo'[o] = r /\ Only(o)
      /\ on'[o] = on[o] /\ carries'[o] = carries[o]
  BY <1>1, <1>3 DEF Shape, ThreadShape, Only
<1>5. DataShape'
  BY <1>1, <1>2 DEF Shape, DataShape, serverVars, callVars, connVars, cacheVars, ServerShape, CallShape,
     ConnShape, CacheShape, IdShape, RestShape
<1>6. Shape'
  BY <1>1, <1>3, <1>4, <1>5, ShapeStep
<1> QED
  BY <1>1, <1>2, <1>4, <1>6 DEF c, r

\* A thread of the ORB pool takes up a KillConn and deletes the connection.
LEMMA TakeKillStep ==
  ASSUME Shape, NEW o \in OrbWorker, TakeKill(o)
  PROVE  /\ Shape' /\ orb # <<>> /\ Head(orb) \in OrbMsg /\ Head(orb).ev = "KillConn" /\ orb' = Tail(orb)
         /\ \E c \in Conn : /\ c = Head(orb).conn /\ state[c].current = 4 /\ refcnt[c] = 0
                            /\ pc[c] = "done" /\ life'[c] = "deleted"
                            /\ \A d \in Conn : d # c => life'[d] = life[d]
         /\ UNCHANGED <<serverVars, callVars, state, refcnt, slots, cacheVars, ids, threadVars, kept, fault>>
<1> DEFINE c == Head(orb).conn
<1>1. /\ orb # <<>> /\ Head(orb).ev = "KillConn" /\ orb' = Tail(orb)
      /\ state[c].current = 4 /\ refcnt[c] = 0 /\ pc[c] = "done"
      /\ life' = [life EXCEPT ![c] = "deleted"]
      /\ UNCHANGED <<serverVars, callVars, state, refcnt, slots, cacheVars, ids, threadVars, kept, fault>>
  BY DEF TakeKill, S!Terminated
<1>2. Head(orb) \in OrbMsg /\ Tail(orb) \in Seq(OrbMsg)
  BY <1>1, HeadTailProperties DEF Shape, DataShape, RestShape
<1>3. c \in Conn
  BY <1>2 DEF OrbMsg
<1> HIDE DEF c
<1>4. /\ life' \in [Conn -> {"none", "open", "deleted"}] /\ life'[c] = "deleted"
      /\ \A d \in Conn : d # c => life'[d] = life[d]
  BY <1>1, <1>3 DEF Shape, DataShape, ConnShape
<1>5. ThreadShape' /\ pc' = pc
  BY <1>1 DEF Shape, ThreadShape, threadVars
<1>6. DataShape'
  BY <1>1, <1>2, <1>4 DEF Shape, DataShape, serverVars, callVars, cacheVars, ServerShape, CallShape,
     ConnShape, CacheShape, IdShape, RestShape
<1>7. LifeShape'
  BY <1>1, <1>4, <1>5 DEF Shape, LifeShape
<1>8. Shape'
  BY <1>5, <1>6, <1>7 DEF Shape
<1> QED
  BY <1>1, <1>2, <1>3, <1>4, <1>8 DEF c

\* The ORB is shut down: the connection that is listed is killed.
LEMMA ShutdownStep ==
  ASSUME Shape, Shutdown
  PROVE  /\ Shape' /\ Only(Main) /\ pc[Main] = "idle"
         /\ on'[Main] = on[Main] /\ redo'[Main] = redo[Main] /\ carries'[Main] = carries[Main]
         /\ \/ conns = NoConn /\ pc'[Main] = "done" /\ victim'[Main] = victim[Main]
            \/ conns # NoConn /\ pc'[Main] = "unlist" /\ victim'[Main] = conns
         /\ UNCHANGED <<serverVars, callVars, connVars, cacheVars, ids, orb, kept, fault>>
<1>1. /\ pc[Main] = "idle" /\ UNCHANGED <<on, carries, redo>> /\ life' = life
      /\ UNCHANGED <<serverVars, callVars, connVars, cacheVars, ids, orb, kept, fault>>
      /\ \/ conns = NoConn /\ pc' = [pc EXCEPT ![Main] = "done"] /\ victim' = victim
         \/ /\ conns # NoConn /\ pc' = [pc EXCEPT ![Main] = "unlist"]
            /\ victim' = [victim EXCEPT ![Main] = conns]
  BY DEF Shutdown, Goto, connVars
<1>2. Main \in Thread /\ Main \notin Conn /\ ThreadShape'
  BY Kinds, PoolThreads DEF Shape, DataShape
<1>3. /\ Only(Main)
      /\ on'[Main] = on[Main] /\ redo'[Main] = redo[Main] /\ carries'[Main] = carries[Main]
      /\ \/ conns = NoConn /\ pc'[Main] = "done" /\ victim'[Main] = victim[Main]
         \/ conns # NoConn /\ pc'[Main] = "unlist" /\ victim'[Main] = conns
  <2>1. CASE conns = NoConn /\ pc' = [pc EXCEPT ![Main] = "done"] /\ victim' = victim
    BY <1>1, <1>2, <2>1, Moves DEF Shape
  <2>2. CASE /\ conns # NoConn /\ pc' = [pc EXCEPT ![Main] = "unlist"]
             /\ victim' = [victim EXCEPT ![Main] = conns]
    BY <1>1, <1>2, <2>2, Moves DEF Shape
  <2> QED
    BY <1>1, <2>1, <2>2
<1>4. DataShape'
  BY <1>1 DEF Shape, DataShape, serverVars, callVars, connVars, cacheVars, ServerShape, CallShape,
     ConnShape, CacheShape, IdShape, RestShape
<1>5. Shape'
  BY <1>1, <1>2, <1>3, <1>4, ShapeStep
<1> QED
  BY <1>1, <1>3, <1>5

\* A thread meets what it must not meet, and the fault says which.
LEMMA FailStep ==
  ASSUME Shape, NEW t \in Thread, Fail(t)
  PROVE  /\ Shape' /\ fault' = FaultOf(t) /\ fault' # "none"
         /\ UNCHANGED <<serverVars, callVars, connVars, cacheVars, ids, orb, threadVars, kept>>
<1>1. /\ fault' = FaultOf(t) /\ fault' # "none"
      /\ UNCHANGED <<serverVars, callVars, connVars, cacheVars, ids, orb, threadVars, kept>>
  BY DEF Fail
<1>2. FaultOf(t) \in {"none", "abort", "stale", "late", "overtaken"}
  BY DEF FaultOf
<1>3. DataShape'
  BY <1>1, <1>2 DEF Shape, DataShape, serverVars, callVars, connVars, cacheVars, ServerShape, CallShape,
     ConnShape, CacheShape, IdShape, RestShape
<1> QED
  BY <1>1, <1>3 DEF Shape, ThreadShape, LifeShape, threadVars, connVars

\* What a step is.
LEMMA Steps ==
  ASSUME Next
  PROVE  /\ fault = "none"
         /\ \/ \E c \in Conn : Serve(c) \/ Crash(c) \/ \E k \in {"close", "error"} : ServerCloses(c, k)
            \/ \E c \in Conn : Reader(c)
            \/ \E q \in Caller : Begin(q) \/ CallStep(q) \/ TimeOut(q) \/ Cancel(q)
            \/ \E o \in OrbWorker : Pool(o)
            \/ Shutdown
            \/ \E t \in Thread : invoke(t)
            \/ \E t \in Thread : kill_conn(t)
            \/ \E t \in Thread : Fail(t)
BY DEF Next
=============================================================================
