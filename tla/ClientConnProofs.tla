-------------------------- MODULE ClientConnProofs --------------------------
(***************************************************************************)
(* The invariant of ClientConn and what follows from it, for any number of *)
(* callers and connections.                                                *)
(***************************************************************************)
EXTENDS ClientConnSteps

(***************************************************************************)
(* The invariant.                                                          *)
(***************************************************************************)

\* how far thread t has come with the connection it kills: it gives back the
\* entry, waits for the active references, joins the reader, terminates, and
\* deals with the pending calls, which may mean to send them again
Stage(t, l) ==
  CASE l = "uncache" -> 1
    [] l = "shutdown" -> 2
    [] l = "join" -> 3
    [] l = "terminated" -> 4
    [] l \in {"pending", "abort", "redo"} -> 5
    [] t \in Conn /\ l \in Invoking -> 5
    [] OTHER -> 0
Kills(t, c) == victim[t] = c /\ Stage(t, pc[t]) > 0
Born(c) == life[c] # "none"
Heard == {"reading", "closing"} \cup Handling

\* The next connection is untouched, and no one has a pointer to it.
Unborn(c) == life[c] = "none" =>
  /\ peer[c] = "up" /\ requests[c] = {} /\ inbox[c] = <<>>
  /\ state[c] = S!Fresh /\ refcnt[c] = 0 /\ conns # c /\ profconns # c
  /\ \A q \in Caller : ids[q].conn # c /\ <<q, c>> \notin kept
  /\ \A t \in Thread : on[t] # c /\ victim[t] # c
  /\ \A i \in DOMAIN orb : orb[i].conn # c

\* the state of a connection goes with the stage at which it is killed
Staged(s, x, y) == /\ s = 1 => x \in {1, 2} /\ y = x
                   /\ s = 2 => x \in {1, 2} /\ y = 3
                   /\ s = 3 => x = 3 /\ y = 3
                   /\ s = 4 => x = 3 /\ y = 4
                   /\ s = 5 => x = 4 /\ y = 4

\* A connection is in use while it is listed; then one thread kills it, and
\* that once.  The transport is closed when its reader hears no more.
Phase(c) == Born(c) =>
  /\ \A t, u \in Thread : Kills(t, c) /\ Kills(u, c) => t = u
  /\ conns = c => /\ Staged(1, state[c].current, state[c].new)
                  /\ \A t \in Thread : ~Kills(t, c)
  /\ \A t \in Thread : Kills(t, c) =>
       /\ Staged(Stage(t, pc[t]), state[c].current, state[c].new)
       /\ Stage(t, pc[t]) >= 4 => t = c \/ pc[c] = "done"
  /\ conns # c /\ (\A t \in Thread : ~Kills(t, c)) => Staged(5, state[c].current, state[c].new)
  /\ state[c].new = 4 => pc[c] \notin Heard
  /\ life[c] = "deleted" => conns # c /\ \A t \in Thread : ~Kills(t, c)

\* Its active references are counted, and given back before it is shut down.
Active(c) == Born(c) =>
  /\ state[c].active = Cardinality(ActiveHolders(c)) + (IF Entry(c) THEN 1 ELSE 0)
  /\ state[c].current = 4 => state[c].active = 0
  /\ \A t \in ActiveHolders(c) : t # c => state[c].current <= 2

\* t will leave a record of the call, has given one back, or is about to
Adds(t, q) == pc[t] \in Early /\ carries[t] = q
Answers(t, q) == t \in Conn /\ pc[t] \in {"answer", "giveback"} /\ carries[t] = q
Deletes(t, q) == t \in Conn /\ pc[t] = "delete" /\ carries[t] = q
Has(t, q) == Adds(t, q) \/ Answers(t, q)
Drops(t, q) == pc[t] \in {"abort", "redo"} /\ carries[t] = q
Gone == Cancelling \cup {"delcancel"}

\* One thread has a call, or its record has it; a record that is pulled is
\* deleted by who has pulled it; who is about to drop it finds it active,
\* unless its caller gives it up.
Token(q) ==
  /\ \A t, u \in Thread : Has(t, q) /\ Has(u, q) => t = u
  /\ ids[q] # NoRec => \A t \in Thread : ~Has(t, q)
  /\ \A t \in Conn : Deletes(t, q) => ids[q] = [conn |-> t, active |-> FALSE] /\ pc[q] \notin Gone
  /\ pc[q] \in Gone => ids[q].conn \in Conn /\ ~ids[q].active
  /\ ids[q].conn \in Conn /\ ~ids[q].active => pc[q] \in Gone \/ \E t \in Conn : Deletes(t, q)
  /\ pc[q] = "idle" => ids[q] = NoRec /\ \A t \in Thread \ {q} : carries[t] # q
  /\ \A t \in Thread : Drops(t, q) =>
        \/ ids[q] = [conn |-> victim[t], active |-> TRUE]
        \/ /\ q \in Impatient /\ ~ids[q].active /\ ids[q].conn \in {victim[t], NoConn}
           /\ \A u \in Thread : ~Has(u, q)

\* A record that was dropped with its reference is not made again.
Kept(q, c) == <<q, c>> \in kept =>
  /\ pc[q] # "idle" /\ ids[q].conn # c /\ ~Answers(c, q)
  /\ state[c].current = 4 \/ (ids[q] = NoRec /\ \A t \in Thread : ~Has(t, q))

\* A connection keeps its own reference until it has been killed; who takes
\* the last one says so to the ORB pool, once.
Owned(c) == conns = c \/ \E t \in Thread : Kills(t, c)
KillMsg(c) == [conn |-> c, ev |-> "KillConn"]
Refs(c) == Born(c) =>
  /\ refcnt[c] = Cardinality(HeldRecs(c)) + (IF Owned(c) THEN 1 ELSE 0)
  /\ CountIn(orb, {KillMsg(c)}) = IF refcnt[c] = 0 /\ life[c] = "open" THEN 1 ELSE 0
  /\ life[c] = "deleted" => refcnt[c] = 0
Slots == /\ slots = Cardinality({c \in Conn : refcnt[c] > 0})
         /\ slots <= ConnLimit

\* A call has no result before it is answered, and is answered once.
Outcome(q) ==
  /\ status[q] = "unsent" <=> pc[q] = "idle"
  /\ status[q] = "unsent" => /\ outcome[q] = "none" /\ executed[q] = 0
                             /\ \A c \in Conn : q \notin requests[c]
  /\ status[q] = "pending" => outcome[q] = "none"
  /\ status[q] = "answered" => outcome[q] # "none"
  /\ pc[q] \in Early \/ (q \in Oneway /\ pc[q] \in Invoking) => status[q] = "pending"
  /\ pc[q] \in {"output", "deref", "wait"} => status[q] \in {"pending", "answered"}
  /\ status[q] = "gone" => q \in Impatient
  /\ ids[q].conn \in Conn => outcome[q] = "none"
  /\ \A t \in Thread : Adds(t, q) \/ (Answers(t, q) /\ pc[t] = "answer") => outcome[q] = "none"

\* t will write the request of the call; a reply to it is on its way
Sends(t, q) == pc[t] \in Early \cup {"output"} /\ carries[t] = q
Replied(c, q) == \E i \in DOMAIN inbox[c] : inbox[c][i] = [kind |-> "reply", call |-> q]
Reads(c, q) == pc[c] = "pull" /\ carries[c] = q

\* A call is on its way to one server at most, and executed there.
Once(q) ==
  /\ executed[q] \in {0, 1}
  /\ \A t, u \in Thread : Sends(t, q) /\ Sends(u, q) => t = u
  /\ \A t \in Thread : Sends(t, q) => executed[q] = 0 /\ \A c \in Conn : q \notin requests[c]
  /\ \A c \in Conn : q \in requests[c] =>
       executed[q] = 0 /\ \A d \in Conn : q \in requests[d] => d = c
  /\ ids[q].active =>
       /\ \A t \in Thread : Sends(t, q) => pc[t] = "output" /\ on[t] = ids[q].conn
       /\ \A c \in Conn : q \in requests[c] \/ Replied(c, q) \/ Reads(c, q) => c = ids[q].conn
  /\ \A c \in Conn : Replied(c, q) \/ (pc[c] \in {"pull", "delete", "answer"} /\ carries[c] = q) =>
       executed[q] = 1

\* the reader of c will hear what is in its inbox, or the server has closed
Hears(c) == pc[c] \in Heard \cup {"unlist"} \/ (pc[c] = "select" /\ state[c].current = 1)

\* A server that closes a connection in an orderly way has answered what it
\* has executed, and says so last.
Orderly(c) ==
  /\ peer[c] # "up" => requests[c] = {}
  /\ \A i \in DOMAIN inbox[c] : inbox[c][i].kind # "reply" => i = Len(inbox[c]) /\ peer[c] = "closing"
  /\ pc[c] \in {"closing", "unlist"} => peer[c] = "closing"
  /\ redo[c] => /\ peer[c] = "closing"
                /\ \A q \in Caller : ids[q] = [conn |-> c, active |-> TRUE] => executed[q] = 0
  /\ Hears(c) /\ peer[c] # "down" =>
       \A q \in Caller : ids[q] = [conn |-> c, active |-> TRUE] /\ executed[q] = 1 =>
           Replied(c, q) \/ Reads(c, q)

Parts == /\ \A c \in Conn : Unborn(c) /\ Phase(c) /\ Active(c) /\ Refs(c) /\ Orderly(c)
         /\ \A q \in Own : Token(q)
         /\ \A q \in Caller : Outcome(q) /\ Once(q) /\ \A c \in Conn : Kept(q, c)
         /\ Slots
Inv == Shape /\ Parts
-----------------------------------------------------------------------------
\* The stages, place by place.
LEMMA Stages == \A t, l :
  /\ l = "uncache" => Stage(t, l) = 1
  /\ l = "shutdown" => Stage(t, l) = 2
  /\ l = "join" => Stage(t, l) = 3
  /\ l = "terminated" => Stage(t, l) = 4
  /\ l \in {"pending", "abort", "redo"} \/ (t \in Conn /\ l \in Invoking) => Stage(t, l) = 5
  /\ l \notin Killing \ {"unlist"} /\ (t \in Conn => l \notin Invoking) => Stage(t, l) = 0
  /\ Stage(t, l) \in 0..5
<1> SUFFICES ASSUME NEW t, NEW l
             PROVE  /\ l = "uncache" => Stage(t, l) = 1
                    /\ l = "shutdown" => Stage(t, l) = 2
                    /\ l = "join" => Stage(t, l) = 3
                    /\ l = "terminated" => Stage(t, l) = 4
                    /\ l \in {"pending", "abort", "redo"} \/ (t \in Conn /\ l \in Invoking)
                         => Stage(t, l) = 5
                    /\ l \notin Killing \ {"unlist"} /\ (t \in Conn => l \notin Invoking)
                         => Stage(t, l) = 0
                    /\ Stage(t, l) \in 0..5
  OBVIOUS
<1>1. l \in Killing \cup Invoking <=>
        l \in {"unlist", "uncache", "shutdown", "join", "terminated", "pending", "abort", "redo",
               "lookup", "connect", "cache", "ref", "add", "output", "deref"}
  BY DEF Killing, Invoking, Early
<1>2. l \in Invoking <=> l \in {"lookup", "connect", "cache", "ref", "add", "output", "deref"}
  BY DEF Invoking, Early
<1>3. l \in Killing <=> l \in {"unlist", "uncache", "shutdown", "join", "terminated", "pending",
                               "abort", "redo"}
  BY DEF Killing
<1> QED
  BY <1>1, <1>2, <1>3 DEF Stage

\* A thread that has a stage kills a connection.
LEMMA StageKills ==
  ASSUME ThreadShape, NEW t \in Thread, Stage(t, pc[t]) > 0
  PROVE  /\ victim[t] \in Conn /\ Kills(t, victim[t])
         /\ t \in Conn => victim[t] = t
         /\ pc[t] \in Killing \/ (t \in Conn /\ pc[t] \in Invoking)
<1>1. pc[t] \in Killing \/ (t \in Conn /\ pc[t] \in Invoking)
  BY Stages
<1>2. Place(t, pc[t], on[t], victim[t], redo[t], carries[t])
  BY DEF ThreadShape
<1> QED
  BY <1>1, <1>2, Kinds DEF Place, KillsAt, Kills

-----------------------------------------------------------------------------
(***************************************************************************)
(* What the parts say together.                                            *)
(***************************************************************************)

\* The state of a connection.
LEMMA PhaseStates ==
  ASSUME ConnShape, NEW c \in Conn, Phase(c), Born(c)
  PROVE  /\ state[c].current \in 1..4 /\ state[c].new \in 1..4
         /\ state[c].current = 4 => state[c].new = 4
         /\ state[c].current <= 2 => state[c].new # 4
         /\ state[c].current <= 3 => Owned(c)
         /\ state[c].new = 1 => /\ state[c].current = 1
                                /\ \A t \in Thread : Kills(t, c) => Stage(t, pc[t]) = 1
         /\ conns = c => state[c].current <= 2
         /\ \A t \in Thread : Kills(t, c) /\ Stage(t, pc[t]) = 5 => state[c].current = 4
         /\ ~Owned(c) => state[c].current = 4 /\ state[c].new = 4
<1>1. state[c].current \in 0..4 /\ state[c].new \in 0..4
  BY StateMethods DEF ConnShape
<1>2. CASE conns = c
  BY <1>1, <1>2 DEF Phase, Staged, Owned
<1>3. CASE conns # c /\ \E t \in Thread : Kills(t, c)
  <2>1. PICK t \in Thread : Kills(t, c)
    BY <1>3
  <2>2. \A u \in Thread : Kills(u, c) => u = t
    BY <2>1 DEF Phase
  <2>3. Stage(t, pc[t]) \in 1..5
    BY <2>1, Stages DEF Kills
  <2>4. Staged(Stage(t, pc[t]), state[c].current, state[c].new)
    BY <2>1 DEF Phase
  <2>5. Owned(c)
    BY <2>1 DEF Owned
  <2> HIDE DEF Kills
  <2>6. /\ state[c].current \in 1..4 /\ state[c].new \in 1..4
        /\ state[c].current = 4 => state[c].new = 4
        /\ state[c].current <= 2 => state[c].new # 4
        /\ state[c].new = 1 => state[c].current = 1 /\ Stage(t, pc[t]) = 1
        /\ Stage(t, pc[t]) = 5 => state[c].current = 4
    BY <1>1, <2>3, <2>4 DEF Staged
  <2> QED
    BY <1>3, <2>2, <2>5, <2>6
<1>4. CASE conns # c /\ ~\E t \in Thread : Kills(t, c)
  BY <1>1, <1>4 DEF Phase, Staged, Owned
<1> QED
  BY <1>2, <1>3, <1>4

\* t holds an active reference to c; c holds one for the call q
Holds(t, c) == \/ pc[t] \in Sending /\ on[t] = c
               \/ t = c /\ pc[t] \in Handling \cup {"closing"}
Holder(q, c) == \/ ids[q].conn = c /\ pc[q] # "delcancel"
                \/ pc[c] \in {"answer", "giveback"} /\ carries[c] = q
                \/ <<q, c>> \in kept

\* The threads that hold an active reference to c are finitely many.
LEMMA Holders ==
  ASSUME NEW c \in Conn
  PROVE  /\ ActiveHolders(c) \in SUBSET Thread /\ IsFiniteSet(Thread)
         /\ Cardinality(ActiveHolders(c)) \in Nat
         /\ Cardinality(ActiveHolders(c)) = 0 <=> \A t \in Thread : ~Holds(t, c)
         /\ \A t \in Thread : t \in ActiveHolders(c) <=> Holds(t, c)
         /\ Cardinality(ActiveHolders(c)) <= Cardinality(Thread)
<1>1. IsFiniteSet(Thread)
  <2>1. IsFiniteSet(Caller \cup Conn)
    BY ConstantsAssumption, FS_Union
  <2>2. IsFiniteSet((Caller \cup Conn) \cup OrbWorker)
    BY <2>1, ConstantsAssumption, FS_Union
  <2>3. IsFiniteSet({Main})
    BY FS_Singleton
  <2>4. IsFiniteSet(((Caller \cup Conn) \cup OrbWorker) \cup {Main})
    BY <2>2, <2>3, FS_Union
  <2> QED
    BY <2>4 DEF Thread
<1>2. ActiveHolders(c) \in SUBSET Thread /\ \A t \in Thread : t \in ActiveHolders(c) <=> Holds(t, c)
  BY Kinds DEF ActiveHolders, Holds
<1>3. IsFiniteSet(ActiveHolders(c)) /\ Cardinality(ActiveHolders(c)) <= Cardinality(Thread)
  BY <1>1, <1>2, FS_Subset
<1>4. Cardinality(ActiveHolders(c)) \in Nat
  BY <1>3, FS_CardinalityType
<1>5. Cardinality(ActiveHolders(c)) = 0 <=> ActiveHolders(c) = {}
  BY <1>3, FS_EmptySet
<1> QED
  BY <1>1, <1>2, <1>3, <1>4, <1>5

\* The calls whose records hold a reference to c are finitely many.
LEMMA Records ==
  ASSUME NEW c \in Conn
  PROVE  /\ HeldRecs(c) \in SUBSET Caller /\ IsFiniteSet(Caller)
         /\ Cardinality(HeldRecs(c)) \in Nat
         /\ Cardinality(HeldRecs(c)) = 0 <=> \A q \in Caller : ~Holder(q, c)
         /\ \A q \in Caller : q \in HeldRecs(c) <=> Holder(q, c)
         /\ Cardinality(HeldRecs(c)) <= Cardinality(Caller)
<1>1. HeldRecs(c) \in SUBSET Caller /\ \A q \in Caller : q \in HeldRecs(c) <=> Holder(q, c)
  BY DEF HeldRecs, Holder
<1>2. IsFiniteSet(HeldRecs(c)) /\ Cardinality(HeldRecs(c)) <= Cardinality(Caller)
  BY <1>1, ConstantsAssumption, FS_Subset
<1>3. Cardinality(HeldRecs(c)) \in Nat
  BY <1>2, FS_CardinalityType
<1>4. Cardinality(HeldRecs(c)) = 0 <=> HeldRecs(c) = {}
  BY <1>2, FS_EmptySet
<1> QED
  BY <1>1, <1>2, <1>3, <1>4, ConstantsAssumption

\* A step of one thread, or one that concerns one call, changes a count by one
\* at most.
LEMMA HoldersMove ==
  ASSUME NEW t \in Thread, Only(t), NEW c \in Conn
  PROVE  /\ Cardinality(ActiveHolders(c)') \in Nat
         /\ \A u \in Thread : u \in ActiveHolders(c)' <=> Holds(u, c)'
         /\ Cardinality(ActiveHolders(c)') + (IF Holds(t, c) THEN 1 ELSE 0) =
              Cardinality(ActiveHolders(c)) + (IF Holds(t, c)' THEN 1 ELSE 0)
<1> DEFINE A == ActiveHolders(c)
           B == ActiveHolders(c)'
<1>1. A \in SUBSET Thread /\ IsFiniteSet(Thread) /\ \A u \in Thread : u \in A <=> Holds(u, c)
  BY Holders
<1>2. B \in SUBSET Thread /\ \A u \in Thread : u \in B <=> Holds(u, c)'
  BY Kinds DEF ActiveHolders, Holds
<1>3. \A u \in Thread : u # t => (Holds(u, c) <=> Holds(u, c)')
  BY DEF Only, Holds
<1> HIDE DEF A, B
<1>4. \A u \in Thread : u # t => (u \in A <=> u \in B)
  BY <1>1, <1>2, <1>3
<1>5. /\ Cardinality(B) \in Nat
      /\ Cardinality(B) + (IF t \in A THEN 1 ELSE 0) = Cardinality(A) + (IF t \in B THEN 1 ELSE 0)
  BY <1>1, <1>2, <1>4, MoveCount
<1>6. (t \in A <=> Holds(t, c)) /\ (t \in B <=> Holds(t, c)')
  BY <1>1, <1>2
<1>7. Cardinality(B) + (IF Holds(t, c) THEN 1 ELSE 0) = Cardinality(A) + (IF Holds(t, c)' THEN 1 ELSE 0)
  BY <1>5, <1>6
<1> QED
  BY <1>2, <1>5, <1>7 DEF A, B

\* When the record of one call only changes, so do the references to c.
LEMMA RecordsMove ==
  ASSUME NEW q \in Caller, NEW c \in Conn,
         \A p \in Caller : p # q => (Holder(p, c) <=> Holder(p, c)')
  PROVE  /\ Cardinality(HeldRecs(c)') \in Nat
         /\ \A p \in Caller : p \in HeldRecs(c)' <=> Holder(p, c)'
         /\ Cardinality(HeldRecs(c)') + (IF Holder(q, c) THEN 1 ELSE 0) =
              Cardinality(HeldRecs(c)) + (IF Holder(q, c)' THEN 1 ELSE 0)
<1> DEFINE A == HeldRecs(c)
           B == HeldRecs(c)'
<1>1. A \in SUBSET Caller /\ IsFiniteSet(Caller) /\ \A p \in Caller : p \in A <=> Holder(p, c)
  BY Records
<1>2. B \in SUBSET Caller /\ \A p \in Caller : p \in B <=> Holder(p, c)'
  BY DEF HeldRecs, Holder
<1> HIDE DEF A, B
<1>3. \A p \in Caller : p # q => (p \in A <=> p \in B)
  BY <1>1, <1>2
<1>4. /\ Cardinality(B) \in Nat
      /\ Cardinality(B) + (IF q \in A THEN 1 ELSE 0) = Cardinality(A) + (IF q \in B THEN 1 ELSE 0)
  BY <1>1, <1>2, <1>3, MoveCount
<1>5. (q \in A <=> Holder(q, c)) /\ (q \in B <=> Holder(q, c)')
  BY <1>1, <1>2
<1>6. Cardinality(B) + (IF Holder(q, c) THEN 1 ELSE 0) = Cardinality(A) + (IF Holder(q, c)' THEN 1 ELSE 0)
  BY <1>4, <1>5
<1> QED
  BY <1>2, <1>4, <1>6 DEF A, B

\* Who has a pointer to a connection.
LEMMA BornWhen ==
  ASSUME Shape, NEW c \in Conn, Unborn(c)
  PROVE  /\ life[c] \in {"open", "deleted"} <=> Born(c)
         /\ conns = c \/ profconns = c => Born(c)
         /\ \A t \in Thread : on[t] = c \/ victim[t] = c \/ Holds(t, c) => Born(c)
         /\ \A q \in Caller : ids[q].conn = c \/ Holder(q, c) => Born(c)
         /\ \A i \in DOMAIN orb : orb[i].conn = c => Born(c)
         /\ pc[c] \notin {"idle", "done"} => life[c] = "open"
<1>1. /\ life[c] \in {"none", "open", "deleted"}
      /\ life[c] = "none" <=> pc[c] = "idle"
      /\ life[c] = "deleted" => pc[c] = "done"
  BY DEF Shape, LifeShape, DataShape, ConnShape
<1>2. pc[c] = "idle" => pc[c] \notin Handling \cup {"closing"} /\ pc[c] \notin {"answer", "giveback"}
  BY DEF Handling
<1> QED
  BY <1>1, <1>2 DEF Unborn, Born, Holds, Holder

\* A connection to which someone holds an active reference has its own.
LEMMA InUse ==
  ASSUME Shape, NEW c \in Conn, Unborn(c), Phase(c), Active(c), NEW t \in Thread, Holds(t, c)
  PROVE  /\ Born(c) /\ life[c] = "open" /\ Owned(c)
         /\ state[c].current \in 1..3
         /\ state[c].active > 0
         /\ t # c => state[c].current \in 1..2
         /\ \A u \in Thread : Kills(u, c) => Stage(u, pc[u]) < 5
<1>1. Born(c)
  BY BornWhen
<1>2. /\ Cardinality(ActiveHolders(c)) \in Nat /\ Cardinality(ActiveHolders(c)) # 0
      /\ t \in ActiveHolders(c)
  BY Holders
<1>3. state[c].active = Cardinality(ActiveHolders(c)) + (IF Entry(c) THEN 1 ELSE 0)
  BY <1>1 DEF Active
<1>4. state[c].active > 0
  BY <1>2, <1>3
<1>5. state[c].current # 4 /\ (t # c => state[c].current <= 2)
  BY <1>1, <1>2, <1>4 DEF Active
<1>6. ConnShape
  BY DEF Shape, DataShape
<1>7. /\ state[c].current \in 1..3 /\ Owned(c)
      /\ \A u \in Thread : Kills(u, c) => Stage(u, pc[u]) # 5
  BY <1>1, <1>5, <1>6, PhaseStates
<1>8. life[c] # "deleted"
  BY <1>1, <1>7 DEF Phase, Owned
<1>9. life[c] = "open"
  BY <1>1, <1>8, BornWhen
<1> QED
  BY <1>1, <1>4, <1>5, <1>7, <1>9, Stages

-----------------------------------------------------------------------------
(***************************************************************************)
(* The beginning.                                                          *)
(***************************************************************************)
LEMMA InitShape == Init => Shape
<1> SUFFICES ASSUME Init PROVE Shape
  OBVIOUS
<1>1. ThreadShape
  <2>1. /\ pc \in [Thread -> Pc] /\ carries \in [Thread -> Caller \cup {NoCall}]
        /\ on \in [Thread -> Conn \cup {NoConn}]
        /\ victim \in [Thread -> Conn \cup {NoConn}] /\ redo \in [Thread -> BOOLEAN]
    BY DEF Init, Pc
  <2>2. ASSUME NEW t \in Thread
        PROVE  Place(t, pc[t], on[t], victim[t], redo[t], carries[t])
    <3>1. /\ pc[t] = "idle" /\ on[t] = NoConn /\ victim[t] = NoConn /\ redo[t] = FALSE
          /\ carries[t] = IF t \in Caller THEN t ELSE NoCall
      BY DEF Init
    <3>2. /\ "idle" \in PcOf(t) /\ ~KillsAt(t, "idle") /\ "idle" \notin HasOn
          /\ "idle" \notin Handles /\ "idle" \notin Invoking
      BY DEF PcOf, KillsAt, Killing, HasOn, Sending, Handles, Handling, Invoking, Early
    <3> HIDE DEF PcOf, KillsAt, HasOn, Handles, Invoking
    <3> QED
      BY <3>1, <3>2, Kinds DEF Place
  <2> QED
    BY <2>1, <2>2 DEF ThreadShape
<1>2. DataShape
  <2>1. CallShape /\ CacheShape /\ IdShape
    BY Kinds DEF Init, CallShape, CacheShape, IdShape
  <2>5. ServerShape
    <3>1. <<>> \in Seq(BackMsg)
      OBVIOUS
    <3> QED
      BY <3>1 DEF Init, ServerShape
  <2>2. S!Fresh \in ConnState
    BY DEF S!Fresh, S!Initial, ConnState, S!ExecState
  <2>3. ConnShape
    BY <2>2 DEF Init, ConnShape
  <2>4. RestShape
    BY DEF Init, RestShape
  <2> QED
    BY <2>1, <2>3, <2>4, <2>5 DEF DataShape
<1>3. LifeShape
  BY Kinds DEF Init, LifeShape
<1> QED
  BY <1>1, <1>2, <1>3 DEF Shape

\* The parts of the invariant hold at first.
LEMMA InitParts == Init => Parts
<1> SUFFICES ASSUME Init PROVE Parts
  OBVIOUS
<1>1. /\ \A t \in Thread : pc[t] = "idle" /\ on[t] = NoConn /\ victim[t] = NoConn /\ ~redo[t]
      /\ \A t \in Thread : carries[t] = IF t \in Caller THEN t ELSE NoCall
      /\ \A c \in Conn : /\ life[c] = "none" /\ peer[c] = "up" /\ requests[c] = {} /\ inbox[c] = <<>>
                         /\ state[c] = S!Fresh /\ refcnt[c] = 0
      /\ \A q \in Caller : ids[q] = NoRec /\ status[q] = "unsent" /\ outcome[q] = "none" /\ executed[q] = 0
      /\ conns = NoConn /\ profconns = NoConn /\ orb = <<>> /\ kept = {} /\ slots = 0
  BY DEF Init
<1>2. \A q \in Caller : ids[q].conn = NoConn /\ ~ids[q].active
  BY <1>1 DEF NoRec
<1>3. /\ "idle" \notin Early /\ "idle" \notin Invoking /\ "idle" \notin Gone /\ "idle" \notin Heard
      /\ "idle" \notin Handling /\ "idle" \notin Sending /\ "idle" \notin Killing
  BY DEF Early, Invoking, Gone, Cancelling, Heard, Handling, Sending, Killing
<1>4. \A c \in Conn : Unborn(c) /\ Phase(c) /\ Active(c) /\ Refs(c)
  BY <1>1, <1>2, Kinds DEF Unborn, Phase, Active, Refs, Born
<1>5. \A c \in Conn : Orderly(c)
  BY <1>1, <1>2, <1>3, Kinds DEF Orderly, Hears
<1>6. \A q \in Own : Token(q)
  <2> SUFFICES ASSUME NEW q \in Own PROVE Token(q)
    OBVIOUS
  <2>1. \A t \in Thread : ~Has(t, q) /\ ~Deletes(t, q) /\ ~Drops(t, q)
    BY <1>1, <1>3, Kinds DEF Has, Adds, Answers, Deletes, Drops
  <2>2. q \in Caller /\ q \in Thread /\ q # NoCall
    BY Kinds
  <2>3. \A t \in Thread \ {q} : carries[t] # q
    BY <1>1, <2>2
  <2> QED
    BY <1>1, <1>2, <1>3, <2>1, <2>2, <2>3, Kinds DEF Token
<1>7. \A q \in Caller : Outcome(q)
  BY <1>1, <1>2, <1>3, Kinds DEF Outcome, Adds, Answers
<1>8. \A q \in Caller : Once(q)
  BY <1>1, <1>2, <1>3, Kinds DEF Once, Sends, Replied, Reads
<1>9. \A q \in Caller, c \in Conn : Kept(q, c)
  BY <1>1 DEF Kept
<1>10. Slots
  <2>1. {c \in Conn : refcnt[c] > 0} = {}
    BY <1>1
  <2>2. Cardinality({c \in Conn : refcnt[c] > 0}) = 0
    BY <2>1, FS_EmptySet
  <2>3. ConnLimit \in Nat
    BY ConstantsAssumption
  <2> QED
    BY <1>1, <2>2, <2>3 DEF Slots
<1> QED
  BY <1>4, <1>5, <1>6, <1>7, <1>8, <1>9, <1>10 DEF Parts

-----------------------------------------------------------------------------
(***************************************************************************)
(* Each part holds after each step.                                        *)
(***************************************************************************)
\* What a part can say of the state before a step.
LEMMA Before ==
  ASSUME Inv
  PROVE  /\ Shape /\ ThreadShape /\ DataShape /\ LifeShape /\ ServerShape /\ CallShape /\ ConnShape
         /\ CacheShape /\ IdShape /\ RestShape
         /\ \A c \in Conn : Unborn(c) /\ Phase(c) /\ Active(c) /\ Refs(c) /\ Orderly(c)
         /\ \A q \in Own : Token(q)
         /\ \A q \in Caller : Outcome(q) /\ Once(q) /\ \A c \in Conn : Kept(q, c)
         /\ Slots
BY DEF Inv, Parts, Shape, DataShape

\* A caller that cancels a call has its record.
LEMMA CancelRecord ==
  ASSUME Inv, NEW q \in Caller, pc[q] \in Gone
  PROVE  q \in Own /\ ids[q].conn \in Conn /\ ~ids[q].active
<1>1. Place(q, pc[q], on[q], victim[q], redo[q], carries[q])
  BY Before, Kinds DEF ThreadShape
<1>2. q \in Own
  <2> SUFFICES ASSUME q \in Oneway PROVE FALSE
    BY DEF Own
  <2> QED
    BY <1>1 DEF Place, PcOf, Invoking, Early, Gone, Cancelling
<1> QED
  BY <1>2, Before DEF Token

\* No message for c is queued.
LEMMA OrbKept ==
  ASSUME RestShape, NEW c \in Conn, \A i \in DOMAIN orb : orb[i].conn # c,
         \/ orb' = orb
         \/ orb # <<>> /\ orb' = Tail(orb)
         \/ \E m \in OrbMsg : m.conn # c /\ orb' = Append(orb, m)
  PROVE  \A i \in DOMAIN orb' : orb'[i].conn # c
<1> DEFINE P == {m \in OrbMsg : m.conn = c}
<1>1. orb \in Seq(OrbMsg)
  BY DEF RestShape
<1>2. \A q \in Seq(OrbMsg) : \A i \in DOMAIN q : q[i] \in P <=> q[i].conn = c
  <2> SUFFICES ASSUME NEW q \in Seq(OrbMsg), NEW i \in DOMAIN q PROVE q[i] \in OrbMsg
    OBVIOUS
  <2> QED
    BY LenProperties
<1> HIDE DEF P
<1>3. CountIn(orb, P) = 0
  BY <1>1, <1>2, NoneCount
<1>4. ASSUME NEW q \in Seq(OrbMsg), CountIn(q, P) = 0
      PROVE  \A i \in DOMAIN q : q[i].conn # c
  BY <1>2, <1>4, NoneCount
<1>5. CASE orb # <<>> /\ orb' = Tail(orb)
  <2>1. Tail(orb) \in Seq(OrbMsg)
    BY <1>1, <1>5, HeadTailProperties
  <2>2. CountIn(Tail(orb), P) \in Nat /\ CountIn(orb, P) >= CountIn(Tail(orb), P)
    BY <1>1, <1>5, TailCount
  <2>3. CountIn(Tail(orb), P) = 0
    BY <1>3, <2>2
  <2>4. orb' = Tail(orb)
    BY <1>5
  <2> QED
    BY <1>4, <2>1, <2>3, <2>4
<1>6. CASE \E m \in OrbMsg : m.conn # c /\ orb' = Append(orb, m)
  <2>1. PICK m \in OrbMsg : m.conn # c /\ orb' = Append(orb, m)
    BY <1>6
  <2>2. m \notin P
    BY <2>1 DEF P
  <2>3. Append(orb, m) \in Seq(OrbMsg)
    BY <1>1
  <2>4. CountIn(Append(orb, m), P) = 0
    BY <1>1, <1>3, <2>2, AppendCount
  <2> QED
    BY <1>4, <2>1, <2>3, <2>4
<1> QED
  BY <1>5, <1>6

\* What a step does to a connection that no one has a pointer to.
LEMMA UnbornKept ==
  ASSUME Shape, NEW c \in Conn, Unborn(c), life[c] = "none", NEW t \in Thread, Only(t),
         peer'[c] = "up", requests'[c] = {}, inbox'[c] = <<>>, state'[c] = state[c],
         refcnt'[c] = 0, conns' # c, profconns' # c, on'[t] # c, victim'[t] # c,
         \A q \in Caller : ids'[q].conn # c /\ <<q, c>> \notin kept',
         \/ orb' = orb
         \/ orb # <<>> /\ orb' = Tail(orb)
         \/ \E m \in OrbMsg : m.conn # c /\ orb' = Append(orb, m)
  PROVE  Unborn(c)'
<1>1. \A i \in DOMAIN orb' : orb'[i].conn # c
  BY OrbKept DEF Unborn, Shape, DataShape
<1>2. \A u \in Thread : on'[u] # c /\ victim'[u] # c
  BY DEF Unborn, Only
<1> QED
  BY <1>1, <1>2 DEF Unborn

\* A step leaves a connection that it does not make untouched.
LEMMA UnbornInv ==
  ASSUME Inv, Next, NEW c \in Conn
  PROVE  Unborn(c)'
<1> USE DEF serverVars, callVars, connVars, cacheVars, threadVars
<1>0. Shape /\ Unborn(c)
  BY Before
<1>t. Main \in Thread
  BY Kinds
<1>1. ASSUME NEW d \in Conn, Serve(d) PROVE Unborn(c)'
  <2>1. PICK q \in requests[d] : /\ requests'[d] = requests[d] \ {q}
                                 /\ peer' = peer
    BY <1>0, <1>1, ServeStep
  <2>2. /\ \A e \in Conn : e # d => requests'[e] = requests[e] /\ inbox'[e] = inbox[e]
        /\ UNCHANGED <<callVars, connVars, cacheVars, ids, orb, threadVars, kept, fault>>
    BY <1>0, <1>1, PeerStep
  <2> QED
    BY <1>0, <2>1, <2>2 DEF Unborn
<1>2. ASSUME NEW d \in Conn, Crash(d) \/ \E k \in {"close", "error"} : ServerCloses(d, k)
      PROVE  Unborn(c)'
  <2>1. life[d] = "open"
    BY <1>0, <1>2, CutStep
  <2>2. /\ \A e \in Conn : e # d => /\ peer'[e] = peer[e] /\ requests'[e] = requests[e]
                                    /\ inbox'[e] = inbox[e]
        /\ UNCHANGED <<callVars, connVars, cacheVars, ids, orb, threadVars, kept, fault>>
    BY <1>0, <1>2, PeerStep
  <2> QED
    BY <1>0, <2>1, <2>2 DEF Unborn
<1>3. ASSUME NEW d \in Conn, Reader(d) PROVE Unborn(c)'
  <2>1. CASE Select(d) \/ LeaveLoop(d)
    BY <1>0, <2>1, SelectStep DEF Unborn, Only, Keeps
  <2>2. CASE Read(d)
    BY <1>0, <2>2, ReadStep DEF Unborn, Only, Counted
  <2>3. CASE ReadEnd(d)
    <3>1. /\ life[d] = "open" /\ MayClose(d) /\ Only(d) /\ Keeps(d)
          /\ UNCHANGED <<serverVars, callVars, life, refcnt, slots, cacheVars, ids, kept, fault>>
      BY <1>0, <2>3, ReadEndStep
    <3> QED
      BY <1>0, <3>1, UnbornKept, Kinds DEF Unborn, Keeps, MayClose, OrbMsg
  <2>4. CASE Pull(d)
    <3>1. /\ Only(d) /\ Keeps(d) /\ \A p \in Caller : p # carries[d] => ids'[p] = ids[p]
          /\ UNCHANGED <<serverVars, callVars, connVars, cacheVars, orb, kept, fault>>
          /\ \/ ids'[carries[d]] = [conn |-> ids[carries[d]].conn, active |-> FALSE]
             \/ ids' = ids
      BY <1>0, <2>4, PullStep
    <3>2. \A q \in Caller : ids'[q].conn = ids[q].conn
      BY <3>1
    <3> QED
      BY <1>0, <3>1, <3>2 DEF Unborn, Only, Keeps
  <2>5. CASE Delete(d)
    <3>1. \A q \in Caller : ids'[q].conn \in {NoConn, ids[q].conn}
      BY <1>0, <2>5, DeleteStep DEF NoRec
    <3> QED
      BY <1>0, <2>5, <3>1, DeleteStep, Kinds DEF Unborn, Only, Keeps
  <2>6. CASE Answer(d)
    BY <1>0, <2>6, AnswerStep DEF Unborn, Only, Keeps
  <2>7. CASE GiveBack(d)
    <3>1. /\ life[d] = "open" /\ deref_conn(d) /\ Only(d) /\ Keeps(d)
          /\ UNCHANGED <<serverVars, callVars, life, state, cacheVars, ids, kept, fault>>
      BY <1>0, <2>7, GiveBackStep
    <3>2. /\ \A e \in Conn : e # d => refcnt'[e] = refcnt[e]
          /\ orb' = orb \/ orb' = Append(orb, [conn |-> d, ev |-> "KillConn"])
      BY <1>0, <3>1, DerefShape DEF Shape, DataShape
    <3> QED
      BY <1>0, <3>1, <3>2, UnbornKept, Kinds DEF Unborn, Keeps, OrbMsg
  <2>8. CASE Release(d) \/ Closing(d)
    BY <1>0, <2>8, ReleaseStep DEF Unborn, Only, Counted
  <2> QED
    BY <1>3, <2>1, <2>2, <2>3, <2>4, <2>5, <2>6, <2>7, <2>8 DEF Reader
<1>4. ASSUME NEW q \in Caller, Begin(q) \/ CallStep(q) \/ TimeOut(q) \/ Cancel(q) PROVE Unborn(c)'
  <2>1. CASE Begin(q)
    BY <1>0, <2>1, BeginStep DEF Unborn, Only, Keeps
  <2>2. CASE Return(q)
    BY <1>0, <2>2, ReturnStep DEF Unborn, Only, Keeps
  <2>3. CASE TimeOut(q)
    <3>1. /\ ids[q].conn \in Conn /\ ids'[q] = NoRec /\ \A p \in Caller : p # q => ids'[p] = ids[p]
          /\ kept' = kept \cup {<<q, ids[q].conn>>}
          /\ UNCHANGED <<serverVars, connVars, cacheVars, orb, threadVars, fault>>
      BY <1>0, <2>3, TimeOutStep
    <3>2. ASSUME life[c] = "none", NEW p \in Caller
          PROVE  ids'[p].conn # c /\ <<p, c>> \notin kept'
      BY <1>0, <3>1, <3>2, Kinds DEF Unborn, NoRec
    <3> QED
      BY <1>0, <3>1, <3>2 DEF Unborn
  <2>4. CASE Cancel(q)
    <3>1. /\ Only(q) /\ Keeps(q) /\ \A p \in Caller : p # q => ids'[p] = ids[p]
          /\ ids'[q] = [conn |-> ids[q].conn, active |-> FALSE] \/ ids' = ids
          /\ UNCHANGED <<serverVars, outcome, connVars, cacheVars, orb, kept, fault>>
      BY <1>0, <2>4, CancelStep
    <3>2. \A p \in Caller : ids'[p].conn = ids[p].conn
      BY <3>1
    <3> QED
      BY <1>0, <3>1, <3>2 DEF Unborn, Only, Keeps
  <2>5. CASE SendCancel(q)
    <3>1. ids[q].conn \in Conn
      BY <2>5, CancelRecord DEF SendCancel, At, Gone, Cancelling
    <3>2. /\ Only(q) /\ Keeps(q) /\ MayClose(ids[q].conn) /\ requests' = requests
          /\ UNCHANGED <<peer, inbox, executed, callVars, life, refcnt, slots, cacheVars, ids, kept, fault>>
      BY <1>0, <2>5, <3>1, SendCancelStep
    <3>3. ASSUME life[c] = "none" PROVE ids[q].conn # c /\ on[q] # c /\ victim[q] # c /\ q \in Thread
      BY <1>0, <3>3, Kinds DEF Unborn
    <3> QED
      BY <1>0, <3>1, <3>2, <3>3, UnbornKept DEF Unborn, Keeps, MayClose, OrbMsg
  <2>6. CASE DerefCancel(q)
    <3>1. ids[q].conn \in Conn
      BY <2>6, CancelRecord DEF DerefCancel, At, Gone, Cancelling
    <3>2. /\ Only(q) /\ Keeps(q) /\ deref_conn(ids[q].conn)
          /\ UNCHANGED <<serverVars, callVars, life, state, cacheVars, ids, kept, fault>>
      BY <1>0, <2>6, <3>1, DerefCancelStep
    <3>3. /\ \A e \in Conn : e # ids[q].conn => refcnt'[e] = refcnt[e]
          /\ orb' = orb \/ orb' = Append(orb, [conn |-> ids[q].conn, ev |-> "KillConn"])
      BY <1>0, <3>1, <3>2, DerefShape DEF Shape, DataShape
    <3>4. ASSUME life[c] = "none" PROVE ids[q].conn # c /\ on[q] # c /\ victim[q] # c /\ q \in Thread
      BY <1>0, <3>4, Kinds DEF Unborn
    <3> QED
      BY <1>0, <3>1, <3>2, <3>3, <3>4, UnbornKept DEF Unborn, Keeps, OrbMsg
  <2>7. CASE DelCancel(q)
    <3>1. \A p \in Caller : ids'[p].conn \in {NoConn, ids[p].conn}
      BY <1>0, <2>7, DelCancelStep DEF NoRec
    <3> QED
      BY <1>0, <2>7, <3>1, DelCancelStep, Kinds DEF Unborn, Only, Keeps
  <2> QED
    BY <1>4, <2>1, <2>2, <2>3, <2>4, <2>5, <2>6, <2>7 DEF CallStep
<1>5. ASSUME NEW o \in OrbWorker, Pool(o) PROVE Unborn(c)'
  <2>1. CASE TakeClose(o)
    <3>1. /\ Only(o) /\ orb # <<>> /\ orb' = Tail(orb) /\ victim'[o] = Head(orb).conn /\ on'[o] = on[o]
          /\ UNCHANGED <<serverVars, callVars, connVars, cacheVars, ids, kept, fault>>
      BY <1>0, <2>1, TakeCloseStep
    <3>2. life[c] = "none" => Head(orb).conn # c
      <4>1. 1 \in DOMAIN orb /\ Head(orb) = orb[1]
        BY <1>0, <3>1, HeadTailProperties, LenProperties DEF Shape, DataShape, RestShape
      <4> QED
        BY <1>0, <4>1 DEF Unborn
    <3>3. ASSUME life[c] = "none"
         PROVE  /\ peer'[c] = "up" /\ requests'[c] = {} /\ inbox'[c] = <<>> /\ state'[c] = state[c]
                /\ refcnt'[c] = 0 /\ conns' # c /\ profconns' # c /\ on'[o] # c /\ victim'[o] # c
                /\ \A q \in Caller : ids'[q].conn # c /\ <<q, c>> \notin kept'
      BY <1>0, <3>1, <3>2, <3>3, Kinds DEF Unborn
    <3>4. CASE life[c] = "none"
      BY <1>0, <3>1, <3>3, <3>4, Kinds, UnbornKept
    <3>5. CASE life[c] # "none"
      BY <3>1, <3>2, <3>5 DEF Unborn
    <3> QED
      BY <3>4, <3>5
  <2>2. CASE TakeKill(o)
    <3>1. /\ orb # <<>> /\ orb' = Tail(orb)
          /\ UNCHANGED <<serverVars, callVars, state, refcnt, slots, cacheVars, ids, threadVars, kept, fault>>
          /\ \E d \in Conn : life'[d] = "deleted" /\ \A e \in Conn : e # d => life'[e] = life[e]
      BY <1>0, <2>2, TakeKillStep
    <3>2. life'[c] = "none" => life[c] = "none"
      BY <3>1
    <3>3. Only(Main)
      BY <3>1 DEF Only
    <3>4. ASSUME life[c] = "none"
         PROVE  /\ peer'[c] = "up" /\ requests'[c] = {} /\ inbox'[c] = <<>> /\ state'[c] = state[c]
                /\ refcnt'[c] = 0 /\ conns' # c /\ profconns' # c /\ on'[Main] # c /\ victim'[Main] # c
                /\ \A q \in Caller : ids'[q].conn # c /\ <<q, c>> \notin kept'
      BY <1>0, <3>1, <3>2, <3>4, Kinds DEF Unborn
    <3>5. CASE life[c] = "none"
      BY <1>0, <3>1, <3>3, <3>4, <3>5, Kinds, UnbornKept
    <3>6. CASE life[c] # "none"
      BY <3>1, <3>2, <3>6 DEF Unborn
    <3> QED
      BY <3>5, <3>6
  <2> QED
    BY <1>5, <2>1, <2>2 DEF Pool
<1>6. CASE Shutdown
  BY <1>0, <1>t, <1>6, ShutdownStep DEF Unborn, Only
<1>7. ASSUME NEW t \in Thread, invoke(t) PROVE Unborn(c)'
  <2>1. CASE Lookup(t)
    BY <1>0, <2>1, LookupStep DEF Unborn, Only
  <2>2. CASE FindConn(t) \/ Cache(t)
    BY <1>0, <2>2, FindStep DEF Unborn, Only
  <2>3. CASE NewConn(t)
    BY <1>0, <2>3, NewConnStep DEF Unborn, Only
  <2>4. CASE NoConnection(t)
    BY <1>0, <2>4, NoConnectionStep, Kinds DEF Unborn, Only
  <2>5. CASE Ref(t)
    BY <1>0, <2>5, RefStep DEF Unborn, Only, Keeps, Counted
  <2>6. CASE AddInvoke(t)
    <3>1. /\ Only(t) /\ Keeps(t) /\ on[t] \in Conn /\ life[on[t]] = "open"
          /\ \A d \in Conn : d # on[t] => refcnt'[d] = refcnt[d]
          /\ UNCHANGED <<serverVars, callVars, life, state, slots, cacheVars, orb, kept, fault>>
      BY <1>0, <2>6, AddStep
    <3>3. \/ ids' = ids
          \/ /\ ids'[carries[t]] = [conn |-> on[t], active |-> TRUE]
             /\ \A p \in Caller : p # carries[t] => ids'[p] = ids[p]
      BY <1>0, <2>6, AddStep
    <3>2. \A p \in Caller : ids'[p].conn \in {on[t], ids[p].conn}
      BY <3>3
    <3> QED
      BY <1>0, <3>1, <3>2 DEF Unborn, Only, Keeps
  <2>7. CASE Output(t)
    <3>1. /\ Only(t) /\ Keeps(t) /\ on[t] \in Conn /\ MayClose(on[t])
          /\ \A d \in Conn : d # on[t] => requests'[d] = requests[d]
          /\ UNCHANGED <<peer, inbox, executed, callVars, life, refcnt, slots, cacheVars, ids, kept, fault>>
      BY <1>0, <2>7, OutputStep
    <3> QED
      BY <1>0, <3>1, UnbornKept, Kinds DEF Unborn, Keeps, MayClose, OrbMsg
  <2>8. CASE ActiveDeref(t)
    BY <1>0, <2>8, ActiveDerefStep, Kinds DEF Unborn, Only, Counted
  <2> QED
    BY <1>7, <2>1, <2>2, <2>3, <2>4, <2>5, <2>6, <2>7, <2>8 DEF invoke
<1>8. ASSUME NEW t \in Thread, kill_conn(t) PROVE Unborn(c)'
  <2>1. CASE Unlist(t)
    BY <1>0, <2>1, UnlistStep, Kinds DEF Unborn, Only, Keeps, Left
  <2>2. CASE Uncache(t)
    BY <1>0, <2>2, UncacheStep, Kinds DEF Unborn, Only, Keeps
  <2>3. CASE ShutdownEffective(t) \/ TerminatedEffective(t)
    BY <1>0, <2>3, EffectiveStep DEF Unborn, Only, Keeps
  <2>4. CASE Join(t)
    BY <1>0, <2>4, JoinStep DEF Unborn, Only, Keeps
  <2>5. CASE NextPending(t)
    <3>1. /\ Only(t) /\ on'[t] = on[t] /\ victim'[t] = victim[t]
          /\ UNCHANGED <<serverVars, callVars, connVars, cacheVars, ids, orb, kept, fault>>
      BY <1>0, <2>5, NextPendingStep
    <3> QED
      BY <1>0, <3>1 DEF Unborn, Only
  <2>6. CASE Abort(t) \/ Redo(t)
    <3>1. /\ Only(t) /\ Keeps(t) /\ ids[carries[t]].conn \in Conn /\ carries[t] \in Own
          /\ ids'[carries[t]] = NoRec /\ \A p \in Caller : p # carries[t] => ids'[p] = ids[p]
          /\ kept' = kept \cup {<<carries[t], ids[carries[t]].conn>>}
          /\ UNCHANGED <<serverVars, connVars, cacheVars, orb, fault>>
      BY <1>0, <2>6, DropStep
    <3>2. ASSUME life[c] = "none", NEW p \in Caller
          PROVE  ids'[p].conn # c /\ <<p, c>> \notin kept'
      BY <1>0, <3>1, <3>2, Kinds DEF Unborn, NoRec
    <3> QED
      BY <1>0, <3>1, <3>2 DEF Unborn, Only, Keeps
  <2>7. CASE KillEnd(t)
    <3>1. /\ life[victim[t]] = "open" /\ victim[t] \in Conn /\ deref_conn(victim[t]) /\ Only(t) /\ Left(t)
          /\ UNCHANGED <<serverVars, callVars, life, state, cacheVars, ids, kept, fault>>
      BY <1>0, <2>7, KillEndStep
    <3>2. /\ \A e \in Conn : e # victim[t] => refcnt'[e] = refcnt[e]
          /\ orb' = orb \/ orb' = Append(orb, [conn |-> victim[t], ev |-> "KillConn"])
      BY <1>0, <3>1, DerefShape DEF Shape, DataShape
    <3> QED
      BY <1>0, <3>1, <3>2, UnbornKept, Kinds DEF Unborn, Left, OrbMsg
  <2> QED
    BY <1>8, <2>1, <2>2, <2>3, <2>4, <2>5, <2>6, <2>7 DEF kill_conn
<1>9. ASSUME NEW t \in Thread, Fail(t) PROVE Unborn(c)'
  BY <1>0, <1>9, FailStep DEF Unborn
<1> QED
  BY <1>1, <1>2, <1>3, <1>4, <1>5, <1>6, <1>7, <1>8, <1>9, Steps

\* A step that does not bring the end of a connection nearer.
LEMMA PhaseKept ==
  ASSUME Shape, NEW c \in Conn, Phase(c), NEW t \in Thread, Only(t),
         Stage(t, pc'[t]) = Stage(t, pc[t]), Stage(t, pc[t]) > 0 => victim'[t] = victim[t],
         pc[t] # "done", pc'[t] \in Heard => pc[t] \in Heard \/ state[t].new # 4,
         life'[c] = life[c], conns' = c <=> conns = c,
         \/ state'[c].current = state[c].current /\ state'[c].new = state[c].new
         \/ state[c].new = 1 /\ state'[c].current = 2 /\ state'[c].new = 2
  PROVE  Phase(c)'
<1> SUFFICES ASSUME Born(c) PROVE Phase(c)'
  BY DEF Phase, Born
<1>1. ASSUME NEW u \in Thread
      PROVE  /\ Stage(u, pc'[u]) = Stage(u, pc[u])
             /\ Kills(u, c)' <=> Kills(u, c)
  <2>1. CASE u = t
    BY <2>1 DEF Kills
  <2>2. CASE u # t
    BY <2>2 DEF Kills, Only
  <2> QED
    BY <2>1, <2>2
<1>2. ConnShape
  BY DEF Shape, DataShape
<1>3. \A s \in 0..5 : Staged(s, state[c].current, state[c].new) => Staged(s, state'[c].current, state'[c].new)
  <2>1. state[c].new \in 0..4
    BY <1>2, StateMethods DEF ConnShape
  <2> QED
    BY <2>1 DEF Staged
<1>4. state'[c].new = 4 => state[c].new = 4
  OBVIOUS
<1>5. pc[c] = "done" => pc'[c] = "done"
  BY Kinds DEF Only
<1>6. pc'[c] \in Heard => pc[c] \in Heard \/ state[c].new # 4
  BY Kinds DEF Only
<1> HIDE DEF Kills, Staged, Heard
<1>7. \A u, v \in Thread : Kills(u, c)' /\ Kills(v, c)' => u = v
  BY <1>1 DEF Phase
<1>8. conns' = c => /\ Staged(1, state'[c].current, state'[c].new)
                    /\ \A u \in Thread : ~Kills(u, c)'
  BY <1>1, <1>3 DEF Phase
<1>9. ASSUME NEW u \in Thread, Kills(u, c)'
      PROVE  /\ Staged(Stage(u, pc'[u]), state'[c].current, state'[c].new)
             /\ Stage(u, pc'[u]) >= 4 => u = c \/ pc'[c] = "done"
  BY <1>1, <1>3, <1>5, <1>9, Stages DEF Phase
<1>10. conns' # c /\ (\A u \in Thread : ~Kills(u, c)') => Staged(5, state'[c].current, state'[c].new)
  BY <1>1, <1>3 DEF Phase
<1>11. state'[c].new = 4 => pc'[c] \notin Heard
  BY <1>4, <1>6 DEF Phase
<1>12. life'[c] = "deleted" => conns' # c /\ \A u \in Thread : ~Kills(u, c)'
  BY <1>1 DEF Phase
<1> QED
  BY <1>7, <1>8, <1>9, <1>10, <1>11, <1>12 DEF Phase, Staged

\* A step keeps the state of a connection and the stage of its killer together.
LEMMA PhaseInv ==
  ASSUME Inv, Next, NEW c \in Conn
  PROVE  Phase(c)'
<1> USE DEF serverVars, callVars, connVars, cacheVars, threadVars
<1> DEFINE States == \/ state'[c].current = state[c].current /\ state'[c].new = state[c].new
                     \/ state[c].new = 1 /\ state'[c].current = 2 /\ state'[c].new = 2
           Quiet(t) == /\ Only(t) /\ pc[t] # "done" /\ life'[c] = life[c] /\ (conns' = c <=> conns = c)
                       /\ Stage(t, pc'[t]) = Stage(t, pc[t])
                       /\ Stage(t, pc[t]) > 0 => victim'[t] = victim[t]
                       /\ pc'[t] \in Heard => pc[t] \in Heard \/ state[t].new # 4
<1>0. Shape /\ Unborn(c) /\ Phase(c) /\ ConnShape /\ ThreadShape /\ Active(c) /\ Refs(c)
  BY Before
<1>t. Main \in Thread /\ Main \notin Conn /\ c \in Thread
  BY Kinds
<1>q. ASSUME NEW t \in Thread, Quiet(t), States PROVE Phase(c)'
  BY <1>0, <1>q, PhaseKept
<1>s. /\ state' = state => States
      /\ \A d \in Conn, n \in {1, -1} : Counted(d, n) => States
      /\ \A d \in Conn : MayClose(d) => States
  BY DEF Counted, MayClose
<1>h. Heard = {"reading", "closing", "pull", "delete", "answer", "giveback", "release"}
  BY DEF Heard, Handling
<1>i. /\ Invoking = {"lookup", "connect", "cache", "ref", "add", "output", "deref"}
      /\ Killing = {"unlist", "uncache", "shutdown", "join", "terminated", "pending", "abort", "redo"}
  BY DEF Invoking, Early, Killing
<1> HIDE DEF States
<1>1. ASSUME NEW d \in Conn,
             Serve(d) \/ Crash(d) \/ \E k \in {"close", "error"} : ServerCloses(d, k)
      PROVE  Phase(c)'
  <2>1. UNCHANGED <<callVars, connVars, cacheVars, ids, orb, threadVars, kept, fault>>
    BY <1>0, <1>1, PeerStep
  <2> QED
    BY <1>0, <2>1 DEF Phase, Kills, Born
<1>3. ASSUME NEW d \in Conn, Reader(d) PROVE Phase(c)'
  <2>d. d \in Thread
    BY Kinds
  <2>0. ASSUME NEW l \in Heard \cup {"select", "unlist", "done"} PROVE Stage(d, l) = 0
    BY <1>h, <1>i, Stages
  <2>1. CASE Select(d) \/ LeaveLoop(d)
    <3>1. /\ Only(d) /\ Keeps(d) /\ pc[d] = "select" /\ life[d] = "open" /\ pc'[d] \in {"reading", "done"}
          /\ pc'[d] = "reading" => state[d].current = 1
          /\ UNCHANGED <<connVars, cacheVars>>
      BY <1>0, <2>1, SelectStep
    <3>2. pc'[d] = "reading" => state[d].new # 4
      <4>1. Phase(d) /\ Born(d)
        BY <3>1, Before DEF Born
      <4>2. state[d].current <= 2 => state[d].new # 4
        BY <1>0, <4>1, PhaseStates
      <4> QED
        BY <3>1, <4>2
    <3> QED
      BY <1>h, <1>q, <1>s, <2>0, <2>d, <3>1, <3>2
  <2>2. CASE Read(d)
    <3>1. /\ Only(d) /\ pc[d] = "reading" /\ pc'[d] \in {"select", "pull", "closing"}
          /\ state' = state \/ Counted(d, 1)
          /\ UNCHANGED <<life, refcnt, slots, cacheVars>>
      BY <1>0, <2>2, ReadStep
    <3> QED
      BY <1>h, <1>q, <1>s, <2>0, <2>d, <3>1
  <2>3. CASE ReadEnd(d)
    BY <1>0, <1>h, <1>q, <1>s, <2>0, <2>3, <2>d, ReadEndStep
  <2>4. CASE Pull(d)
    <3>1. /\ Only(d) /\ pc[d] = "pull" /\ pc'[d] \in {"delete", "release"} /\ UNCHANGED <<connVars, cacheVars>>
      BY <1>0, <2>4, PullStep
    <3> QED
      BY <1>h, <1>q, <1>s, <2>0, <2>d, <3>1
  <2>5. CASE Delete(d)
    BY <1>0, <1>h, <1>q, <1>s, <2>0, <2>5, <2>d, DeleteStep
  <2>6. CASE Answer(d)
    BY <1>0, <1>h, <1>q, <1>s, <2>0, <2>6, <2>d, AnswerStep
  <2>7. CASE GiveBack(d)
    BY <1>0, <1>h, <1>q, <1>s, <2>0, <2>7, <2>d, GiveBackStep
  <2>8. CASE Release(d) \/ Closing(d)
    BY <1>0, <1>h, <1>q, <1>s, <2>0, <2>8, <2>d, ReleaseStep
  <2> QED
    BY <1>3, <2>1, <2>2, <2>3, <2>4, <2>5, <2>6, <2>7, <2>8 DEF Reader
<1>4. ASSUME NEW q \in Caller, Begin(q) \/ CallStep(q) \/ TimeOut(q) \/ Cancel(q) PROVE Phase(c)'
  <2>d. q \in Thread /\ q \notin Conn
    BY Kinds
  <2>0. ASSUME NEW l, l \notin Killing \ {"unlist"} PROVE Stage(q, l) = 0
    BY <2>0, <2>d, Stages
  <2>1. CASE Begin(q)
    BY <1>0, <1>h, <1>i, <1>q, <1>s, <2>0, <2>1, <2>d, BeginStep
  <2>2. CASE Return(q)
    BY <1>0, <1>h, <1>i, <1>q, <1>s, <2>0, <2>2, <2>d, ReturnStep
  <2>3. CASE TimeOut(q)
    <3>1. UNCHANGED <<connVars, cacheVars, threadVars>>
      BY <1>0, <2>3, TimeOutStep
    <3> QED
      BY <1>0, <3>1 DEF Phase, Kills, Born
  <2>4. CASE Cancel(q)
    <3>1. /\ Only(q) /\ pc[q] = "wait" /\ pc'[q] \in {"sendcancel", "done"} /\ UNCHANGED <<connVars, cacheVars>>
      BY <1>0, <2>4, CancelStep
    <3> QED
      BY <1>h, <1>i, <1>q, <1>s, <2>0, <2>d, <3>1
  <2>5. CASE SendCancel(q)
    <3>1. ids[q].conn \in Conn
      BY <2>5, CancelRecord DEF SendCancel, At, Gone, Cancelling
    <3> QED
      BY <1>0, <1>h, <1>i, <1>q, <1>s, <2>0, <2>5, <2>d, <3>1, SendCancelStep
  <2>6. CASE DerefCancel(q)
    <3>1. ids[q].conn \in Conn
      BY <2>6, CancelRecord DEF DerefCancel, At, Gone, Cancelling
    <3> QED
      BY <1>0, <1>h, <1>i, <1>q, <1>s, <2>0, <2>6, <2>d, <3>1, DerefCancelStep
  <2>7. CASE DelCancel(q)
    BY <1>0, <1>h, <1>i, <1>q, <1>s, <2>0, <2>7, <2>d, DelCancelStep
  <2> QED
    BY <1>4, <2>1, <2>2, <2>3, <2>4, <2>5, <2>6, <2>7 DEF CallStep
<1>5. ASSUME NEW o \in OrbWorker, Pool(o) PROVE Phase(c)'
  <2>d. o \in Thread /\ o \notin Conn
    BY Kinds
  <2>1. CASE TakeClose(o)
    <3>1. Stage(o, "idle") = 0 /\ Stage(o, "unlist") = 0
      BY <1>i, <2>d, Stages
    <3> QED
      BY <1>0, <1>h, <1>q, <1>s, <2>1, <2>d, <3>1, TakeCloseStep
  <2>2. CASE TakeKill(o)
    <3>1. UNCHANGED <<serverVars, callVars, state, refcnt, slots, cacheVars, ids, threadVars, kept, fault>>
      BY <1>0, <2>2, TakeKillStep
    <3>2. PICK d \in Conn : /\ refcnt[d] = 0 /\ pc[d] = "done" /\ life'[d] = "deleted"
                            /\ \A e \in Conn : e # d => life'[e] = life[e]
      BY <1>0, <2>2, TakeKillStep
    <3>3. CASE c = d
      <4>1. Born(c)
        BY <1>0, <3>2, <3>3 DEF Born, Shape, LifeShape
      <4>2. ~Owned(c)
        <5>1. refcnt[c] = Cardinality(HeldRecs(c)) + (IF Owned(c) THEN 1 ELSE 0)
          BY <1>0, <4>1 DEF Refs
        <5>2. Cardinality(HeldRecs(c)) \in Nat
          BY Records
        <5> QED
          BY <3>2, <3>3, <5>1, <5>2
      <4> QED
        BY <1>0, <3>1, <4>1, <4>2 DEF Phase, Kills, Born, Owned
    <3>4. CASE c # d
      BY <1>0, <3>1, <3>2, <3>4 DEF Phase, Kills, Born
    <3> QED
      BY <3>3, <3>4
  <2> QED
    BY <1>5, <2>1, <2>2 DEF Pool
<1>6. CASE Shutdown
  <2>1. \A l \in {"idle", "unlist", "done"} : Stage(Main, l) = 0
    BY <1>i, <1>t, Stages
  <2> QED
    BY <1>0, <1>6, <1>h, <1>q, <1>s, <1>t, <2>1, ShutdownStep
<1>7. ASSUME NEW t \in Thread, invoke(t) PROVE Phase(c)'
  <2>0. /\ \A l \in Invoking \cup {"pending"} : t \in Conn => Stage(t, l) = 5
        /\ \A l \in Invoking \cup {"wait", "done"} : t \notin Conn => Stage(t, l) = 0
    BY <1>i, Stages
  <2>1. CASE Lookup(t)
    <3>1. /\ Only(t) /\ pc[t] = "lookup" /\ pc'[t] \in {"ref", "connect"} /\ victim'[t] = victim[t]
          /\ UNCHANGED <<connVars, conns>>
      BY <1>0, <2>1, LookupStep
    <3> QED
      BY <1>h, <1>i, <1>q, <1>s, <2>0, <3>1
  <2>2. CASE FindConn(t) \/ Cache(t)
    <3>1. /\ Only(t) /\ pc[t] \in {"connect", "cache"} /\ pc'[t] \in {"cache", "ref"} /\ victim'[t] = victim[t]
          /\ UNCHANGED <<connVars, conns>>
      BY <1>0, <2>2, FindStep
    <3> QED
      BY <1>h, <1>i, <1>q, <1>s, <2>0, <3>1
  <2>3. CASE NewConn(t)
    <3> DEFINE n == conns'
    <3>1. /\ n \in Conn /\ n # t /\ conns = NoConn /\ life[n] = "none" /\ life'[n] = "open"
          /\ pc[t] = "connect" /\ pc'[t] = "cache" /\ pc[n] = "idle" /\ pc'[n] = "select"
          /\ \A u \in Thread : u # t /\ u # n => pc'[u] = pc[u]
          /\ \A d \in Conn : d # n => life'[d] = life[d] /\ state'[d] = state[d]
          /\ victim' = victim
      BY <1>0, <2>3, NewConnStep
    <3>2. state'[n].new = 1 /\ (state[n].current = 0 => state'[n].current = 1)
      BY <1>0, <2>3, NewConnStep
    <3>3. /\ \A u \in Thread : victim[u] # n
          /\ state[n].current = 0
      <4>1. Unborn(n)
        BY <3>1, Before
      <4> QED
        BY <3>1, <4>1 DEF Unborn, S!Fresh, S!Initial
    <3> HIDE DEF n
    <3>4. CASE c = n
      <4>1. \A u \in Thread : ~Kills(u, c)'
        BY <3>1, <3>3, <3>4 DEF Kills
      <4>2. conns' = n /\ pc'[c] \notin Heard /\ life'[c] # "deleted"
        BY <1>h, <3>1, <3>4 DEF n
      <4> QED
        BY <3>2, <3>3, <3>4, <4>1, <4>2 DEF Phase, Staged
    <3>5. CASE c # n
      <4>1. conns' # c /\ conns # c
        BY <3>1, <3>5, Kinds DEF n
      <4>2. /\ pc'[c] = pc[c] \/ c = t
            /\ pc'[c] \in Heard => pc[c] \in Heard
            /\ pc[c] = "done" => pc'[c] = "done"
        BY <1>h, <1>t, <3>1, <3>5
      <4>3. ASSUME NEW u \in Thread PROVE Stage(u, pc'[u]) = Stage(u, pc[u]) \/ u = n
        BY <1>i, <2>0, <3>1
      <4>4. ASSUME NEW u \in Thread
            PROVE  (Kills(u, c)' <=> Kills(u, c)) /\ (Kills(u, c) => Stage(u, pc'[u]) = Stage(u, pc[u]))
        <5>1. CASE u = n
          <6>1. victim[u] # c
            <7>1. Place(n, "idle", on[n], victim[n], redo[n], carries[n])
              BY <1>0, <3>1, Kinds DEF ThreadShape
            <7> QED
              BY <3>1, <3>3, <3>5, <5>1, <7>1, Kinds DEF Place
          <6> QED
            BY <3>1, <6>1 DEF Kills
        <5>2. CASE u # n
          BY <3>1, <4>3, <5>2 DEF Kills
        <5> QED
          BY <5>1, <5>2
      <4>5. UNCHANGED <<life[c], state[c]>>
        BY <3>1, <3>5
      <4> HIDE DEF Kills
      <4> QED
        BY <1>0, <4>1, <4>2, <4>4, <4>5 DEF Phase, Born
    <3> QED
      BY <3>4, <3>5
  <2>4. CASE NoConnection(t)
    <3>1. /\ Only(t) /\ pc[t] = "connect" /\ victim'[t] = victim[t] /\ UNCHANGED <<connVars, cacheVars>>
          /\ (t \in Conn => pc'[t] = "pending") /\ (t \in Own => pc'[t] = "wait")
          /\ (t \in Oneway => pc'[t] = "done")
      BY <1>0, <2>4, NoConnectionStep, Kinds
    <3>2. t \in Conn \/ t \in Own \/ t \in Oneway
      BY <1>0, <1>i, <3>1, Invokers DEF Own
    <3> QED
      BY <1>h, <1>i, <1>q, <1>s, <2>0, <3>1, <3>2, Kinds
  <2>5. CASE Ref(t)
    BY <1>0, <1>h, <1>i, <1>q, <1>s, <2>0, <2>5, RefStep DEF Keeps
  <2>6. CASE AddInvoke(t)
    <3>1. /\ Only(t) /\ Keeps(t) /\ pc[t] = "add" /\ pc'[t] = "output"
          /\ UNCHANGED <<serverVars, callVars, life, state, slots, cacheVars, orb, kept, fault>>
      BY <1>0, <2>6, AddStep
    <3> QED
      BY <1>h, <1>i, <1>q, <1>s, <2>0, <3>1 DEF Keeps
  <2>7. CASE Output(t)
    <3>1. /\ Only(t) /\ Keeps(t) /\ pc[t] = "output" /\ pc'[t] = "deref" /\ on[t] \in Conn /\ MayClose(on[t])
          /\ UNCHANGED <<peer, inbox, executed, callVars, life, refcnt, slots, cacheVars, ids, kept, fault>>
      BY <1>0, <2>7, OutputStep
    <3> QED
      BY <1>h, <1>i, <1>q, <1>s, <2>0, <3>1 DEF Keeps
  <2>8. CASE ActiveDeref(t)
    <3>1. /\ Only(t) /\ pc[t] = "deref" /\ victim'[t] = victim[t] /\ on[t] \in Conn /\ Counted(on[t], -1)
          /\ UNCHANGED <<life, refcnt, slots, cacheVars>>
          /\ \/ t \in Conn /\ pc'[t] = "pending"
             \/ t \in Oneway /\ pc'[t] = "done"
             \/ t \in Own /\ pc'[t] = "wait"
      BY <1>0, <2>8, ActiveDerefStep
    <3> QED
      BY <1>h, <1>i, <1>q, <1>s, <2>0, <3>1, Kinds
  <2> QED
    BY <1>7, <2>1, <2>2, <2>3, <2>4, <2>5, <2>6, <2>7, <2>8 DEF invoke
<1>8. ASSUME NEW t \in Thread, kill_conn(t) PROVE Phase(c)'
  <2>1. CASE Unlist(t)
    <3>1. /\ Only(t) /\ pc[t] = "unlist" /\ victim[t] \in Conn /\ UNCHANGED <<connVars>>
          /\ \/ conns = victim[t] /\ conns' = NoConn /\ pc'[t] = "uncache" /\ Keeps(t)
             \/ conns # victim[t] /\ conns' = conns /\ Left(t)
      BY <1>0, <2>1, UnlistStep
    <3>2. /\ Stage(t, "unlist") = 0 /\ Stage(t, "uncache") = 1
          /\ \A l \in {"select", "done", "idle"} : Stage(t, l) = 0
      BY <1>i, Stages
    <3>3. CASE conns = victim[t] /\ conns' = NoConn /\ pc'[t] = "uncache" /\ Keeps(t) /\ victim[t] = c
      <4>1. Born(c)
        BY <1>0, <3>3, BornWhen
      <4>2. \A u \in Thread : ~Kills(u, c)
        BY <1>0, <3>3, <4>1 DEF Phase
      <4>3. \A u \in Thread : Kills(u, c)' => u = t
        BY <3>1, <4>2 DEF Kills, Only
      <4>4. /\ Kills(t, c)' /\ Stage(t, pc'[t]) = 1 /\ conns' # c
            /\ Staged(1, state'[c].current, state'[c].new) /\ life'[c] # "deleted"
        BY <1>0, <3>1, <3>2, <3>3, <4>1, Kinds DEF Phase, Kills, Keeps
      <4>5. pc'[c] \in Heard => pc[c] \in Heard
        BY <1>h, <1>t, <3>1, <3>3 DEF Only
      <4>6. state'[c].new = 4 => pc'[c] \notin Heard
        BY <1>0, <3>1, <4>1, <4>5 DEF Phase
      <4> HIDE DEF Kills, Staged
      <4>7. \A u, v \in Thread : Kills(u, c)' /\ Kills(v, c)' => u = v
        BY <4>3
      <4>8. \A u \in Thread : Kills(u, c)' => /\ Staged(Stage(u, pc'[u]), state'[c].current, state'[c].new)
                                              /\ Stage(u, pc'[u]) >= 4 => u = c \/ pc'[c] = "done"
        <5> SUFFICES ASSUME NEW u \in Thread, Kills(u, c)'
                     PROVE  /\ Staged(Stage(u, pc'[u]), state'[c].current, state'[c].new)
                            /\ Stage(u, pc'[u]) >= 4 => u = c \/ pc'[c] = "done"
          OBVIOUS
        <5>1. Stage(u, pc'[u]) = 1
          BY <4>3, <4>4
        <5> QED
          BY <4>4, <5>1
      <4> QED
        BY <4>4, <4>6, <4>7, <4>8 DEF Phase
    <3>4. CASE conns = victim[t] /\ conns' = NoConn /\ pc'[t] = "uncache" /\ Keeps(t) /\ victim[t] # c
      <4>1. /\ \A u \in Thread : (Kills(u, c)' <=> Kills(u, c)) /\ (Kills(u, c) => pc'[u] = pc[u])
            /\ conns # c /\ conns' # c
        BY <3>1, <3>2, <3>4, Kinds DEF Kills, Only, Keeps
      <4>2. (pc'[c] \in Heard => pc[c] \in Heard) /\ (pc[c] = "done" => pc'[c] = "done")
        BY <1>h, <1>t, <3>1, <3>4 DEF Only
      <4> HIDE DEF Kills
      <4> QED
        BY <1>0, <3>1, <4>1, <4>2 DEF Phase, Born
    <3>5. CASE conns # victim[t] /\ conns' = conns /\ Left(t)
      BY <1>h, <1>q, <1>s, <3>1, <3>2, <3>5 DEF Left
    <3> QED
      BY <3>1, <3>3, <3>4, <3>5
  <2>k. \A l \in {"pending", "abort", "redo"} : Stage(t, l) = 5
    BY Stages
  <2>5. CASE NextPending(t)
    <3>1. /\ Only(t) /\ pc[t] = "pending" /\ pc'[t] \in {"redo", "abort"} /\ victim'[t] = victim[t]
          /\ UNCHANGED <<connVars, cacheVars>>
      BY <1>0, <2>5, NextPendingStep
    <3> QED
      BY <1>h, <1>q, <1>s, <2>k, <3>1
  <2>6. CASE Abort(t) \/ Redo(t)
    <3>1. /\ Only(t) /\ pc[t] \in {"redo", "abort"} /\ victim'[t] = victim[t]
          /\ UNCHANGED <<connVars, cacheVars>>
          /\ pc'[t] = "pending" \/ (t \in Conn /\ pc'[t] = "lookup")
      BY <1>0, <2>6, DropStep DEF Keeps
    <3>2. t \in Conn => Stage(t, "lookup") = 5
      BY <1>i, Stages
    <3> QED
      BY <1>h, <1>q, <1>s, <2>k, <3>1, <3>2
\* a thread that kills c goes on, or another
  <2>9. ASSUME victim[t] \in Conn, Only(t), Keeps(t), pc[t] # "done", pc'[t] \notin Heard, conns' = conns,
               life[victim[t]] = "open", life' = life,
               Stage(t, pc[t]) \in 1..4, Stage(t, pc'[t]) = Stage(t, pc[t]) + 1,
               \A d \in Conn : d # victim[t] => state'[d] = state[d],
               Staged(Stage(t, pc[t]), state[victim[t]].current, state[victim[t]].new) =>
                 Staged(Stage(t, pc'[t]), state'[victim[t]].current, state'[victim[t]].new),
               Stage(t, pc'[t]) >= 4 => t = victim[t] \/ pc[victim[t]] = "done"
        PROVE  Phase(c)'
    <3>1. CASE victim[t] = c
      <4>1. Born(c) /\ Kills(t, c) /\ Kills(t, c)'
        BY <2>9, <3>1 DEF Born, Kills, Keeps
      <4>2. \A u \in Thread : Kills(u, c)' => u = t
        <5>1. \A u \in Thread : Kills(u, c)' /\ u # t => Kills(u, c)
          BY <2>9 DEF Kills, Only
        <5> QED
          BY <1>0, <4>1, <5>1 DEF Phase
      <4>3. Staged(Stage(t, pc'[t]), state'[c].current, state'[c].new)
        BY <1>0, <2>9, <3>1, <4>1 DEF Phase
      <4>4. conns' # c /\ life'[c] = "open"
        BY <1>0, <2>9, <3>1, <4>1 DEF Phase
      <4>5. pc[c] = "done" => pc'[c] = "done"
        BY <1>t, <2>9 DEF Only
      <4>6. state'[c].new = 4 => pc'[c] \notin Heard
        <5>1. CASE t = c
          BY <2>9, <5>1
        <5>2. CASE t # c /\ state'[c].new = 4
          <6>1. Stage(t, pc'[t]) >= 4
            BY <2>9, <4>3, <5>2 DEF Staged
          <6> QED
            BY <1>h, <2>9, <3>1, <4>5, <5>2, <6>1
        <5> QED
          BY <5>1, <5>2
      <4>7. Stage(t, pc'[t]) >= 4 => t = c \/ pc'[c] = "done"
        BY <2>9, <3>1, <4>5
      <4> HIDE DEF Kills, Staged
      <4>8. \A u, v \in Thread : Kills(u, c)' /\ Kills(v, c)' => u = v
        BY <4>2
      <4>9. \A u \in Thread : Kills(u, c)' => /\ Staged(Stage(u, pc'[u]), state'[c].current, state'[c].new)
                                              /\ Stage(u, pc'[u]) >= 4 => u = c \/ pc'[c] = "done"
        BY <4>2, <4>3, <4>7
      <4> QED
        BY <4>1, <4>4, <4>6, <4>8, <4>9 DEF Phase
    <3>2. CASE victim[t] # c
      <4>1. \A u \in Thread : (Kills(u, c)' <=> Kills(u, c)) /\ (Kills(u, c) => pc'[u] = pc[u])
        BY <2>9, <3>2 DEF Kills, Only, Keeps
      <4>2. (pc'[c] \in Heard => pc[c] \in Heard) /\ (pc[c] = "done" => pc'[c] = "done")
        BY <1>h, <1>t, <2>9 DEF Only
      <4>3. UNCHANGED <<state[c], life[c]>>
        BY <2>9, <3>2
      <4> HIDE DEF Kills
      <4> QED
        BY <1>0, <2>9, <4>1, <4>2, <4>3 DEF Phase, Born
    <3> QED
      BY <3>1, <3>2
  <2>10. /\ Stage(t, "uncache") = 1 /\ Stage(t, "shutdown") = 2 /\ Stage(t, "join") = 3
         /\ Stage(t, "terminated") = 4 /\ Stage(t, "pending") = 5
    BY Stages
  <2>2. CASE Uncache(t)
    <3>1. /\ Only(t) /\ Keeps(t) /\ pc[t] = "uncache" /\ pc'[t] = "shutdown"
          /\ victim[t] \in Conn /\ life[victim[t]] = "open" /\ life' = life /\ conns' = conns
          /\ state'[victim[t]].current = state[victim[t]].current /\ state'[victim[t]].new = 3
          /\ \A d \in Conn : d # victim[t] => state'[d] = state[d]
      BY <1>0, <2>2, UncacheStep
    <3>2. Staged(1, state[victim[t]].current, state[victim[t]].new) =>
            Staged(2, state'[victim[t]].current, state'[victim[t]].new)
      BY <3>1 DEF Staged
    <3> QED
      BY <1>h, <2>9, <2>10, <3>1, <3>2
  <2>3. CASE ShutdownEffective(t) \/ TerminatedEffective(t)
    <3>1. /\ Only(t) /\ Keeps(t) /\ life' = life /\ conns' = conns
          /\ \/ pc[t] = "shutdown" /\ pc'[t] = "join"
             \/ pc[t] = "terminated" /\ pc'[t] = "pending"
          /\ victim[t] \in Conn /\ life[victim[t]] = "open"
          /\ state'[victim[t]].current = (IF state[victim[t]].new > state[victim[t]].current
                                            THEN state[victim[t]].new ELSE state[victim[t]].current)
          /\ state'[victim[t]].new = state[victim[t]].new
          /\ \A d \in Conn : d # victim[t] => state'[d] = state[d]
      BY <1>0, <2>3, EffectiveStep
    <3>2. /\ Staged(2, state[victim[t]].current, state[victim[t]].new) =>
               Staged(3, state'[victim[t]].current, state'[victim[t]].new)
          /\ Staged(4, state[victim[t]].current, state[victim[t]].new) =>
               Staged(5, state'[victim[t]].current, state'[victim[t]].new)
      BY <3>1 DEF Staged
    <3>3. pc[t] = "terminated" => t = victim[t] \/ pc[victim[t]] = "done"
      <4> SUFFICES ASSUME pc[t] = "terminated" PROVE t = victim[t] \/ pc[victim[t]] = "done"
        OBVIOUS
      <4>1. Kills(t, victim[t])
        BY <2>10 DEF Kills
      <4>2. Phase(victim[t]) /\ Born(victim[t])
        BY <3>1, Before DEF Born
      <4> QED
        BY <2>10, <3>1, <4>1, <4>2 DEF Phase
    <3> QED
      BY <1>h, <2>9, <2>10, <3>1, <3>2, <3>3
  <2>4. CASE Join(t)
    <3>1. /\ Only(t) /\ Keeps(t) /\ pc[t] = "join" /\ pc'[t] = "terminated"
          /\ victim[t] \in Conn /\ life[victim[t]] = "open" /\ life' = life /\ conns' = conns
          /\ t = victim[t] \/ pc[victim[t]] = "done"
          /\ state'[victim[t]].current = state[victim[t]].current /\ state'[victim[t]].new = 4
          /\ \A d \in Conn : d # victim[t] => state'[d] = state[d]
      BY <1>0, <2>4, JoinStep
    <3>2. Staged(3, state[victim[t]].current, state[victim[t]].new) =>
            Staged(4, state'[victim[t]].current, state'[victim[t]].new)
      BY <3>1 DEF Staged
    <3> QED
      BY <1>h, <2>9, <2>10, <3>1, <3>2
  <2>7. CASE KillEnd(t)
    <3>1. /\ life[victim[t]] = "open" /\ victim[t] \in Conn /\ Only(t) /\ Left(t) /\ pc[t] = "pending"
          /\ UNCHANGED <<serverVars, callVars, life, state, cacheVars, ids, kept, fault>>
      BY <1>0, <2>7, KillEndStep
    <3>2. /\ pc'[t] \notin Heard /\ Stage(t, pc'[t]) = 0 /\ ~Kills(t, c)'
      BY <1>h, <1>i, <3>1, Stages DEF Left, Kills
    <3>3. \A u \in Thread : u # t => (Kills(u, c)' <=> Kills(u, c)) /\ pc'[u] = pc[u]
      BY <3>1 DEF Kills, Only
    <3>4. (pc'[c] \in Heard => pc[c] \in Heard) /\ (pc[c] = "done" => pc'[c] = "done")
      BY <1>h, <1>t, <3>1, <3>2, <3>3
    <3>5. CASE victim[t] = c
      <4>1. Born(c) /\ Kills(t, c)
        BY <2>10, <3>1, <3>5 DEF Born, Kills
      <4>2. conns # c /\ (\A u \in Thread : Kills(u, c) => u = t) /\ Staged(5, state[c].current, state[c].new)
        BY <1>0, <2>10, <3>1, <4>1 DEF Phase
      <4> HIDE DEF Kills, Staged
      <4>3. \A u \in Thread : ~Kills(u, c)'
        BY <3>2, <3>3, <4>2
      <4> QED
        BY <1>0, <3>1, <3>4, <4>1, <4>2, <4>3 DEF Phase
    <3>6. CASE victim[t] # c
      <4>1. ~Kills(t, c)
        BY <3>6 DEF Kills
      <4> HIDE DEF Kills, Staged
      <4>2. \A u \in Thread : (Kills(u, c)' <=> Kills(u, c)) /\ (Kills(u, c) => pc'[u] = pc[u])
        BY <3>2, <3>3, <4>1
      <4> QED
        BY <1>0, <3>1, <3>4, <4>2 DEF Phase, Born
    <3> QED
      BY <3>5, <3>6
  <2> QED
    BY <1>8, <2>1, <2>2, <2>3, <2>4, <2>5, <2>6, <2>7 DEF kill_conn
<1>9. ASSUME NEW t \in Thread, Fail(t) PROVE Phase(c)'
  <2>1. UNCHANGED <<serverVars, callVars, connVars, cacheVars, ids, orb, threadVars, kept>>
    BY <1>0, <1>9, FailStep
  <2> QED
    BY <1>0, <2>1 DEF Phase, Kills, Born
<1> QED
  BY <1>1, <1>3, <1>4, <1>5, <1>6, <1>7, <1>8, <1>9, Steps

\* The entry in _conns stays, or there is none.
LEMMA EntryKept ==
  ASSUME NEW c \in Conn, NEW t \in Thread, Only(t), conns' = c <=> conns = c,
         pc[t] # "uncache", pc'[t] # "uncache"
  PROVE  Entry(c)' <=> Entry(c)
BY DEF Entry, Only

\* An active reference is taken or given back.
LEMMA ActiveKept ==
  ASSUME ConnShape, ConnShape', NEW c \in Conn, Active(c), NEW t \in Thread, Only(t),
         Born(c)' => Born(c), Entry(c)' <=> Entry(c),
         state'[c].active + (IF Holds(t, c) THEN 1 ELSE 0) =
           state[c].active + (IF Holds(t, c)' THEN 1 ELSE 0),
         state[c].current <= 2 => state'[c].current <= 2,
         Holds(t, c)' /\ ~Holds(t, c) => /\ state'[c].current # 4
                                         /\ t # c => state'[c].current <= 2,
         state'[c].current = 4 => state[c].current = 4
  PROVE  Active(c)'
<1> SUFFICES ASSUME Born(c), Born(c)' PROVE Active(c)'
  BY DEF Active
<1> DEFINE A == Cardinality(ActiveHolders(c))
           B == Cardinality(ActiveHolders(c)')
<1>1. B + (IF Holds(t, c) THEN 1 ELSE 0) = A + (IF Holds(t, c)' THEN 1 ELSE 0)
  BY HoldersMove
<1>2. A \in Nat /\ \A u \in Thread : u \in ActiveHolders(c) <=> Holds(u, c)
  BY Holders
<1>3. B \in Nat /\ \A u \in Thread : u \in ActiveHolders(c)' <=> Holds(u, c)'
  BY HoldersMove
<1>4. state[c].active \in Int /\ state'[c].active \in Int /\ state[c].current \in 0..4
      /\ state'[c].current \in 0..4
  BY StateMethods DEF ConnShape
<1>5. /\ state[c].active = A + (IF Entry(c) THEN 1 ELSE 0)
      /\ state[c].current = 4 => state[c].active = 0
      /\ \A u \in ActiveHolders(c) : u # c => state[c].current <= 2
  BY DEF Active
<1>6. \A u \in Thread : u # t => (Holds(u, c)' <=> Holds(u, c))
  BY DEF Only, Holds
<1>7. \A u \in ActiveHolders(c)' : u \in Thread
  BY Kinds DEF ActiveHolders
<1> HIDE DEF A, B, Holds, Entry
<1>8. state'[c].active = B + (IF Entry(c)' THEN 1 ELSE 0)
  BY <1>1, <1>2, <1>3, <1>4, <1>5
<1>9. state'[c].current = 4 => state'[c].active = 0
  <2> SUFFICES ASSUME state'[c].current = 4 PROVE state'[c].active = 0
    OBVIOUS
  <2>1. state[c].active = 0 /\ A = 0 /\ ~Entry(c)
    BY <1>2, <1>4, <1>5
  <2>2. ~Holds(t, c)
    BY <2>1, Holders DEF A
  <2> QED
    BY <1>4, <2>1, <2>2
<1>10. \A u \in ActiveHolders(c)' : u # c => state'[c].current <= 2
  BY <1>2, <1>3, <1>5, <1>6, <1>7
<1> QED
  BY <1>8, <1>9, <1>10 DEF Active, B

\* A step keeps the active references counted, and none is left to a connection
\* that has been shut down.
LEMMA ActiveInv ==
  ASSUME Inv, Next, NEW c \in Conn
  PROVE  Active(c)'
<1> USE DEF serverVars, callVars, connVars, cacheVars, threadVars
<1> DEFINE Same == /\ state'[c].active = state[c].active
                   /\ \/ state'[c].current = state[c].current
                      \/ state'[c].current = 2
           Still(t) == /\ Only(t) /\ (Born(c)' => Born(c)) /\ (Entry(c)' <=> Entry(c)) /\ ConnShape'
           Free(t) == pc[t] \notin Sending /\ pc[t] \notin Handling \cup {"closing"}
           FreeNext(t) == pc'[t] \notin Sending /\ pc'[t] \notin Handling \cup {"closing"}
<1>0. Shape /\ Unborn(c) /\ Phase(c) /\ ConnShape /\ ThreadShape /\ Active(c)
  BY Before
<1>t. Main \in Thread /\ Main \notin Conn /\ c \in Thread
  BY Kinds
<1>c. Shape' => ConnShape'
  BY DEF Shape, DataShape
<1>h. /\ Handling \cup {"closing"} = {"closing", "pull", "delete", "answer", "giveback", "release"}
      /\ Sending = {"add", "output", "deref"}
  BY DEF Handling, Sending
<1>m. ASSUME NEW d \in Conn PROVE /\ MayClose(d) => Same
                                  /\ state' = state => Same
                                  /\ \A n \in {1, -1} : d # c /\ Counted(d, n) => Same
  BY DEF MayClose, Counted
<1>f. ASSUME NEW t \in Thread PROVE /\ Free(t) => ~Holds(t, c)
                                    /\ FreeNext(t) => ~Holds(t, c)'
  BY DEF Holds
<1>q. ASSUME NEW t \in Thread, Still(t), Same, Holds(t, c)' <=> Holds(t, c) PROVE Active(c)'
  <2>1. state[c].active \in Int /\ state'[c].active \in Int
    BY <1>0, <1>q, StateMethods DEF ConnShape
  <2> HIDE DEF Holds, Entry
  <2> QED
    BY <1>0, <1>q, <2>1, ActiveKept
<1>r. ASSUME NEW t \in Thread, Still(t), Counted(c, 1), ~Holds(t, c), Holds(t, c)',
             state[c].current # 4, t # c => state[c].current <= 2
      PROVE  Active(c)'
  <2>1. state[c].active \in Int /\ state'[c].active \in Int
    BY <1>0, <1>r, StateMethods DEF ConnShape
  <2> HIDE DEF Holds, Entry
  <2> QED
    BY <1>0, <1>r, <2>1, ActiveKept DEF Counted
<1>v. ASSUME NEW t \in Thread, Still(t), Counted(c, -1), Holds(t, c), ~Holds(t, c)'
      PROVE  Active(c)'
  <2>1. state[c].active \in Int /\ state'[c].active \in Int
    BY <1>0, <1>v, StateMethods DEF ConnShape
  <2> HIDE DEF Holds, Entry
  <2> QED
    BY <1>0, <1>v, <2>1, ActiveKept DEF Counted
<1>e. ASSUME NEW t \in Thread, Only(t), conns' = conns, life' = life, Shape',
             pc[t] # "uncache", pc'[t] # "uncache"
      PROVE  Still(t)
  BY <1>c, <1>e, EntryKept DEF Born
<1>u. ASSUME UNCHANGED <<state, conns, threadVars>>, Born(c)' => Born(c)
      PROVE  Active(c)'
  BY <1>0, <1>u DEF Active, ActiveHolders, Entry
<1> HIDE DEF Same, Still
<1>1. ASSUME NEW d \in Conn,
             Serve(d) \/ Crash(d) \/ \E k \in {"close", "error"} : ServerCloses(d, k)
      PROVE  Active(c)'
  <2>1. UNCHANGED <<callVars, connVars, cacheVars, ids, orb, threadVars, kept, fault>>
    BY <1>0, <1>1, PeerStep
  <2> QED
    BY <1>u, <2>1 DEF Born
<1>3. ASSUME NEW d \in Conn, Reader(d) PROVE Active(c)'
  <2>d. d \in Thread
    BY Kinds
  <2>1. CASE Select(d) \/ LeaveLoop(d)
    <3>1. /\ Shape' /\ Only(d) /\ pc[d] = "select" /\ pc'[d] \in {"reading", "done"}
          /\ UNCHANGED <<connVars, cacheVars>>
      BY <1>0, <2>1, SelectStep
    <3> QED
      BY <1>e, <1>f, <1>h, <1>m, <1>q, <2>d, <3>1
  <2>2. CASE Read(d)
    <3>1. /\ Shape' /\ Only(d) /\ pc[d] = "reading" /\ life[d] = "open"
          /\ \/ state' = state /\ pc'[d] = "select"
             \/ Counted(d, 1) /\ pc'[d] \in {"pull", "closing"}
          /\ UNCHANGED <<life, refcnt, slots, cacheVars>>
      BY <1>0, <2>2, ReadStep
    <3>2. Still(d) /\ ~Holds(d, c)
      BY <1>e, <1>f, <1>h, <2>d, <3>1
    <3>3. CASE state' = state /\ pc'[d] = "select"
      <4>1. ~Holds(d, c)'
        BY <1>f, <1>h, <2>d, <3>3
      <4> QED
        BY <1>m, <1>q, <2>d, <3>2, <3>3, <4>1
    <3>4. CASE Counted(d, 1) /\ pc'[d] \in {"pull", "closing"} /\ d # c
      <4>1. ~Holds(d, c)'
        BY <1>h, <3>4 DEF Holds
      <4> QED
        BY <1>m, <1>q, <2>d, <3>2, <3>4, <4>1
    <3>5. CASE Counted(d, 1) /\ pc'[d] \in {"pull", "closing"} /\ d = c
      <4>1. Holds(d, c)'
        BY <1>h, <3>5 DEF Holds
      <4>2. Born(c)
        BY <3>1, <3>5 DEF Born
      <4>3. state[c].new # 4
        BY <1>0, <3>1, <3>5, <4>2 DEF Phase, Heard
      <4>4. state[c].current # 4
        BY <1>0, <4>2, <4>3, PhaseStates
      <4> QED
        BY <1>r, <2>d, <3>2, <3>5, <4>1, <4>4
    <3> QED
      BY <3>1, <3>3, <3>4, <3>5
  <2>3. CASE ReadEnd(d)
    <3>1. /\ Shape' /\ Only(d) /\ pc[d] = "reading" /\ pc'[d] = "select" /\ MayClose(d)
          /\ UNCHANGED <<life, cacheVars>>
      BY <1>0, <2>3, ReadEndStep
    <3> QED
      BY <1>e, <1>f, <1>h, <1>m, <1>q, <2>d, <3>1
\* the reader goes on handling a message
  <2>a. ASSUME Shape', Only(d), pc[d] \in Handling, pc'[d] \in Handling,
               UNCHANGED <<life, state, conns>>
        PROVE  Active(c)'
    <3>1. Holds(d, c)' <=> Holds(d, c)
      BY <1>h, <2>a DEF Holds, Handling
    <3>2. Still(d)
      BY <1>e, <2>a, <2>d DEF Handling
    <3> QED
      BY <1>m, <1>q, <2>a, <2>d, <3>1, <3>2
  <2>4. CASE Pull(d)
    <3>1. /\ Shape' /\ Only(d) /\ pc[d] = "pull" /\ pc'[d] \in {"delete", "release"}
          /\ UNCHANGED <<connVars, cacheVars>>
      BY <1>0, <2>4, PullStep
    <3> QED
      BY <2>a, <3>1 DEF Handling
  <2>5. CASE Delete(d)
    BY <1>0, <2>5, <2>a, DeleteStep DEF Handling
  <2>6. CASE Answer(d)
    BY <1>0, <2>6, <2>a, AnswerStep DEF Handling
  <2>7. CASE GiveBack(d)
    BY <1>0, <2>7, <2>a, GiveBackStep DEF Handling
  <2>8. CASE Release(d) \/ Closing(d)
    <3>1. /\ Shape' /\ Only(d) /\ pc[d] \in {"release", "closing"} /\ pc'[d] \in {"reading", "unlist"}
          /\ Counted(d, -1) /\ UNCHANGED <<life, cacheVars>>
      BY <1>0, <2>8, ReleaseStep
    <3>2. Still(d) /\ ~Holds(d, c)'
      BY <1>e, <1>f, <1>h, <2>d, <3>1
    <3>3. Holds(d, c) <=> d = c
      BY <1>h, <3>1 DEF Holds
    <3> QED
      BY <1>m, <1>q, <1>v, <2>d, <3>1, <3>2, <3>3
  <2> QED
    BY <1>3, <2>1, <2>2, <2>3, <2>4, <2>5, <2>6, <2>7, <2>8 DEF Reader
<1>4. ASSUME NEW q \in Caller, Begin(q) \/ CallStep(q) \/ TimeOut(q) \/ Cancel(q) PROVE Active(c)'
  <2>d. q \in Thread
    BY Kinds
  <2>a. ASSUME Shape', Only(q), Free(q), FreeNext(q), pc[q] # "uncache", pc'[q] # "uncache",
               UNCHANGED <<life, conns>>, state' = state \/ \E d \in Conn : MayClose(d)
        PROVE  Active(c)'
    BY <1>e, <1>f, <1>m, <1>q, <2>a, <2>d
  <2>1. CASE Begin(q)
    BY <1>0, <1>h, <2>1, <2>a, BeginStep
  <2>2. CASE Return(q)
    BY <1>0, <1>h, <2>2, <2>a, ReturnStep
  <2>3. CASE TimeOut(q)
    <3>1. UNCHANGED <<connVars, cacheVars, threadVars>>
      BY <1>0, <2>3, TimeOutStep
    <3> QED
      BY <1>u, <3>1 DEF Born
  <2>4. CASE Cancel(q)
    <3>1. /\ Shape' /\ Only(q) /\ pc[q] = "wait" /\ pc'[q] \in {"sendcancel", "done"}
          /\ UNCHANGED <<connVars, cacheVars>>
      BY <1>0, <2>4, CancelStep
    <3> QED
      BY <1>h, <2>a, <3>1
  <2>5. CASE SendCancel(q)
    <3>1. ids[q].conn \in Conn
      BY <2>5, CancelRecord DEF SendCancel, At, Gone, Cancelling
    <3>2. /\ Shape' /\ Only(q) /\ pc[q] = "sendcancel" /\ pc'[q] = "derefcancel" /\ MayClose(ids[q].conn)
          /\ UNCHANGED <<life, cacheVars>>
      BY <1>0, <2>5, <3>1, SendCancelStep
    <3> QED
      BY <1>h, <2>a, <3>1, <3>2
  <2>6. CASE DerefCancel(q)
    <3>1. ids[q].conn \in Conn
      BY <2>6, CancelRecord DEF DerefCancel, At, Gone, Cancelling
    <3> QED
      BY <1>0, <1>h, <2>6, <2>a, <3>1, DerefCancelStep
  <2>7. CASE DelCancel(q)
    BY <1>0, <1>h, <2>7, <2>a, DelCancelStep
  <2> QED
    BY <1>4, <2>1, <2>2, <2>3, <2>4, <2>5, <2>6, <2>7 DEF CallStep
<1>5. ASSUME NEW o \in OrbWorker, Pool(o) PROVE Active(c)'
  <2>d. o \in Thread
    BY Kinds
  <2>1. CASE TakeClose(o)
    <3>1. Shape' /\ Only(o) /\ pc[o] = "idle" /\ pc'[o] = "unlist" /\ UNCHANGED <<connVars, cacheVars>>
      BY <1>0, <2>1, TakeCloseStep
    <3> QED
      BY <1>e, <1>f, <1>h, <1>m, <1>q, <1>0, <2>d, <3>1
  <2>2. CASE TakeKill(o)
    <3>1. UNCHANGED <<serverVars, callVars, state, refcnt, slots, cacheVars, ids, threadVars, kept, fault>>
      BY <1>0, <2>2, TakeKillStep
    <3>2. PICK d \in Conn : pc[d] = "done" /\ \A e \in Conn : e # d => life'[e] = life[e]
      BY <1>0, <2>2, TakeKillStep
    <3>3. Born(d)
      BY <1>0, <3>2 DEF Born, Shape, LifeShape
    <3>4. Born(c)' => Born(c)
      BY <3>2, <3>3 DEF Born
    <3> QED
      BY <1>u, <3>1, <3>4
  <2> QED
    BY <1>5, <2>1, <2>2 DEF Pool
<1>6. CASE Shutdown
  <2>1. /\ Shape' /\ Only(Main) /\ pc[Main] = "idle" /\ pc'[Main] \in {"done", "unlist"}
        /\ UNCHANGED <<connVars, cacheVars>>
    BY <1>0, <1>6, ShutdownStep
  <2> QED
    BY <1>e, <1>f, <1>h, <1>m, <1>q, <1>t, <1>0, <2>1
<1>7. ASSUME NEW t \in Thread, invoke(t) PROVE Active(c)'
  <2>1. CASE Lookup(t)
    <3>1. /\ Shape' /\ Only(t) /\ pc[t] = "lookup" /\ pc'[t] \in {"ref", "connect"} /\ UNCHANGED <<connVars, conns>>
      BY <1>0, <2>1, LookupStep
    <3> QED
      BY <1>e, <1>f, <1>h, <1>m, <1>q, <1>0, <3>1
  <2>2. CASE FindConn(t) \/ Cache(t)
    <3>1. /\ Shape' /\ Only(t) /\ pc[t] \in {"connect", "cache"} /\ pc'[t] \in {"cache", "ref"}
          /\ UNCHANGED <<connVars, conns>>
      BY <1>0, <2>2, FindStep
    <3> QED
      BY <1>e, <1>f, <1>h, <1>m, <1>q, <1>0, <3>1
  <2>3. CASE NewConn(t)
    <3> DEFINE n == conns'
    <3>1. /\ n \in Conn /\ n # t /\ conns = NoConn /\ life[n] = "none"
          /\ pc[t] = "connect" /\ pc'[t] = "cache" /\ pc[n] = "idle" /\ pc'[n] = "select"
          /\ \A u \in Thread : u # t /\ u # n => pc'[u] = pc[u]
          /\ \A u \in Thread : u # t => on'[u] = on[u]
          /\ \A d \in Conn : d # n => life'[d] = life[d] /\ state'[d] = state[d]
          /\ victim' = victim
      BY <1>0, <2>3, NewConnStep
    <3>2. /\ state'[n].active = state[n].active + 1
          /\ state[n].current = 0 => state'[n].current = 1
      BY <1>0, <2>3, NewConnStep
    <3>3. state[n].current = 0 /\ state[n].active = 0
      <4>1. Unborn(n)
        BY <3>1, Before
      <4> QED
        BY <3>1, <4>1 DEF Unborn, S!Fresh, S!Initial
    <3>8. n \in Thread
      BY <3>1, Kinds
    <3>4. \A u \in Thread : Holds(u, c)' <=> Holds(u, c)
      BY <1>h, <3>1, <3>8 DEF Holds
    <3>5. ActiveHolders(c)' = ActiveHolders(c)
      <4>1. ActiveHolders(c)' \subseteq Thread /\ \A u \in Thread : u \in ActiveHolders(c)' <=> Holds(u, c)'
        BY <1>t DEF ActiveHolders, Holds
      <4>2. ActiveHolders(c) \subseteq Thread /\ \A u \in Thread : u \in ActiveHolders(c) <=> Holds(u, c)
        BY Holders
      <4> QED
        BY <3>4, <4>1, <4>2
    <3> HIDE DEF n
    <3>6. CASE c = n
      <4>1. \A u \in Thread : ~Holds(u, c)
        BY <1>0, <3>1, <3>6, BornWhen DEF Born
      <4>2. Cardinality(ActiveHolders(c)) = 0
        BY <4>1, Holders
      <4>3. Entry(c)'
        BY <3>6 DEF Entry, n
      <4>4. ActiveHolders(c) = {}
        BY <4>1, Holders
      <4> QED
        BY <3>2, <3>3, <3>5, <3>6, <4>2, <4>3, <4>4 DEF Active
    <3>7. CASE c # n
      <4>1. Entry(c)' <=> Entry(c)
        <5>1. conns' # c /\ conns # c
          BY <3>1, <3>7, Kinds DEF n
        <5>2. \A u \in Thread : pc'[u] = "uncache" <=> pc[u] = "uncache"
          BY <3>1
        <5> QED
          BY <3>1, <5>1, <5>2 DEF Entry
      <4>2. life'[c] = life[c] /\ state'[c] = state[c]
        BY <3>1, <3>7
      <4> QED
        BY <1>0, <3>5, <4>1, <4>2 DEF Active, Born
    <3> QED
      BY <3>6, <3>7
  <2>4. CASE NoConnection(t)
    <3>1. /\ Shape' /\ Only(t) /\ pc[t] = "connect" /\ UNCHANGED <<connVars, cacheVars>>
          /\ (t \in Conn => pc'[t] = "pending") /\ (t \in Own => pc'[t] = "wait")
          /\ (t \in Oneway => pc'[t] = "done")
      BY <1>0, <2>4, NoConnectionStep, Kinds
    <3>2. t \in Conn \/ t \in Own \/ t \in Oneway
      BY <1>0, <3>1, Invokers DEF Own, Invoking, Early
    <3> QED
      BY <1>e, <1>f, <1>h, <1>m, <1>q, <1>0, <3>1, <3>2
  <2>5. CASE Ref(t)
    <3>1. /\ Shape' /\ Only(t) /\ Keeps(t) /\ pc[t] = "ref" /\ pc'[t] = "add"
          /\ on[t] \in Conn /\ state[on[t]].current <= 2 /\ Counted(on[t], 1)
          /\ UNCHANGED <<life, refcnt, slots, cacheVars>>
      BY <1>0, <2>5, RefStep
    <3>2. Still(t) /\ ~Holds(t, c)
      BY <1>e, <1>f, <1>h, <3>1
    <3>3. Holds(t, c)' <=> on[t] = c
      BY <1>h, <3>1 DEF Holds, Keeps
    <3>4. on[t] = c => state[c].current # 4 /\ state[c].current <= 2
      BY <3>1
    <3> QED
      BY <1>m, <1>q, <1>r, <3>1, <3>2, <3>3, <3>4
  <2>6. CASE AddInvoke(t)
    <3>1. /\ Shape' /\ Only(t) /\ Keeps(t) /\ pc[t] = "add" /\ pc'[t] = "output"
          /\ UNCHANGED <<serverVars, callVars, life, state, slots, cacheVars, orb, kept, fault>>
      BY <1>0, <2>6, AddStep
    <3>2. Holds(t, c)' <=> Holds(t, c)
      BY <1>h, <3>1 DEF Holds, Keeps
    <3> QED
      BY <1>0, <1>e, <1>m, <1>q, <3>1, <3>2
  <2>7. CASE Output(t)
    <3>1. /\ Shape' /\ Only(t) /\ Keeps(t) /\ pc[t] = "output" /\ pc'[t] = "deref" /\ on[t] \in Conn /\ MayClose(on[t])
          /\ UNCHANGED <<peer, inbox, executed, callVars, life, refcnt, slots, cacheVars, ids, kept, fault>>
      BY <1>0, <2>7, OutputStep
    <3>2. Holds(t, c)' <=> Holds(t, c)
      BY <1>h, <3>1 DEF Holds, Keeps
    <3> QED
      BY <1>e, <1>m, <1>q, <3>1, <3>2
  <2>8. CASE ActiveDeref(t)
    <3>1. /\ Shape' /\ Only(t) /\ pc[t] = "deref" /\ on[t] \in Conn /\ Counted(on[t], -1)
          /\ UNCHANGED <<life, refcnt, slots, cacheVars>>
          /\ pc'[t] \in {"pending", "done", "wait"}
      BY <1>0, <2>8, ActiveDerefStep
    <3>2. Still(t) /\ ~Holds(t, c)'
      BY <1>e, <1>f, <1>h, <3>1
    <3>3. Holds(t, c) <=> on[t] = c
      BY <1>h, <3>1 DEF Holds
    <3> QED
      BY <1>m, <1>q, <1>v, <3>1, <3>2, <3>3
  <2> QED
    BY <1>7, <2>1, <2>2, <2>3, <2>4, <2>5, <2>6, <2>7, <2>8 DEF invoke
<1>8. ASSUME NEW t \in Thread, kill_conn(t) PROVE Active(c)'
  <2>k. /\ {"uncache", "unlist", "shutdown", "join", "terminated", "pending", "abort", "redo", "lookup",
            "select", "done", "idle"} \cap (Sending \cup Handling \cup {"closing"}) = {}
    BY <1>h
  <2>1. CASE Unlist(t)
    <3>1. /\ Shape' /\ Only(t) /\ pc[t] = "unlist" /\ victim[t] \in Conn /\ UNCHANGED <<connVars>>
          /\ \/ conns = victim[t] /\ conns' = NoConn /\ pc'[t] = "uncache" /\ Keeps(t)
             \/ conns # victim[t] /\ conns' = conns /\ Left(t)
      BY <1>0, <2>1, UnlistStep
    <3>2. pc'[t] \in {"uncache", "select", "done", "idle"}
      BY <3>1 DEF Left
    <3>3. ~Holds(t, c) /\ ~Holds(t, c)'
      BY <1>f, <1>h, <3>1, <3>2
    <3>4. Entry(c)' <=> Entry(c)
      <4>1. CASE conns = victim[t] /\ conns' = NoConn /\ pc'[t] = "uncache" /\ Keeps(t)
        BY <3>1, <4>1, Kinds DEF Entry, Only, Keeps
      <4>2. CASE conns # victim[t] /\ conns' = conns /\ Left(t)
        <5>1. pc'[t] # "uncache"
          BY <4>2 DEF Left
        <5> QED
          BY <3>1, <4>2, <5>1, EntryKept
      <4> QED
        BY <3>1, <4>1, <4>2
    <3>5. Still(t)
      BY <1>c, <3>1, <3>4 DEF Still, Born
    <3> QED
      BY <1>m, <1>q, <1>0, <3>1, <3>3, <3>5
  <2>2. CASE Uncache(t)
    <3>1. /\ Shape' /\ Only(t) /\ Keeps(t) /\ pc[t] = "uncache" /\ pc'[t] = "shutdown"
          /\ victim[t] \in Conn /\ life[victim[t]] = "open" /\ life' = life /\ conns' = conns
          /\ state'[victim[t]].active = state[victim[t]].active - 1
          /\ state'[victim[t]].current = state[victim[t]].current
          /\ \A d \in Conn : d # victim[t] => state'[d] = state[d]
      BY <1>0, <2>2, UncacheStep
    <3>2. ~Holds(t, c) /\ ~Holds(t, c)'
      BY <1>f, <1>h, <3>1
    <3>3. CASE victim[t] = c
      <4>0. Stage(t, "uncache") = 1
        BY Stages
      <4>1. Born(c) /\ Kills(t, c)
        BY <3>1, <3>3, <4>0 DEF Born, Kills
      <4>2. /\ conns # c /\ \A u \in Thread : Kills(u, c) => u = t
            /\ state[c].current # 4
        BY <1>0, <3>1, <4>0, <4>1 DEF Phase, Staged
      <4>3. ~Entry(c)'
        <5>1. ASSUME NEW u \in Thread, pc'[u] = "uncache", victim'[u] = c PROVE FALSE
          <6>1. u # t /\ pc[u] = "uncache" /\ victim[u] = c
            BY <3>1, <5>1 DEF Only
          <6>2. Kills(u, c)
            BY <6>1, Stages DEF Kills
          <6> QED
            BY <4>2, <6>1, <6>2
        <5> QED
          BY <3>1, <4>2, <5>1 DEF Entry
      <4>4. Entry(c)
        BY <3>1, <3>3 DEF Entry
      <4>5. /\ Cardinality(ActiveHolders(c)') \in Nat /\ Cardinality(ActiveHolders(c)') = Cardinality(ActiveHolders(c))
            /\ \A u \in Thread : u \in ActiveHolders(c)' <=> Holds(u, c)'
        <5>1. Cardinality(ActiveHolders(c)) \in Nat
          BY Holders
        <5> HIDE DEF Holds
        <5> QED
          BY <3>1, <3>2, <5>1, HoldersMove
      <4>6. state'[c].active = Cardinality(ActiveHolders(c)') /\ state'[c].current # 4
        BY <1>0, <3>1, <3>3, <4>1, <4>2, <4>4, <4>5 DEF Active
      <4>7. \A u \in ActiveHolders(c)' : u # c => state'[c].current <= 2
        <5> SUFFICES ASSUME NEW u \in ActiveHolders(c)', u # c PROVE state'[c].current <= 2
          OBVIOUS
        <5>1. u \in Thread /\ Holds(u, c)'
          BY <1>t DEF ActiveHolders, Holds
        <5>2. Holds(u, c)
          BY <3>1, <3>2, <5>1 DEF Holds, Only
        <5>3. u \in ActiveHolders(c)
          BY <5>1, <5>2, Holders
        <5> QED
          BY <1>0, <3>1, <3>3, <4>1, <5>3 DEF Active
      <4> QED
        BY <4>3, <4>5, <4>6, <4>7 DEF Active
    <3>4. CASE victim[t] # c
      <4>1. Entry(c)' <=> Entry(c)
        BY <3>1, <3>4 DEF Entry, Only, Keeps
      <4>2. Still(t) /\ Same
        BY <1>c, <3>1, <3>4, <4>1 DEF Still, Born, Same
      <4> QED
        BY <1>q, <3>2, <4>2
    <3> QED
      BY <3>3, <3>4
  <2>3. CASE ShutdownEffective(t) \/ TerminatedEffective(t)
    <3>1. /\ Shape' /\ Only(t) /\ Keeps(t) /\ life' = life /\ conns' = conns
          /\ pc[t] \in {"shutdown", "terminated"} /\ pc'[t] \in {"join", "pending"}
          /\ victim[t] \in Conn /\ life[victim[t]] = "open"
          /\ state[victim[t]].active = 0 /\ state'[victim[t]].active = 0
          /\ \A d \in Conn : d # victim[t] => state'[d] = state[d]
      BY <1>0, <2>3, EffectiveStep
    <3>2. ~Holds(t, c) /\ ~Holds(t, c)' /\ Still(t)
      BY <1>e, <1>f, <1>h, <3>1
    <3>3. CASE victim[t] = c
      <4>1. Born(c)
        BY <3>1, <3>3 DEF Born
      <4>2. Cardinality(ActiveHolders(c)) \in Nat
        BY Holders
      <4>3. Cardinality(ActiveHolders(c)) = 0 /\ ~Entry(c)
        BY <1>0, <3>1, <3>3, <4>1, <4>2 DEF Active
      <4>4. \A u \in Thread : ~Holds(u, c)
        BY <4>3, Holders
      <4>5. Cardinality(ActiveHolders(c)') = 0
        <5> HIDE DEF Holds
        <5> QED
          BY <3>1, <3>2, <4>3, HoldersMove
      <4>6. ActiveHolders(c)' = {}
        <5> SUFFICES ASSUME NEW u \in ActiveHolders(c)' PROVE FALSE
          OBVIOUS
        <5>1. u \in Thread /\ Holds(u, c)'
          BY <1>t DEF ActiveHolders, Holds
        <5> QED
          BY <3>1, <3>2, <4>4, <5>1 DEF Holds, Only
      <4>7. ~Entry(c)'
        BY <3>2, <4>3 DEF Still
      <4> QED
        BY <3>1, <3>3, <4>5, <4>6, <4>7 DEF Active
    <3>4. CASE victim[t] # c
      BY <1>q, <3>1, <3>2, <3>4 DEF Same
    <3> QED
      BY <3>3, <3>4
  <2>4. CASE Join(t)
    <3>1. /\ Shape' /\ Only(t) /\ pc[t] = "join" /\ pc'[t] = "terminated" /\ victim[t] \in Conn
          /\ life' = life /\ conns' = conns
          /\ state'[victim[t]].active = state[victim[t]].active
          /\ state'[victim[t]].current = state[victim[t]].current
          /\ \A d \in Conn : d # victim[t] => state'[d] = state[d]
      BY <1>0, <2>4, JoinStep
    <3>2. Same
      BY <3>1 DEF Same
    <3> QED
      BY <1>e, <1>f, <1>h, <1>q, <3>1, <3>2
  <2>5. CASE NextPending(t)
    <3>1. /\ Shape' /\ Only(t) /\ pc[t] = "pending" /\ pc'[t] \in {"redo", "abort"} /\ UNCHANGED <<connVars, cacheVars>>
      BY <1>0, <2>5, NextPendingStep
    <3> QED
      BY <1>e, <1>f, <1>h, <1>m, <1>q, <1>0, <3>1
  <2>6. CASE Abort(t) \/ Redo(t)
    <3>1. /\ Shape' /\ Only(t) /\ pc[t] \in {"redo", "abort"} /\ pc'[t] \in {"pending", "lookup"}
          /\ UNCHANGED <<connVars, cacheVars>>
      BY <1>0, <2>6, DropStep
    <3> QED
      BY <1>e, <1>f, <1>h, <1>m, <1>q, <1>0, <3>1
  <2>7. CASE KillEnd(t)
    <3>1. /\ Shape' /\ Only(t) /\ Left(t) /\ pc[t] = "pending"
          /\ UNCHANGED <<serverVars, callVars, life, state, cacheVars, ids, kept, fault>>
      BY <1>0, <2>7, KillEndStep
    <3>2. pc'[t] \in {"select", "done", "idle"}
      BY <3>1 DEF Left
    <3> QED
      BY <1>e, <1>f, <1>h, <1>m, <1>q, <1>0, <3>1, <3>2
  <2> QED
    BY <1>8, <2>1, <2>2, <2>3, <2>4, <2>5, <2>6, <2>7 DEF kill_conn
<1>9. ASSUME NEW t \in Thread, Fail(t) PROVE Active(c)'
  <2>1. UNCHANGED <<serverVars, callVars, connVars, cacheVars, ids, orb, threadVars, kept>>
    BY <1>0, <1>9, FailStep
  <2> QED
    BY <1>u, <2>1 DEF Born
<1> QED
  BY <1>1, <1>3, <1>4, <1>5, <1>6, <1>7, <1>8, <1>9, Steps

\* No one takes the call over.
LEMMA TokenKept ==
  ASSUME NEW q \in Own, Token(q), ids'[q] = ids[q],
         \A u \in Thread : Has(u, q)' => Has(u, q),
         \A u \in Conn : Deletes(u, q)' <=> Deletes(u, q),
         \A u \in Thread : Drops(u, q)' =>
            (Drops(u, q) /\ victim'[u] = victim[u]) \/ ids[q] = [conn |-> victim'[u], active |-> TRUE],
         pc'[q] \in Gone <=> pc[q] \in Gone, pc'[q] = "idle" => pc[q] = "idle",
         \A u \in Thread \ {q} : carries'[u] = q => carries[u] = q \/ pc[q] # "idle"
  PROVE  Token(q)'
<1> HIDE DEF Has, Deletes, Drops, Gone
<1>1. \A t, u \in Thread : Has(t, q)' /\ Has(u, q)' => t = u
  BY DEF Token
<1>2. ids'[q] # NoRec => \A t \in Thread : ~Has(t, q)'
  BY DEF Token
<1>3. \A t \in Conn : Deletes(t, q)' => ids'[q] = [conn |-> t, active |-> FALSE] /\ pc'[q] \notin Gone
  BY DEF Token
<1>4. pc'[q] \in Gone => ids'[q].conn \in Conn /\ ~ids'[q].active
  BY DEF Token
<1>5. ids'[q].conn \in Conn /\ ~ids'[q].active => pc'[q] \in Gone \/ \E t \in Conn : Deletes(t, q)'
  BY DEF Token
<1>6. pc'[q] = "idle" => ids'[q] = NoRec /\ \A t \in Thread \ {q} : carries'[t] # q
  BY DEF Token
<1>7. ASSUME NEW t \in Thread, Drops(t, q)'
      PROVE  \/ ids'[q] = [conn |-> victim'[t], active |-> TRUE]
             \/ /\ q \in Impatient /\ ~ids'[q].active /\ ids'[q].conn \in {victim'[t], NoConn}
                /\ \A u \in Thread : ~Has(u, q)'
  BY <1>7 DEF Token
<1> HIDE DEF NoRec
<1> QED
  BY <1>1, <1>2, <1>3, <1>4, <1>5, <1>6, <1>7 DEF Token

\* Who is about to drop a call that waits for an answer from c has terminated c.
LEMMA DroppersOf ==
  ASSUME Inv, NEW t \in Thread, NEW q \in Own, Drops(t, q), NEW c \in Conn, victim[t] = c
  PROVE  /\ Kills(t, c) /\ Born(c) /\ state[c].current = 4 /\ state[c].new = 4 /\ pc[c] \notin Heard
         /\ \A u \in Thread : Kills(u, c) => u = t
<1>1. Stage(t, pc[t]) = 5
  BY Stages DEF Drops
<1>2. Kills(t, c)
  BY <1>1 DEF Kills
<1>3. Born(c)
  BY Before, BornWhen
<1>4. Phase(c)
  BY Before
<1> HIDE DEF Kills
<1> QED
  BY <1>1, <1>2, <1>3, <1>4 DEF Phase, Staged

\* What a record tells.
LEMMA TokenFacts ==
  ASSUME NEW q \in Own, Token(q)
  PROVE  /\ ids[q] # NoRec => \A t \in Thread : ~Has(t, q)
         /\ \A t \in Conn : Deletes(t, q) =>
              ids[q] # NoRec /\ ids[q].conn = t /\ ~ids[q].active /\ pc[q] \notin Gone
         /\ ids[q].active => ids[q] # NoRec /\ pc[q] \notin Gone /\ pc[q] # "idle"
         /\ \A t \in Thread : Drops(t, q) =>
              \/ /\ ids[q] = [conn |-> victim[t], active |-> TRUE]
                 /\ ids[q].active /\ ids[q].conn = victim[t]
              \/ /\ q \in Impatient /\ ~ids[q].active /\ ids[q].conn \in {victim[t], NoConn}
                 /\ \A u \in Thread : ~Has(u, q)
<1> HIDE DEF Has, Deletes, Drops
<1>1. ASSUME NEW c, NEW b PROVE [conn |-> c, active |-> b].conn = c /\ [conn |-> c, active |-> b].active = b
  OBVIOUS
<1>2. ~NoRec.active /\ NoRec.conn = NoConn /\ NoConn \notin Conn
  BY Kinds DEF NoRec
<1>3. ids[q].active => ids[q] # NoRec /\ pc[q] \notin Gone /\ pc[q] # "idle"
  BY <1>2 DEF Token
<1>4. \A t \in Conn : Deletes(t, q) =>
              ids[q] # NoRec /\ ids[q].conn = t /\ ~ids[q].active /\ pc[q] \notin Gone
  <2> SUFFICES ASSUME NEW t \in Conn, Deletes(t, q)
               PROVE  ids[q] # NoRec /\ ids[q].conn = t /\ ~ids[q].active /\ pc[q] \notin Gone
    OBVIOUS
  <2>1. ids[q] = [conn |-> t, active |-> FALSE] /\ pc[q] \notin Gone
    BY DEF Token
  <2>2. ids[q].conn = t /\ ~ids[q].active
    BY <2>1
  <2> QED
    BY <1>2, <2>1, <2>2
<1>5. \A t \in Thread : Drops(t, q) =>
              \/ /\ ids[q] = [conn |-> victim[t], active |-> TRUE]
                 /\ ids[q].active /\ ids[q].conn = victim[t]
              \/ /\ q \in Impatient /\ ~ids[q].active /\ ids[q].conn \in {victim[t], NoConn}
                 /\ \A u \in Thread : ~Has(u, q)
  BY DEF Token
<1> QED
  BY <1>3, <1>4, <1>5 DEF Token

\* A step leaves a call with one thread, or with its record.
LEMMA TokenInv ==
  ASSUME Inv, Next, NEW q \in Own
  PROVE  Token(q)'
<1> USE DEF serverVars, callVars, connVars, cacheVars, threadVars
<1> DEFINE Quiet(t) == /\ Only(t) /\ (Has(t, q)' => Has(t, q)) /\ (Deletes(t, q)' <=> Deletes(t, q))
                       /\ Drops(t, q)' => \/ Drops(t, q) /\ victim'[t] = victim[t]
                                          \/ ids[q] = [conn |-> victim'[t], active |-> TRUE]
                       /\ t = q => (pc'[q] \in Gone <=> pc[q] \in Gone) /\ pc'[q] # "idle"
                       /\ carries'[t] = q => carries[t] = q \/ pc[q] # "idle"
           Plain(l) == l \notin Early \cup {"answer", "giveback", "delete", "abort", "redo"} \cup Gone
<1>q. q \in Caller /\ q \in Thread /\ q \notin Oneway /\ q \notin Conn /\ q # NoCall
  BY Kinds
<1>0. Shape /\ Token(q) /\ ThreadShape /\ IdShape /\ Once(q) /\ Outcome(q)
  BY <1>q, Before
<1> HIDE DEF Has, Deletes, Drops
<1>d. /\ ids[q] # NoRec => \A u \in Thread : ~Has(u, q)
      /\ \A u \in Conn : Deletes(u, q) =>
           ids[q] # NoRec /\ ids[q].conn = u /\ ~ids[q].active /\ pc[q] \notin Gone
      /\ ids[q].active => ids[q] # NoRec /\ pc[q] \notin Gone /\ pc[q] # "idle"
      /\ \A u \in Thread : Drops(u, q) =>
           \/ /\ ids[q] = [conn |-> victim[u], active |-> TRUE]
              /\ ids[q].active /\ ids[q].conn = victim[u]
           \/ /\ q \in Impatient /\ ~ids[q].active /\ ids[q].conn \in {victim[u], NoConn}
              /\ \A v \in Thread : ~Has(v, q)
  BY <1>0, TokenFacts
<1>t. Main \in Thread /\ Main \notin Caller
  BY Kinds
<1>n. NoRec.conn = NoConn /\ ~NoRec.active /\ NoConn \notin Conn
  BY Kinds DEF NoRec
<1>l. /\ Early = {"lookup", "connect", "cache", "ref", "add"}
      /\ Gone = {"sendcancel", "derefcancel", "delcancel"}
      /\ \A l : Plain(l) <=> l \notin {"lookup", "connect", "cache", "ref", "add", "answer", "giveback",
                                       "delete", "abort", "redo", "sendcancel", "derefcancel", "delcancel"}
  BY DEF Early, Gone, Cancelling
<1>k. ASSUME NEW t \in Thread, Quiet(t), ids'[q] = ids[q] PROVE Token(q)'
  <2>1. ASSUME NEW u \in Thread, u # t
        PROVE  /\ Has(u, q)' <=> Has(u, q)
               /\ Deletes(u, q)' <=> Deletes(u, q)
               /\ Drops(u, q)' <=> Drops(u, q)
               /\ victim'[u] = victim[u] /\ carries'[u] = carries[u] /\ pc'[u] = pc[u]
    BY <1>k, <2>1 DEF Only, Has, Adds, Answers, Deletes, Drops
  <2>2. \A u \in Thread : Has(u, q)' => Has(u, q)
    BY <1>k, <2>1
  <2>3. \A u \in Conn : Deletes(u, q)' <=> Deletes(u, q)
    BY <1>k, <2>1, Kinds
  <2>4. \A u \in Thread : Drops(u, q)' =>
          (Drops(u, q) /\ victim'[u] = victim[u]) \/ ids[q] = [conn |-> victim'[u], active |-> TRUE]
    BY <1>k, <2>1
  <2>5. (pc'[q] \in Gone <=> pc[q] \in Gone) /\ (pc'[q] = "idle" => pc[q] = "idle")
    BY <1>k, <1>q, <2>1
  <2>6. \A u \in Thread \ {q} : carries'[u] = q => carries[u] = q \/ pc[q] # "idle"
    BY <1>k, <2>1
  <2> HIDE DEF Has, Deletes, Drops
  <2> QED
    BY <1>0, <1>k, <2>2, <2>3, <2>4, <2>5, <2>6, TokenKept
<1>p. ASSUME NEW t \in Thread, Only(t), carries'[t] = carries[t], victim'[t] = victim[t], t # q, carries[t] # q
      PROVE  Quiet(t)
  BY <1>p DEF Has, Adds, Answers, Deletes, Drops
<1>r. ASSUME NEW t \in Thread, Only(t), Plain(pc[t]), Plain(pc'[t]), t = q => pc'[t] # "idle",
             carries'[t] = q => carries[t] = q \/ pc[q] # "idle"
      PROVE  Quiet(t)
  BY <1>r DEF Has, Adds, Answers, Deletes, Drops
<1>u. ASSUME UNCHANGED <<pc, carries, victim>>, ids'[q] = ids[q]
      PROVE  Token(q)'
  <2>1. \A u \in Thread : Has(u, q)' <=> Has(u, q)
    BY <1>u DEF Has, Adds, Answers
  <2>2. \A u \in Thread : (Deletes(u, q)' <=> Deletes(u, q)) /\ (Drops(u, q)' <=> Drops(u, q))
    BY <1>u DEF Deletes, Drops
  <2> HIDE DEF Has, Deletes, Drops
  <2> QED
    BY <1>0, <1>u, <2>1, <2>2, TokenKept, Kinds
<1> HIDE DEF Quiet, Plain
<1>1. ASSUME NEW d \in Conn,
             Serve(d) \/ Crash(d) \/ \E k \in {"close", "error"} : ServerCloses(d, k)
      PROVE  Token(q)'
  <2>1. UNCHANGED <<callVars, connVars, cacheVars, ids, orb, threadVars, kept, fault>>
    BY <1>0, <1>1, PeerStep
  <2> QED
    BY <1>u, <2>1
<1>3. ASSUME NEW d \in Conn, Reader(d) PROVE Token(q)'
  <2>d. d \in Thread /\ d # q /\ d \notin Caller
    BY <1>q, Kinds
  <2>1. CASE Select(d) \/ LeaveLoop(d)
    <3>1. Only(d) /\ Keeps(d) /\ pc[d] = "select" /\ pc'[d] \in {"reading", "done"} /\ ids' = ids
      BY <1>0, <2>1, SelectStep
    <3> QED
      BY <1>k, <1>l, <1>r, <2>d, <3>1 DEF Keeps
  <2>2. CASE Read(d)
    <3>1. /\ Only(d) /\ pc[d] = "reading" /\ pc'[d] \in {"select", "pull", "closing"} /\ ids' = ids
          /\ inbox[d] # <<>> /\ inbox[d] \in Seq(BackMsg)
          /\ \/ carries'[d] = carries[d]
             \/ Head(inbox[d]) \in BackMsg /\ carries'[d] = Head(inbox[d]).call
      BY <1>0, <2>2, ReadStep
    <3>2. carries'[d] = q => carries[d] = q \/ pc[q] # "idle"
      <4> SUFFICES ASSUME Head(inbox[d]) \in BackMsg, Head(inbox[d]).call = q PROVE pc[q] # "idle"
        BY <3>1
      <4>1. Head(inbox[d]) = [kind |-> "reply", call |-> q]
        BY <1>q DEF BackMsg
      <4>2. 1 \in DOMAIN inbox[d] /\ inbox[d][1] = Head(inbox[d])
        BY <3>1, HeadTailProperties, LenProperties
      <4>3. Replied(d, q)
        BY <4>1, <4>2 DEF Replied
      <4>4. executed[q] = 1
        BY <1>0, <4>3 DEF Once
      <4> QED
        BY <1>0, <4>4 DEF Outcome
    <3> QED
      BY <1>k, <1>l, <1>r, <2>d, <3>1, <3>2
  <2>3. CASE ReadEnd(d)
    BY <1>0, <1>k, <1>l, <1>r, <2>3, <2>d, ReadEndStep DEF Keeps
  <2>4. CASE Pull(d)
    <3>1. /\ Only(d) /\ Keeps(d) /\ pc[d] = "pull" /\ life[d] = "open"
          /\ \A p \in Caller : p # carries[d] => ids'[p] = ids[p]
      BY <1>0, <2>4, PullStep
    <3>2. \/ /\ ids[carries[d]] = [conn |-> ids[carries[d]].conn, active |-> TRUE]
             /\ ids'[carries[d]] = [conn |-> ids[carries[d]].conn, active |-> FALSE]
             /\ pc'[d] = "delete"
          \/ ids' = ids /\ pc'[d] = "release"
      BY <1>0, <2>4, PullStep
    <3>3. CASE carries[d] # q
      BY <1>k, <1>p, <1>q, <2>d, <3>1, <3>3 DEF Keeps
    <3>4. CASE carries[d] = q /\ ids' = ids /\ pc'[d] = "release"
      BY <1>k, <1>l, <1>r, <2>d, <3>1, <3>4 DEF Keeps
    <3>5. CASE /\ carries[d] = q /\ pc'[d] = "delete"
               /\ ids[q] = [conn |-> ids[q].conn, active |-> TRUE]
               /\ ids'[q] = [conn |-> ids[q].conn, active |-> FALSE]
      <4>1. ids[q].active
        BY <3>5
      <4>2. ids[q].conn = d
        <5>1. Reads(d, q)
          BY <3>1, <3>5 DEF Reads
        <5> QED
          BY <1>0, <4>1, <5>1 DEF Once
      <4>3. \A u \in Thread : ~Has(u, q)
        BY <1>0, <1>n, <4>1 DEF Token
      <4>4. \A u \in Thread : ~Has(u, q)'
        BY <3>1, <3>5, <4>3, <1>l DEF Has, Adds, Answers, Only
      <4>5. \A u \in Conn : Deletes(u, q)' <=> u = d
        <5>1. \A u \in Conn : ~Deletes(u, q)
          BY <1>d, <4>1
        <5> QED
          BY <2>d, <3>1, <3>5, <5>1, Kinds DEF Deletes, Only, Keeps
      <4>6. pc'[q] \notin Gone /\ pc'[q] # "idle"
        BY <1>0, <1>n, <1>q, <2>d, <3>1, <4>1 DEF Token, Only
      <4>7. \A u \in Thread : ~Drops(u, q)'
        <5> SUFFICES ASSUME NEW u \in Thread, Drops(u, q)' PROVE FALSE
          OBVIOUS
        <5>1. u # d /\ Drops(u, q)
          BY <3>1, <3>5 DEF Drops, Only
        <5>2. victim[u] = d
          BY <1>d, <4>1, <4>2, <5>1
        <5> QED
          BY <3>1, <5>1, <5>2, DroppersOf DEF Heard, Handling
      <4> HIDE DEF Has, Deletes, Drops
      <4> QED
        BY <2>d, <3>5, <4>2, <4>4, <4>5, <4>6, <4>7 DEF Token
    <3> QED
      BY <3>2, <3>3, <3>4, <3>5
  <2>5. CASE Delete(d)
    <3>1. /\ Only(d) /\ Keeps(d) /\ pc[d] = "delete" /\ pc'[d] = "answer" /\ life[d] = "open"
          /\ ids'[carries[d]] = NoRec /\ \A p \in Caller : p # carries[d] => ids'[p] = ids[p]
      BY <1>0, <2>5, DeleteStep
    <3>2. CASE carries[d] # q
      BY <1>k, <1>p, <1>q, <2>d, <3>1, <3>2 DEF Keeps
    <3>3. CASE carries[d] = q
      <4>1. ids[q] = [conn |-> d, active |-> FALSE] /\ pc[q] \notin Gone
        BY <1>0, <3>1, <3>3 DEF Token, Deletes
      <4>2. ids[q].conn = d /\ ~ids[q].active /\ ids[q] # NoRec
        BY <1>n, <4>1
      <4>3. \A u \in Thread : ~Has(u, q)
        BY <1>d, <4>2
      <4>4. \A u \in Thread : Has(u, q)' => u = d
        BY <3>1, <4>3 DEF Has, Adds, Answers, Only
      <4>5. \A u \in Conn : ~Deletes(u, q)'
        <5> SUFFICES ASSUME NEW u \in Conn, Deletes(u, q)' PROVE FALSE
          OBVIOUS
        <5>1. u # d /\ Deletes(u, q)
          BY <3>1, <5>1, Kinds DEF Deletes, Only
        <5> QED
          BY <1>d, <4>2, <5>1
      <4>6. pc'[q] \notin Gone /\ pc'[q] # "idle"
        BY <1>0, <1>q, <2>d, <3>1, <4>1, <4>2 DEF Token, Only
      <4>7. \A u \in Thread : ~Drops(u, q)'
        <5> SUFFICES ASSUME NEW u \in Thread, Drops(u, q)' PROVE FALSE
          OBVIOUS
        <5>1. u # d /\ Drops(u, q)
          BY <3>1 DEF Drops, Only
        <5>2. victim[u] = d
          BY <1>d, <4>2, <5>1, Kinds
        <5> QED
          BY <3>1, <5>1, <5>2, DroppersOf DEF Heard, Handling
      <4>8. ids'[q] = NoRec
        BY <3>1, <3>3
      <4> HIDE DEF Has, Deletes, Drops
      <4> QED
        BY <1>n, <4>4, <4>5, <4>6, <4>7, <4>8 DEF Token
    <3> QED
      BY <3>2, <3>3
  <2>6. CASE Answer(d)
    <3>1. Only(d) /\ Keeps(d) /\ pc[d] = "answer" /\ pc'[d] = "giveback" /\ ids' = ids
      BY <1>0, <2>6, AnswerStep
    <3>2. Quiet(d)
      BY <1>l, <2>d, <3>1 DEF Quiet, Keeps, Has, Adds, Answers, Deletes, Drops
    <3> QED
      BY <1>k, <2>d, <3>1, <3>2
  <2>7. CASE GiveBack(d)
    <3>1. Only(d) /\ Keeps(d) /\ pc[d] = "giveback" /\ pc'[d] = "release" /\ ids' = ids
      BY <1>0, <2>7, GiveBackStep
    <3>2. Quiet(d)
      BY <1>l, <2>d, <3>1 DEF Quiet, Keeps, Has, Adds, Answers, Deletes, Drops
    <3> QED
      BY <1>k, <2>d, <3>1, <3>2
  <2>8. CASE Release(d) \/ Closing(d)
    <3>1. /\ Only(d) /\ pc[d] \in {"release", "closing"} /\ pc'[d] \in {"reading", "unlist"}
          /\ carries'[d] \in {carries[d], NoCall} /\ ids' = ids
      BY <1>0, <2>8, ReleaseStep
    <3> QED
      BY <1>k, <1>l, <1>q, <1>r, <2>d, <3>1
  <2> QED
    BY <1>3, <2>1, <2>2, <2>3, <2>4, <2>5, <2>6, <2>7, <2>8 DEF Reader
<1>4. ASSUME NEW p \in Caller, Begin(p) \/ CallStep(p) \/ TimeOut(p) \/ Cancel(p) PROVE Token(q)'
  <2>d. p \in Thread /\ carries[p] = p
    BY <1>0, Kinds DEF ThreadShape, Place
  <2>a. ASSUME Only(p), Keeps(p), p # q, ids'[q] = ids[q] PROVE Token(q)'
    BY <1>k, <1>p, <2>a, <2>d DEF Keeps
  <2>b. ASSUME Only(p), Keeps(p), p = q, ids' = ids, pc[q] # "idle", pc'[q] # "idle",
               pc'[q] \in Gone <=> pc[q] \in Gone, Has(q, q)' => Has(q, q), pc'[q] \notin {"abort", "redo"}
        PROVE  Token(q)'
    <3>1. Quiet(q)
      BY <1>q, <2>b DEF Quiet, Keeps, Deletes, Drops
    <3> QED
      BY <1>k, <1>q, <2>b, <3>1
  <2>1. CASE Begin(p)
    <3>1. Only(p) /\ Keeps(p) /\ pc[p] = "idle" /\ pc'[p] = "lookup" /\ ids' = ids
      BY <1>0, <2>1, BeginStep
    <3>2. CASE p = q
      <4>1. ids[q] = NoRec /\ \A u \in Thread \ {q} : carries[u] # q
        BY <1>0, <3>1, <3>2 DEF Token
      <4>2. \A u \in Thread \ {q} : carries'[u] # q
        BY <3>1, <3>2, <4>1 DEF Only
      <4>3. \A u \in Thread : (Has(u, q)' => u = q) /\ ~Deletes(u, q)' /\ ~Drops(u, q)'
        BY <1>q, <3>1, <3>2, <4>2 DEF Has, Adds, Answers, Deletes, Drops
      <4>4. pc'[q] \notin Gone /\ pc'[q] # "idle"
        BY <1>l, <3>1, <3>2
      <4> HIDE DEF Has, Deletes, Drops
      <4> QED
        BY <1>n, <3>1, <4>1, <4>3, <4>4, Kinds DEF Token
    <3> QED
      BY <2>a, <3>1, <3>2
  <2>2. CASE Return(p)
    <3>1. Only(p) /\ Keeps(p) /\ pc[p] = "wait" /\ pc'[p] = "done" /\ ids' = ids
      BY <1>0, <2>2, ReturnStep
    <3>2. CASE p = q
      BY <1>l, <1>q, <2>b, <3>1, <3>2 DEF Has, Adds, Answers
    <3> QED
      BY <2>a, <3>1, <3>2
  <2>3. CASE TimeOut(p)
    <3>1. /\ p \in Impatient /\ pc[p] = "wait" /\ ids[p] = [conn |-> ids[p].conn, active |-> TRUE]
          /\ ids'[p] = NoRec /\ \A r \in Caller : r # p => ids'[r] = ids[r]
          /\ UNCHANGED threadVars
      BY <1>0, <2>3, TimeOutStep
    <3>2. CASE p # q
      BY <1>q, <1>u, <3>1, <3>2
    <3>3. CASE p = q
      <4>1. ids[q].active /\ ids[q] # NoRec
        BY <1>n, <3>1, <3>3
      <4>2. \A u \in Thread : ~Has(u, q)
        BY <1>d, <4>1
      <4>3. \A u \in Thread : ~Has(u, q)'
        BY <3>1, <4>2 DEF Has, Adds, Answers
      <4>4. \A u \in Conn : ~Deletes(u, q)'
        <5>1. \A u \in Conn : ~Deletes(u, q)
          BY <1>d, <4>1
        <5> QED
          BY <3>1, <5>1 DEF Deletes
      <4>5. pc'[q] \notin Gone /\ pc'[q] # "idle" /\ ids'[q] = NoRec /\ q \in Impatient
        BY <1>l, <3>1, <3>3
      <4> HIDE DEF Has, Deletes, Drops
      <4> QED
        BY <1>n, <4>3, <4>4, <4>5 DEF Token
    <3> QED
      BY <3>2, <3>3
  <2>4. CASE Cancel(p)
    <3>1. /\ Only(p) /\ Keeps(p) /\ p \in Impatient /\ pc[p] = "wait"
          /\ \A r \in Caller : r # p => ids'[r] = ids[r]
      BY <1>0, <2>4, CancelStep
    <3>2. \/ /\ ids[p] = [conn |-> ids[p].conn, active |-> TRUE] /\ ids[p].conn \in Conn
             /\ ids'[p] = [conn |-> ids[p].conn, active |-> FALSE] /\ pc'[p] = "sendcancel"
          \/ ids' = ids /\ pc'[p] = "done"
      BY <1>0, <2>4, CancelStep
    <3>3. CASE p # q
      BY <1>q, <2>a, <3>1, <3>3
    <3>4. CASE p = q /\ ids' = ids /\ pc'[p] = "done"
      BY <1>l, <1>q, <2>b, <3>1, <3>4 DEF Has, Adds, Answers
    <3>5. CASE /\ p = q /\ pc'[q] = "sendcancel"
               /\ ids[q] = [conn |-> ids[q].conn, active |-> TRUE] /\ ids[q].conn \in Conn
               /\ ids'[q] = [conn |-> ids[q].conn, active |-> FALSE]
      <4>1. ids[q].active /\ ids[q] # NoRec /\ ids'[q].conn = ids[q].conn /\ ~ids'[q].active
        BY <1>n, <3>5
      <4>2. \A u \in Thread : ~Has(u, q)
        BY <1>d, <4>1
      <4>3. \A u \in Thread : ~Has(u, q)'
        BY <1>l, <1>q, <3>1, <3>5, <4>2 DEF Has, Adds, Answers, Only
      <4>4. \A u \in Conn : ~Deletes(u, q)'
        <5>1. \A u \in Conn : ~Deletes(u, q)
          BY <1>d, <4>1
        <5> QED
          BY <1>q, <3>1, <3>5, <5>1, Kinds DEF Deletes, Only
      <4>5. \A u \in Thread : Drops(u, q)' => ids'[q].conn = victim'[u]
        <5> SUFFICES ASSUME NEW u \in Thread, Drops(u, q)' PROVE ids'[q].conn = victim'[u]
          OBVIOUS
        <5>1. u # q /\ Drops(u, q) /\ victim'[u] = victim[u]
          BY <3>1, <3>5 DEF Drops, Only
        <5>2. ids[q].conn = victim[u]
          BY <1>d, <4>1, <5>1
        <5> QED
          BY <4>1, <5>1, <5>2
      <4>6. pc'[q] \in Gone /\ q \in Impatient
        BY <1>l, <3>1, <3>5
      <4> HIDE DEF Has, Deletes, Drops
      <4> QED
        BY <1>l, <3>5, <4>1, <4>3, <4>4, <4>5, <4>6 DEF Token
    <3> QED
      BY <3>2, <3>3, <3>4, <3>5
  <2>5. CASE SendCancel(p)
    <3>1. ids[p].conn \in Conn
      BY <2>5, CancelRecord DEF SendCancel, At, Gone, Cancelling
    <3>2. Only(p) /\ Keeps(p) /\ pc[p] = "sendcancel" /\ pc'[p] = "derefcancel" /\ ids' = ids
      BY <1>0, <2>5, <3>1, SendCancelStep
    <3>3. CASE p = q
      BY <1>l, <1>q, <2>b, <3>2, <3>3 DEF Has, Adds, Answers
    <3> QED
      BY <2>a, <3>2, <3>3
  <2>6. CASE DerefCancel(p)
    <3>1. ids[p].conn \in Conn
      BY <2>6, CancelRecord DEF DerefCancel, At, Gone, Cancelling
    <3>2. Only(p) /\ Keeps(p) /\ pc[p] = "derefcancel" /\ pc'[p] = "delcancel" /\ ids' = ids
      BY <1>0, <2>6, <3>1, DerefCancelStep
    <3>3. CASE p = q
      BY <1>l, <1>q, <2>b, <3>2, <3>3 DEF Has, Adds, Answers
    <3> QED
      BY <2>a, <3>2, <3>3
  <2>7. CASE DelCancel(p)
    <3>1. /\ Only(p) /\ Keeps(p) /\ pc[p] = "delcancel" /\ pc'[p] = "done"
          /\ ids'[p] = NoRec /\ \A r \in Caller : r # p => ids'[r] = ids[r]
      BY <1>0, <2>7, DelCancelStep
    <3>2. CASE p # q
      BY <1>q, <2>a, <3>1, <3>2
    <3>3. CASE p = q
      <4>1. ids[q].conn \in Conn /\ ~ids[q].active /\ pc[q] \in Gone /\ ids[q] # NoRec
        BY <1>0, <1>l, <1>n, <3>1, <3>3 DEF Token
      <4>2. \A u \in Thread : ~Has(u, q)
        BY <1>d, <4>1
      <4>3. \A u \in Thread : ~Has(u, q)'
        BY <1>l, <1>q, <3>1, <3>3, <4>2 DEF Has, Adds, Answers, Only
      <4>4. \A u \in Conn : ~Deletes(u, q)'
        <5>1. \A u \in Conn : ~Deletes(u, q)
          BY <1>d, <4>1
        <5> QED
          BY <1>q, <3>1, <3>3, <5>1, Kinds DEF Deletes, Only
      <4>5. \A u \in Thread : Drops(u, q)' => q \in Impatient
        <5> SUFFICES ASSUME NEW u \in Thread, Drops(u, q)' PROVE q \in Impatient
          OBVIOUS
        <5>1. u # q /\ Drops(u, q)
          BY <3>1, <3>3 DEF Drops, Only
        <5> QED
          BY <1>d, <4>1, <5>1
      <4>6. pc'[q] \notin Gone /\ pc'[q] # "idle" /\ ids'[q] = NoRec
        BY <1>l, <3>1, <3>3
      <4> HIDE DEF Has, Deletes, Drops
      <4> QED
        BY <1>n, <4>3, <4>4, <4>5, <4>6 DEF Token
    <3> QED
      BY <3>2, <3>3
  <2> QED
    BY <1>4, <2>1, <2>2, <2>3, <2>4, <2>5, <2>6, <2>7 DEF CallStep
<1>5. ASSUME NEW o \in OrbWorker, Pool(o) PROVE Token(q)'
  <2>d. o \in Thread /\ o # q
    BY <1>q, Kinds
  <2>1. CASE TakeClose(o)
    BY <1>0, <1>k, <1>l, <1>r, <2>1, <2>d, TakeCloseStep
  <2>2. CASE TakeKill(o)
    BY <1>0, <1>u, <2>2, TakeKillStep
  <2> QED
    BY <1>5, <2>1, <2>2 DEF Pool
<1>6. CASE Shutdown
  <2>1. /\ Only(Main) /\ pc[Main] = "idle" /\ pc'[Main] \in {"done", "unlist"}
        /\ carries'[Main] = carries[Main] /\ ids' = ids
    BY <1>0, <1>6, ShutdownStep
  <2> QED
    BY <1>k, <1>l, <1>q, <1>r, <1>t, <2>1
<1>7. ASSUME NEW t \in Thread, invoke(t) PROVE Token(q)'
\* the sender goes on
  <2>a. ASSUME Only(t), carries'[t] = carries[t], victim'[t] = victim[t], ids' = ids, pc[t] \in Invoking,
               \/ pc'[t] \in Invoking /\ (pc'[t] \in Early => pc[t] \in Early)
               \/ pc'[t] \in {"wait", "done", "pending"}
        PROVE  Token(q)'
    <3>1. Quiet(t)
      BY <1>l, <2>a DEF Quiet, Has, Adds, Answers, Deletes, Drops, Invoking
    <3> QED
      BY <1>k, <2>a, <3>1
  <2>i. Invoking = {"lookup", "connect", "cache", "ref", "add", "output", "deref"}
    BY DEF Invoking, Early
  <2>1. CASE Lookup(t)
    <3>1. /\ Only(t) /\ pc[t] = "lookup" /\ pc'[t] \in {"ref", "connect"} /\ ids' = ids
          /\ carries'[t] = carries[t] /\ victim'[t] = victim[t]
      BY <1>0, <2>1, LookupStep
    <3> QED
      BY <1>l, <2>a, <2>i, <3>1
  <2>2. CASE FindConn(t) \/ Cache(t)
    <3>1. /\ Only(t) /\ pc[t] \in {"connect", "cache"} /\ pc'[t] \in {"cache", "ref"} /\ ids' = ids
          /\ carries'[t] = carries[t] /\ victim'[t] = victim[t]
      BY <1>0, <2>2, FindStep
    <3> QED
      BY <1>l, <2>a, <2>i, <3>1
  <2>3. CASE NewConn(t)
    <3> DEFINE n == conns'
    <3>1. /\ n \in Conn /\ pc[t] = "connect" /\ pc'[t] = "cache" /\ pc[n] = "idle" /\ pc'[n] = "select"
          /\ \A u \in Thread : u # t /\ u # n => pc'[u] = pc[u]
          /\ UNCHANGED <<victim, carries, ids>>
      BY <1>0, <2>3, NewConnStep
    <3>2. \A u \in Thread : /\ Has(u, q)' <=> Has(u, q)
                            /\ Deletes(u, q)' <=> Deletes(u, q)
                            /\ Drops(u, q)' <=> Drops(u, q)
      BY <1>l, <3>1 DEF Has, Adds, Answers, Deletes, Drops
    <3>3. (pc'[q] \in Gone <=> pc[q] \in Gone) /\ (pc'[q] = "idle" => pc[q] = "idle")
      BY <1>l, <1>q, <3>1
    <3> HIDE DEF Has, Deletes, Drops
    <3> QED
      BY <1>0, <3>1, <3>2, <3>3, TokenKept, Kinds
  <2>4. CASE NoConnection(t)
    <3>1. /\ Only(t) /\ pc[t] = "connect" /\ ids' = ids /\ carries'[t] = carries[t] /\ victim'[t] = victim[t]
          /\ (t \in Conn => pc'[t] = "pending") /\ (t \in Own => pc'[t] = "wait")
          /\ (t \in Oneway => pc'[t] = "done")
      BY <1>0, <2>4, NoConnectionStep, Kinds
    <3>2. t \in Conn \/ t \in Own \/ t \in Oneway
      BY <1>0, <2>i, <3>1, Invokers DEF Own
    <3> QED
      BY <2>a, <2>i, <3>1, <3>2
  <2>5. CASE Ref(t)
    BY <1>0, <1>l, <2>5, <2>a, <2>i, RefStep DEF Keeps
  <2>6. CASE AddInvoke(t)
    <3>1. /\ Only(t) /\ Keeps(t) /\ pc[t] = "add" /\ pc'[t] = "output" /\ on[t] \in Conn
      BY <1>0, <2>6, AddStep
    <3>2. \/ carries[t] \in Oneway /\ ids' = ids
          \/ /\ ids'[carries[t]] = [conn |-> on[t], active |-> TRUE]
             /\ \A r \in Caller : r # carries[t] => ids'[r] = ids[r]
      BY <1>0, <2>6, AddStep
    <3>3. CASE carries[t] # q
      <4>1. ids'[q] = ids[q]
        BY <1>q, <3>2, <3>3
      <4>2. t # q
        BY <1>0, <1>q, <3>3 DEF ThreadShape, Place
      <4> QED
        BY <1>k, <1>p, <3>1, <3>3, <4>1, <4>2 DEF Keeps
    <3>4. CASE carries[t] = q
      <4>1. ids'[q] = [conn |-> on[t], active |-> TRUE]
        BY <1>q, <3>2, <3>4
      <4>2. Has(t, q)
        BY <1>l, <3>1, <3>4 DEF Has, Adds
      <4>3. ids[q] = NoRec /\ \A u \in Thread : Has(u, q) => u = t
        BY <1>0, <1>d, <4>2 DEF Token
      <4>4. \A u \in Thread : ~Has(u, q)'
        BY <1>l, <3>1, <4>3 DEF Has, Adds, Answers, Only
      <4>5. \A u \in Conn : ~Deletes(u, q)'
        <5>1. \A u \in Conn : ~Deletes(u, q)
          BY <1>0, <1>n, <4>3 DEF Token
        <5> QED
          BY <3>1, <5>1, Kinds DEF Deletes, Only
      <4>6. pc'[q] \notin Gone /\ pc'[q] # "idle"
        <5>1. CASE t = q
          BY <1>l, <3>1, <5>1
        <5>2. CASE t # q
          BY <1>0, <1>n, <1>q, <3>1, <3>4, <4>3, <5>2 DEF Token, Only
        <5> QED
          BY <5>1, <5>2
      <4>7. \A u \in Thread : ~Drops(u, q)'
        <5> SUFFICES ASSUME NEW u \in Thread, Drops(u, q)' PROVE FALSE
          OBVIOUS
        <5>1. u # t /\ Drops(u, q)
          BY <3>1 DEF Drops, Only
        <5> QED
          BY <1>d, <4>2, <4>3, <5>1
      <4>8. ids'[q].active
        BY <4>1
      <4> HIDE DEF Has, Deletes, Drops
      <4> QED
        BY <4>1, <4>4, <4>5, <4>6, <4>7, <4>8 DEF Token
    <3> QED
      BY <3>3, <3>4
  <2>7. CASE Output(t)
    BY <1>0, <1>l, <2>7, <2>a, <2>i, OutputStep DEF Keeps
  <2>8. CASE ActiveDeref(t)
    <3>1. /\ Only(t) /\ pc[t] = "deref" /\ ids' = ids /\ carries'[t] = carries[t] /\ victim'[t] = victim[t]
          /\ pc'[t] \in {"pending", "done", "wait"}
      BY <1>0, <2>8, ActiveDerefStep
    <3> QED
      BY <2>a, <2>i, <3>1
  <2> QED
    BY <1>7, <2>1, <2>2, <2>3, <2>4, <2>5, <2>6, <2>7, <2>8 DEF invoke
<1>8. ASSUME NEW t \in Thread, kill_conn(t) PROVE Token(q)'
  <2>d. pc[t] \in Killing => t # q
    BY <1>0, <1>q, KillersOf
  <2>i. Killing = {"unlist", "uncache", "shutdown", "join", "terminated", "pending", "abort", "redo"}
    BY DEF Killing
  <2>1. CASE Unlist(t)
    <3>1. Only(t) /\ pc[t] = "unlist" /\ ids' = ids /\ ((pc'[t] = "uncache" /\ Keeps(t)) \/ Left(t))
      BY <1>0, <2>1, UnlistStep
    <3>2. pc'[t] \in {"uncache", "select", "done", "idle"} /\ carries'[t] \in {carries[t], NoCall}
      BY <3>1 DEF Left, Keeps
    <3> QED
      BY <1>k, <1>l, <1>q, <1>r, <2>d, <2>i, <3>1, <3>2
  <2>2. CASE Uncache(t)
    <3>1. Only(t) /\ Keeps(t) /\ pc[t] = "uncache" /\ pc'[t] = "shutdown" /\ ids' = ids
      BY <1>0, <2>2, UncacheStep
    <3> QED
      BY <1>k, <1>l, <1>q, <1>r, <2>d, <2>i, <3>1 DEF Keeps
  <2>3. CASE ShutdownEffective(t) \/ TerminatedEffective(t)
    <3>1. /\ Only(t) /\ Keeps(t) /\ ids' = ids
          /\ pc[t] \in {"shutdown", "terminated"} /\ pc'[t] \in {"join", "pending"}
      BY <1>0, <2>3, EffectiveStep
    <3> QED
      BY <1>k, <1>l, <1>q, <1>r, <2>d, <2>i, <3>1 DEF Keeps
  <2>4. CASE Join(t)
    <3>1. Only(t) /\ Keeps(t) /\ pc[t] = "join" /\ pc'[t] = "terminated" /\ ids' = ids
      BY <1>0, <2>4, JoinStep
    <3> QED
      BY <1>k, <1>l, <1>q, <1>r, <2>d, <2>i, <3>1 DEF Keeps
  <2>5. CASE NextPending(t)
    <3>1. /\ Only(t) /\ pc[t] = "pending" /\ pc'[t] \in {"redo", "abort"} /\ ids' = ids
          /\ victim'[t] = victim[t] /\ ids[carries'[t]] = [conn |-> victim[t], active |-> TRUE]
      BY <1>0, <2>5, NextPendingStep
    <3>2. carries'[t] = q => pc[q] # "idle" /\ ids[q] = [conn |-> victim'[t], active |-> TRUE]
      <4> SUFFICES ASSUME carries'[t] = q PROVE pc[q] # "idle" /\ ids[q] = [conn |-> victim'[t], active |-> TRUE]
        OBVIOUS
      <4>1. ids[q] = [conn |-> victim'[t], active |-> TRUE] /\ ids[q] # NoRec
        BY <1>n, <3>1
      <4> QED
        BY <1>d, <4>1
    <3>3. Quiet(t)
      BY <1>l, <2>d, <2>i, <3>1, <3>2 DEF Quiet, Has, Adds, Answers, Deletes, Drops
    <3> QED
      BY <1>k, <3>1, <3>3
  <2>6. CASE Abort(t) \/ Redo(t)
    <3>1. /\ Only(t) /\ Keeps(t) /\ victim[t] \in Conn /\ carries[t] \in Own
          /\ ids[carries[t]] = [conn |-> ids[carries[t]].conn, active |-> TRUE]
          /\ ids'[carries[t]] = NoRec /\ \A p \in Caller : p # carries[t] => ids'[p] = ids[p]
          /\ pc[t] \in {"abort", "redo"} /\ pc'[t] \in {"pending", "lookup"}
      BY <1>0, <2>6, DropStep
    <3>2. CASE carries[t] # q
      BY <1>k, <1>p, <1>q, <2>d, <2>i, <3>1, <3>2 DEF Keeps
    <3>3. CASE carries[t] = q
      <4>1. ids[q].active /\ ids[q] # NoRec
        BY <1>n, <3>1, <3>3
      <4>2. Drops(t, q)
        BY <3>1, <3>3 DEF Drops
      <4>3. ids[q] = [conn |-> victim[t], active |-> TRUE]
        BY <1>0, <4>1, <4>2 DEF Token
      <4>4. \A u \in Thread : ~Has(u, q)
        BY <1>d, <4>1
      <4>5. \A u \in Thread : Has(u, q)' => u = t
        BY <3>1, <4>4 DEF Has, Adds, Answers, Only
      <4>6. \A u \in Conn : ~Deletes(u, q)'
        <5>1. \A u \in Conn : ~Deletes(u, q)
          BY <1>d, <4>1
        <5> QED
          BY <3>1, <5>1, Kinds DEF Deletes, Only
      <4>7. pc'[q] \notin Gone /\ pc'[q] # "idle"
        BY <1>0, <1>n, <1>q, <2>d, <2>i, <3>1, <4>1 DEF Token, Only
      <4>8. \A u \in Thread : ~Drops(u, q)'
        <5> SUFFICES ASSUME NEW u \in Thread, Drops(u, q)' PROVE FALSE
          OBVIOUS
        <5>1. u # t /\ Drops(u, q)
          BY <3>1 DEF Drops, Only
        <5>2. ids[q] = [conn |-> victim[u], active |-> TRUE]
          BY <1>d, <4>1, <5>1
        <5>3. victim[u] = victim[t]
          BY <4>3, <5>2
        <5> QED
          BY <3>1, <4>2, <5>1, <5>3, DroppersOf
      <4>9. ids'[q] = NoRec
        BY <3>1, <3>3
      <4> HIDE DEF Has, Deletes, Drops
      <4> QED
        BY <1>n, <4>5, <4>6, <4>7, <4>8, <4>9 DEF Token
    <3> QED
      BY <3>2, <3>3
  <2>7. CASE KillEnd(t)
    <3>1. Only(t) /\ Left(t) /\ pc[t] = "pending" /\ ids' = ids
      BY <1>0, <2>7, KillEndStep
    <3>2. pc'[t] \in {"select", "done", "idle"} /\ carries'[t] = NoCall
      BY <3>1 DEF Left
    <3> QED
      BY <1>k, <1>l, <1>q, <1>r, <2>d, <2>i, <3>1, <3>2
  <2> QED
    BY <1>8, <2>1, <2>2, <2>3, <2>4, <2>5, <2>6, <2>7 DEF kill_conn
<1>9. ASSUME NEW t \in Thread, Fail(t) PROVE Token(q)'
  <2>1. UNCHANGED <<callVars, connVars, cacheVars, ids, orb, threadVars, kept>>
    BY <1>0, <1>9, FailStep
  <2> QED
    BY <1>u, <2>1
<1> QED
  BY <1>1, <1>3, <1>4, <1>5, <1>6, <1>7, <1>8, <1>9, Steps

\* Once its state is terminated it remains so.
LEMMA CurrentKept ==
  ASSUME ConnShape, NEW c \in Conn, Phase(c), Born(c), state[c].current = 4,
         \/ state'[c].current = state[c].current
         \/ state[c].new = 1
  PROVE  state'[c].current = 4
BY PhaseStates

\* A record that was dropped with its reference is not touched.
LEMMA KeptKept ==
  ASSUME NEW q \in Caller, NEW c \in Conn, Kept(q, c), <<q, c>> \in kept' => <<q, c>> \in kept,
         pc'[q] = "idle" => pc[q] = "idle", ids'[q] = ids[q],
         \A u \in Thread : Has(u, q)' => Has(u, q), Answers(c, q)' => Answers(c, q),
         state[c].current = 4 => state'[c].current = 4
  PROVE  Kept(q, c)'
<1> HIDE DEF Has, Answers, NoRec
<1> QED
  BY DEF Kept

\* A step makes no record again that was dropped with its reference.
LEMMA KeptInv ==
  ASSUME Inv, Next, NEW q \in Caller, NEW c \in Conn
  PROVE  Kept(q, c)'
<1> USE DEF serverVars, callVars, connVars, cacheVars, threadVars
<1> DEFINE Still == state[c].current = 4 => state'[c].current = 4
           Plain(l) == l \notin Early \cup {"answer", "giveback"}
<1>0. Shape /\ Kept(q, c) /\ ThreadShape /\ IdShape /\ ConnShape /\ RestShape /\ Unborn(c) /\ Phase(c) /\ Active(c)
  BY Before
<1>q. c \in Thread /\ q \in Thread /\ q # NoCall /\ c # q /\ q \notin Conn
  BY Kinds
<1>t. Main \in Thread /\ Main \notin Caller /\ Main \notin Conn
  BY Kinds
<1>n. NoRec.conn = NoConn /\ ~NoRec.active /\ NoConn \notin Conn
  BY Kinds DEF NoRec
<1>l. /\ Early = {"lookup", "connect", "cache", "ref", "add"}
      /\ Invoking = {"lookup", "connect", "cache", "ref", "add", "output", "deref"}
      /\ Killing = {"unlist", "uncache", "shutdown", "join", "terminated", "pending", "abort", "redo"}
      /\ \A l : Plain(l) <=> l \notin {"lookup", "connect", "cache", "ref", "add", "answer", "giveback"}
  BY DEF Early, Invoking, Killing
<1>o. <<q, c>> \in kept => q \in Own /\ Born(c) /\ Token(q)
  <2>1. <<q, c>> \in kept => q \in Own
    BY <1>0 DEF RestShape
  <2> QED
    BY <1>0, <2>1, Before DEF Unborn, Born
<1>s. /\ state' = state => Still
      /\ \A d \in Conn, n \in {1, -1} : Counted(d, n) => Still
      /\ <<q, c>> \in kept /\ (\E d \in Conn : MayClose(d)) => Still
  <2>1. ASSUME NEW d \in Conn, NEW n, Counted(d, n) PROVE Still
    BY <2>1 DEF Counted
  <2>2. ASSUME <<q, c>> \in kept, NEW d \in Conn, MayClose(d) PROVE Still
    BY <1>0, <1>o, <2>2, CurrentKept DEF MayClose
  <2> QED
    BY <2>1, <2>2
<1>k. ASSUME NEW t \in Thread, Only(t), ids'[q] = ids[q], kept' = kept, <<q, c>> \in kept => Still,
             Has(t, q)' => Has(t, q), t = c /\ Answers(c, q)' => Answers(c, q),
             t = q /\ pc'[q] = "idle" => pc[q] = "idle"
      PROVE  Kept(q, c)'
  <2>1. \A u \in Thread \ {t} : (Has(u, q)' <=> Has(u, q)) /\ (Answers(u, q)' <=> Answers(u, q))
    BY <1>k DEF Has, Adds, Answers, Only
  <2>2. pc'[q] = "idle" => pc[q] = "idle"
    BY <1>k, <1>q DEF Only
  <2>3. CASE <<q, c>> \in kept
    <3> HIDE DEF Has, Answers
    <3> QED
      BY <1>0, <1>k, <1>q, <2>1, <2>2, <2>3, KeptKept
  <2> QED
    BY <1>k, <2>3 DEF Kept
<1> HIDE DEF Still
<1>r. ASSUME NEW t \in Thread, Only(t), ids'[q] = ids[q], kept' = kept, <<q, c>> \in kept => Still,
             Plain(pc'[t]), t = q => pc'[t] # "idle"
      PROVE  Kept(q, c)'
  BY <1>k, <1>r DEF Has, Adds, Answers
<1>p. ASSUME NEW t \in Thread, Only(t), ids'[q] = ids[q], kept' = kept, <<q, c>> \in kept => Still,
             carries'[t] # q, t # q
      PROVE  Kept(q, c)'
  BY <1>k, <1>p DEF Has, Adds, Answers
\* the record of the call goes or changes while it is kept elsewhere
<1>w. ASSUME NEW t \in Thread, Only(t), kept' = kept, <<q, c>> \in kept, Still, ids[q] # NoRec,
             ids'[q].conn \in {ids[q].conn, NoConn}, ~Answers(c, q)', pc'[q] # "idle"
      PROVE  Kept(q, c)'
  <2>1. ids[q].conn # c /\ state[c].current = 4
    BY <1>0, <1>w DEF Kept
  <2> HIDE DEF Has, Answers, NoRec
  <2> QED
    BY <1>w, <1>n, <2>1 DEF Kept, Still
<1>1. ASSUME NEW d \in Conn,
             Serve(d) \/ Crash(d) \/ \E k \in {"close", "error"} : ServerCloses(d, k)
      PROVE  Kept(q, c)'
  <2>1. UNCHANGED <<callVars, connVars, cacheVars, ids, orb, threadVars, kept, fault>>
    BY <1>0, <1>1, PeerStep
  <2> QED
    BY <1>0, <2>1 DEF Kept, Has, Adds, Answers
<1>3. ASSUME NEW d \in Conn, Reader(d) PROVE Kept(q, c)'
  <2>d. d \in Thread /\ d # q
    BY <1>q, Kinds
  <2>1. CASE Select(d) \/ LeaveLoop(d)
    <3>1. /\ Only(d) /\ pc'[d] \in {"reading", "done"} /\ UNCHANGED <<ids, kept, state>>
      BY <1>0, <2>1, SelectStep
    <3> QED
      BY <1>l, <1>r, <1>s, <2>d, <3>1
  <2>2. CASE Read(d)
    <3>1. /\ Only(d) /\ pc'[d] \in {"select", "pull", "closing"} /\ UNCHANGED <<ids, kept>>
          /\ state' = state \/ Counted(d, 1)
      BY <1>0, <2>2, ReadStep
    <3> QED
      BY <1>l, <1>r, <1>s, <2>d, <3>1
  <2>3. CASE ReadEnd(d)
    <3>1. /\ Only(d) /\ pc'[d] = "select" /\ UNCHANGED <<ids, kept>> /\ MayClose(d)
      BY <1>0, <2>3, ReadEndStep
    <3> QED
      BY <1>l, <1>r, <1>s, <2>d, <3>1
  <2>4. CASE Pull(d)
    <3>1. /\ Only(d) /\ Keeps(d) /\ pc[d] = "pull" /\ pc'[d] \in {"delete", "release"} /\ UNCHANGED <<kept, state>>
          /\ \A p \in Caller : p # carries[d] => ids'[p] = ids[p]
      BY <1>0, <2>4, PullStep
    <3>2. \/ /\ ids[carries[d]] = [conn |-> ids[carries[d]].conn, active |-> TRUE]
             /\ ids'[carries[d]] = [conn |-> ids[carries[d]].conn, active |-> FALSE]
          \/ ids' = ids
      BY <1>0, <2>4, PullStep
    <3>3. CASE ids'[q] = ids[q]
      BY <1>l, <1>r, <1>s, <2>d, <3>1, <3>3
    <3>4. CASE <<q, c>> \in kept /\ ids'[q] # ids[q]
      <4>1. ids'[q].conn = ids[q].conn /\ ids[q].active /\ carries[d] = q
        BY <3>1, <3>2, <3>4
      <4>2. ids[q] # NoRec /\ pc[q] # "idle"
        BY <1>o, <3>4, <4>1, TokenFacts
      <4>3. ~Answers(c, q)
        BY <1>0, <3>4 DEF Kept
      <4>4. ~Answers(c, q)'
        BY <1>q, <2>d, <3>1, <4>3 DEF Only, Answers
      <4>5. pc'[q] # "idle"
        BY <1>q, <2>d, <3>1, <4>2 DEF Only
      <4> QED
        BY <1>s, <1>w, <2>d, <3>1, <3>4, <4>1, <4>2, <4>4, <4>5
    <3> QED
      BY <3>1, <3>3, <3>4 DEF Kept
  <2>5. CASE Delete(d)
    <3>1. /\ Only(d) /\ Keeps(d) /\ pc[d] = "delete" /\ pc'[d] = "answer" /\ UNCHANGED <<kept, state>>
          /\ ids'[carries[d]] = NoRec /\ \A p \in Caller : p # carries[d] => ids'[p] = ids[p]
      BY <1>0, <2>5, DeleteStep
    <3>2. CASE carries[d] # q
      BY <1>p, <1>s, <2>d, <3>1, <3>2 DEF Keeps
    <3>3. CASE carries[d] = q /\ <<q, c>> \in kept
      <4>1. Deletes(d, q)
        BY <3>1, <3>3 DEF Deletes
      <4>2. ids[q] # NoRec /\ ids[q].conn = d
        BY <1>o, <3>3, <4>1, TokenFacts
      <4>3. c # d /\ ~Answers(c, q) /\ pc[q] # "idle"
        BY <1>0, <3>3, <4>2 DEF Kept
      <4>4. ~Answers(c, q)' /\ pc'[q] # "idle"
        BY <1>q, <2>d, <3>1, <4>3 DEF Only, Answers
      <4>5. ids'[q].conn = NoConn
        BY <1>n, <3>1, <3>3
      <4> QED
        BY <1>s, <1>w, <2>d, <3>1, <3>3, <4>2, <4>4, <4>5
    <3> QED
      BY <3>1, <3>2, <3>3 DEF Kept
  <2>6. CASE Answer(d)
    <3>1. Only(d) /\ Keeps(d) /\ pc[d] = "answer" /\ pc'[d] = "giveback" /\ UNCHANGED <<ids, kept, state>>
      BY <1>0, <2>6, AnswerStep
    <3>2. Answers(d, q)' <=> Answers(d, q)
      BY <3>1 DEF Answers, Keeps
    <3>3. Has(d, q)' => Has(d, q)
      BY <1>l, <3>1, <3>2 DEF Has, Adds
    <3> QED
      BY <1>k, <1>s, <2>d, <3>1, <3>2, <3>3
  <2>7. CASE GiveBack(d)
    <3>1. Only(d) /\ pc'[d] = "release" /\ UNCHANGED <<ids, kept, state>>
      BY <1>0, <2>7, GiveBackStep
    <3> QED
      BY <1>l, <1>r, <1>s, <2>d, <3>1
  <2>8. CASE Release(d) \/ Closing(d)
    <3>1. Only(d) /\ pc'[d] \in {"reading", "unlist"} /\ UNCHANGED <<ids, kept>> /\ Counted(d, -1)
      BY <1>0, <2>8, ReleaseStep
    <3> QED
      BY <1>l, <1>r, <1>s, <2>d, <3>1
  <2> QED
    BY <1>3, <2>1, <2>2, <2>3, <2>4, <2>5, <2>6, <2>7, <2>8 DEF Reader
<1>4. ASSUME NEW p \in Caller, Begin(p) \/ CallStep(p) \/ TimeOut(p) \/ Cancel(p) PROVE Kept(q, c)'
  <2>d. p \in Thread /\ carries[p] = p /\ p # c
    BY <1>0, Kinds DEF ThreadShape, Place
  <2>1. CASE Begin(p)
    <3>1. Only(p) /\ Keeps(p) /\ pc[p] = "idle" /\ pc'[p] = "lookup" /\ UNCHANGED <<ids, kept, state>>
      BY <1>0, <2>1, BeginStep
    <3>2. CASE p = q
      BY <1>0, <3>1, <3>2 DEF Kept
    <3>3. CASE p # q
      BY <1>p, <1>s, <2>d, <3>1, <3>3 DEF Keeps
    <3> QED
      BY <3>2, <3>3
  <2>2. CASE Return(p)
    <3>1. Only(p) /\ pc'[p] = "done" /\ UNCHANGED <<ids, kept, state>>
      BY <1>0, <2>2, ReturnStep
    <3> QED
      BY <1>l, <1>r, <1>s, <2>d, <3>1
  <2>3. CASE TimeOut(p)
    <3>1. /\ p \in Own /\ pc[p] = "wait" /\ ids[p] = [conn |-> ids[p].conn, active |-> TRUE]
          /\ ids'[p] = NoRec /\ \A r \in Caller : r # p => ids'[r] = ids[r]
          /\ kept' = kept \cup {<<p, ids[p].conn>>}
          /\ UNCHANGED <<state, threadVars>>
      BY <1>0, <2>3, TimeOutStep
    <3>2. CASE p # q
      <4>1. /\ <<q, c>> \in kept' <=> <<q, c>> \in kept
            /\ ids'[q] = ids[q]
        BY <3>1, <3>2
      <4> QED
        BY <1>0, <3>1, <4>1 DEF Kept, Has, Adds, Answers
    <3>3. CASE p = q
      <4>1. Token(q) /\ ids[q].active
        BY <3>1, <3>3, Before
      <4>2. ids[q] # NoRec /\ \A u \in Thread : ~Has(u, q)
        BY <3>1, <3>3, <4>1, TokenFacts
      <4>3. /\ \A u \in Thread : ~Has(u, q)'
            /\ ~Answers(c, q)'
        BY <1>q, <3>1, <4>2 DEF Has, Adds, Answers
      <4> HIDE DEF Has, Answers
      <4> QED
        BY <1>n, <3>1, <3>3, <4>3 DEF Kept
    <3> QED
      BY <3>2, <3>3
  <2>4. CASE Cancel(p)
    <3>1. /\ Only(p) /\ Keeps(p) /\ pc'[p] \in {"sendcancel", "done"} /\ UNCHANGED <<kept, state>>
          /\ \A r \in Caller : r # p => ids'[r] = ids[r]
      BY <1>0, <2>4, CancelStep
    <3>2. \/ /\ ids[p] = [conn |-> ids[p].conn, active |-> TRUE] /\ ids[p].conn \in Conn
             /\ ids'[p] = [conn |-> ids[p].conn, active |-> FALSE]
          \/ ids' = ids
      BY <1>0, <2>4, CancelStep
    <3>3. CASE ids'[q] = ids[q]
      BY <1>l, <1>r, <1>s, <2>d, <3>1, <3>3
    <3>4. CASE <<q, c>> \in kept /\ ids'[q] # ids[q]
      <4>1. p = q /\ ids'[q].conn = ids[q].conn /\ ids[q] # NoRec
        BY <1>n, <3>1, <3>2, <3>4
      <4>2. ~Answers(c, q)
        BY <1>0, <3>4 DEF Kept
      <4>3. ~Answers(c, q)' /\ pc'[q] # "idle"
        BY <1>q, <2>d, <3>1, <4>1, <4>2 DEF Only, Answers
      <4> QED
        BY <1>s, <1>w, <2>d, <3>1, <3>4, <4>1, <4>3
    <3> QED
      BY <3>1, <3>3, <3>4 DEF Kept
  <2>5. CASE SendCancel(p)
    <3>1. ids[p].conn \in Conn
      BY <2>5, CancelRecord DEF SendCancel, At, Gone, Cancelling
    <3>2. Only(p) /\ pc'[p] = "derefcancel" /\ UNCHANGED <<ids, kept>> /\ MayClose(ids[p].conn)
      BY <1>0, <2>5, <3>1, SendCancelStep
    <3> QED
      BY <1>l, <1>r, <1>s, <2>d, <3>1, <3>2
  <2>6. CASE DerefCancel(p)
    <3>1. ids[p].conn \in Conn
      BY <2>6, CancelRecord DEF DerefCancel, At, Gone, Cancelling
    <3>2. Only(p) /\ pc'[p] = "delcancel" /\ UNCHANGED <<ids, kept, state>>
      BY <1>0, <2>6, <3>1, DerefCancelStep
    <3> QED
      BY <1>l, <1>r, <1>s, <2>d, <3>2
  <2>7. CASE DelCancel(p)
    <3>1. /\ Only(p) /\ Keeps(p) /\ pc[p] = "delcancel" /\ pc'[p] = "done" /\ UNCHANGED <<kept, state>>
          /\ ids'[p] = NoRec /\ \A r \in Caller : r # p => ids'[r] = ids[r]
      BY <1>0, <2>7, DelCancelStep
    <3>2. CASE p # q
      BY <1>l, <1>r, <1>s, <2>d, <3>1, <3>2
    <3>3. CASE p = q /\ <<q, c>> \in kept
      <4>1. ids[q] # NoRec
        BY <1>n, <3>1, <3>3, CancelRecord DEF Gone
      <4>2. ~Answers(c, q)
        BY <1>0, <3>3 DEF Kept
      <4>3. ~Answers(c, q)' /\ pc'[q] # "idle" /\ ids'[q].conn = NoConn
        BY <1>n, <1>q, <2>d, <3>1, <3>3, <4>2 DEF Only, Answers
      <4> QED
        BY <1>s, <1>w, <2>d, <3>1, <3>3, <4>1, <4>3
    <3> QED
      BY <3>1, <3>2, <3>3 DEF Kept
  <2> QED
    BY <1>4, <2>1, <2>2, <2>3, <2>4, <2>5, <2>6, <2>7 DEF CallStep
<1>5. ASSUME NEW o \in OrbWorker, Pool(o) PROVE Kept(q, c)'
  <2>d. o \in Thread /\ o # q /\ o # c
    BY <1>q, Kinds
  <2>1. CASE TakeClose(o)
    <3>1. Only(o) /\ pc'[o] = "unlist" /\ UNCHANGED <<ids, kept, state>>
      BY <1>0, <2>1, TakeCloseStep
    <3> QED
      BY <1>l, <1>r, <1>s, <2>d, <3>1
  <2>2. CASE TakeKill(o)
    <3>1. UNCHANGED <<state, ids, threadVars, kept>>
      BY <1>0, <2>2, TakeKillStep
    <3> QED
      BY <1>0, <3>1 DEF Kept, Has, Adds, Answers
  <2> QED
    BY <1>5, <2>1, <2>2 DEF Pool
<1>6. CASE Shutdown
  <2>1. Only(Main) /\ pc'[Main] \in {"done", "unlist"} /\ UNCHANGED <<ids, kept, state>>
    BY <1>0, <1>6, ShutdownStep
  <2> QED
    BY <1>l, <1>r, <1>s, <1>t, <2>1
<1>7. ASSUME NEW t \in Thread, invoke(t) PROVE Kept(q, c)'
\* the sender goes on
  <2>a. ASSUME Only(t), carries'[t] = carries[t], UNCHANGED <<ids, kept>>, <<q, c>> \in kept => Still,
               \/ pc'[t] \in Invoking /\ (pc'[t] \in Early => pc[t] \in Early)
               \/ pc'[t] \in {"wait", "done", "pending"}
        PROVE  Kept(q, c)'
    <3>1. /\ Has(t, q)' => Has(t, q)
          /\ ~Answers(t, q)' /\ pc'[t] # "idle"
      BY <1>l, <2>a DEF Has, Adds, Answers
    <3> QED
      BY <1>k, <2>a, <3>1
  <2>1. CASE Lookup(t)
    <3>1. /\ Only(t) /\ pc[t] = "lookup" /\ pc'[t] \in {"ref", "connect"} /\ UNCHANGED <<ids, kept, state>>
          /\ carries'[t] = carries[t]
      BY <1>0, <2>1, LookupStep
    <3> QED
      BY <1>l, <1>s, <2>a, <3>1
  <2>2. CASE FindConn(t) \/ Cache(t)
    <3>1. /\ Only(t) /\ pc[t] \in {"connect", "cache"} /\ pc'[t] \in {"cache", "ref"}
          /\ UNCHANGED <<ids, kept, state>> /\ carries'[t] = carries[t]
      BY <1>0, <2>2, FindStep
    <3> QED
      BY <1>l, <1>s, <2>a, <3>1
  <2>3. CASE NewConn(t)
    <3> DEFINE n == conns'
    <3>1. /\ n \in Conn /\ pc[t] = "connect" /\ pc'[t] = "cache" /\ pc[n] = "idle" /\ pc'[n] = "select"
          /\ life[n] = "none" /\ \A u \in Thread : u # t /\ u # n => pc'[u] = pc[u]
          /\ \A d \in Conn : d # n => state'[d] = state[d]
          /\ UNCHANGED <<carries, ids, kept>>
      BY <1>0, <2>3, NewConnStep
    <3> HIDE DEF n
    <3>2. \A u \in Thread : Has(u, q)' => Has(u, q)
      BY <1>l, <3>1 DEF Has, Adds, Answers
    <3>3. (Answers(c, q)' => Answers(c, q)) /\ (pc'[q] = "idle" => pc[q] = "idle")
      BY <1>q, <3>1 DEF Answers
    <3>4. CASE c # n
      <4>1. state'[c] = state[c]
        BY <3>1, <3>4
      <4> HIDE DEF Has, Answers
      <4> QED
        BY <1>0, <3>1, <3>2, <3>3, <4>1, KeptKept
    <3>5. CASE c = n
      BY <1>o, <3>1, <3>5 DEF Kept, Born
    <3> QED
      BY <3>4, <3>5
  <2>4. CASE NoConnection(t)
    <3>1. /\ Only(t) /\ pc[t] = "connect" /\ UNCHANGED <<ids, kept, state>> /\ carries'[t] = carries[t]
          /\ (t \in Conn => pc'[t] = "pending") /\ (t \in Own => pc'[t] = "wait")
          /\ (t \in Oneway => pc'[t] = "done")
      BY <1>0, <2>4, NoConnectionStep, Kinds
    <3>2. t \in Conn \/ t \in Own \/ t \in Oneway
      BY <1>0, <1>l, <3>1, Invokers DEF Own
    <3> QED
      BY <1>s, <2>a, <3>1, <3>2
  <2>5. CASE Ref(t)
    <3>1. /\ Only(t) /\ Keeps(t) /\ pc[t] = "ref" /\ pc'[t] = "add" /\ UNCHANGED <<ids, kept>>
          /\ on[t] \in Conn /\ Counted(on[t], 1)
      BY <1>0, <2>5, RefStep
    <3> QED
      BY <1>l, <1>s, <2>a, <3>1 DEF Keeps
  <2>6. CASE AddInvoke(t)
    <3>1. /\ Only(t) /\ Keeps(t) /\ pc[t] = "add" /\ pc'[t] = "output" /\ on[t] \in Conn
          /\ UNCHANGED <<kept, state>>
      BY <1>0, <2>6, AddStep
    <3>2. \/ ids' = ids
          \/ /\ carries[t] \in Own /\ ids'[carries[t]] = [conn |-> on[t], active |-> TRUE]
             /\ \A r \in Caller : r # carries[t] => ids'[r] = ids[r]
      BY <1>0, <2>6, AddStep
    <3>3. CASE ids'[q] = ids[q]
      BY <1>l, <1>r, <1>s, <3>1, <3>3
    <3>4. CASE ids'[q] # ids[q] /\ <<q, c>> \in kept
      <4>1. carries[t] = q /\ ids'[q].conn = on[t]
        BY <3>2, <3>4
      <4>2. Has(t, q)
        BY <1>l, <3>1, <4>1 DEF Has, Adds
      <4>3. state[c].current = 4 /\ ~Answers(c, q) /\ pc[q] # "idle"
        BY <1>0, <3>4, <4>2 DEF Kept
      <4>4. on[t] # c
        <5>1. Holds(t, on[t])
          BY <3>1 DEF Holds, Sending
        <5> QED
          BY <1>0, <4>3, <5>1, InUse
      <4>5. ~Answers(c, q)' /\ pc'[q] # "idle"
        BY <1>q, <3>1, <4>3 DEF Only, Answers
      <4> HIDE DEF Answers, Has, NoRec
      <4> QED
        BY <3>1, <4>1, <4>3, <4>4, <4>5 DEF Kept
    <3> QED
      BY <3>1, <3>3, <3>4 DEF Kept
  <2>7. CASE Output(t)
    <3>1. /\ Only(t) /\ Keeps(t) /\ pc[t] = "output" /\ pc'[t] = "deref" /\ UNCHANGED <<ids, kept>>
          /\ on[t] \in Conn /\ MayClose(on[t])
      BY <1>0, <2>7, OutputStep
    <3> QED
      BY <1>l, <1>s, <2>a, <3>1 DEF Keeps
  <2>8. CASE ActiveDeref(t)
    <3>1. /\ Only(t) /\ UNCHANGED <<ids, kept>> /\ carries'[t] = carries[t]
          /\ pc'[t] \in {"pending", "done", "wait"} /\ on[t] \in Conn /\ Counted(on[t], -1)
      BY <1>0, <2>8, ActiveDerefStep
    <3> QED
      BY <1>s, <2>a, <3>1
  <2> QED
    BY <1>7, <2>1, <2>2, <2>3, <2>4, <2>5, <2>6, <2>7, <2>8 DEF invoke
<1>8. ASSUME NEW t \in Thread, kill_conn(t) PROVE Kept(q, c)'
  <2>d. pc[t] \in Killing => t # q
    BY <1>0, <1>q, KillersOf
  <2>1. CASE Unlist(t)
    <3>1. /\ Only(t) /\ pc[t] = "unlist" /\ UNCHANGED <<ids, kept, state>>
          /\ (pc'[t] = "uncache" /\ Keeps(t)) \/ Left(t)
      BY <1>0, <2>1, UnlistStep
    <3>2. pc'[t] \in {"uncache", "select", "done", "idle"}
      BY <3>1 DEF Left
    <3> QED
      BY <1>l, <1>r, <1>s, <2>d, <3>1, <3>2
  <2>2. CASE Uncache(t)
    <3>1. /\ Only(t) /\ pc[t] = "uncache" /\ pc'[t] = "shutdown" /\ UNCHANGED <<ids, kept>> /\ victim[t] \in Conn
          /\ state'[victim[t]].current = state[victim[t]].current
          /\ \A d \in Conn : d # victim[t] => state'[d] = state[d]
      BY <1>0, <2>2, UncacheStep
    <3>2. Still
      BY <3>1 DEF Still
    <3> QED
      BY <1>l, <1>r, <2>d, <3>1, <3>2
  <2>3. CASE ShutdownEffective(t) \/ TerminatedEffective(t)
    <3>1. /\ Only(t) /\ pc[t] \in Killing /\ pc'[t] \in {"join", "pending"} /\ UNCHANGED <<ids, kept>>
          /\ victim[t] \in Conn
          /\ state'[victim[t]].current = (IF state[victim[t]].new > state[victim[t]].current
                                            THEN state[victim[t]].new ELSE state[victim[t]].current)
          /\ \A d \in Conn : d # victim[t] => state'[d] = state[d]
      BY <1>0, <1>l, <2>3, EffectiveStep
    <3>2. Still
      <4>1. state[c].new \in 0..4
        BY <1>0, StateMethods DEF ConnShape
      <4> QED
        BY <3>1, <4>1 DEF Still
    <3> QED
      BY <1>l, <1>r, <2>d, <3>1, <3>2
  <2>4. CASE Join(t)
    <3>1. /\ Only(t) /\ pc[t] = "join" /\ pc'[t] = "terminated" /\ UNCHANGED <<ids, kept>> /\ victim[t] \in Conn
          /\ state'[victim[t]].current = state[victim[t]].current
          /\ \A d \in Conn : d # victim[t] => state'[d] = state[d]
      BY <1>0, <2>4, JoinStep
    <3>2. Still
      BY <3>1 DEF Still
    <3> QED
      BY <1>l, <1>r, <2>d, <3>1, <3>2
  <2>5. CASE NextPending(t)
    <3>1. Only(t) /\ pc[t] = "pending" /\ pc'[t] \in {"redo", "abort"} /\ UNCHANGED <<ids, kept, state>>
      BY <1>0, <2>5, NextPendingStep
    <3> QED
      BY <1>l, <1>r, <1>s, <2>d, <3>1
  <2>6. CASE Abort(t) \/ Redo(t)
    <3>1. /\ Only(t) /\ Keeps(t) /\ victim[t] \in Conn /\ carries[t] \in Own
          /\ ids[carries[t]] = [conn |-> ids[carries[t]].conn, active |-> TRUE]
          /\ ids'[carries[t]] = NoRec /\ \A p \in Caller : p # carries[t] => ids'[p] = ids[p]
          /\ kept' = kept \cup {<<carries[t], ids[carries[t]].conn>>}
          /\ pc[t] \in {"abort", "redo"} /\ pc'[t] \in {"pending", "lookup"} /\ state' = state
      BY <1>0, <2>6, DropStep
    <3>2. CASE carries[t] # q
      <4>1. /\ <<q, c>> \in kept' <=> <<q, c>> \in kept
            /\ ids'[q] = ids[q]
        BY <3>1, <3>2
      <4>2. \A u \in Thread : (Has(u, q)' => Has(u, q)) /\ (Answers(u, q)' => Answers(u, q))
        BY <3>1, <3>2 DEF Has, Adds, Answers, Only, Keeps
      <4>3. pc'[q] = "idle" => pc[q] = "idle"
        BY <1>q, <3>1 DEF Only
      <4> HIDE DEF Has, Answers
      <4> QED
        BY <1>0, <1>q, <3>1, <4>1, <4>2, <4>3, KeptKept
    <3>3. CASE carries[t] = q
      <4>1. Token(q) /\ ids[q].active
        BY <3>1, <3>3, Before
      <4>2. ids[q] # NoRec /\ pc[q] # "idle" /\ \A u \in Thread : ~Has(u, q)
        BY <3>1, <3>3, <4>1, TokenFacts
      <4>3. Drops(t, q)
        BY <3>1, <3>3 DEF Drops
      <4>4. ids[q].conn = victim[t]
        BY <3>1, <3>3, <4>1, <4>3, TokenFacts
      <4>5. ~Answers(c, q)' /\ pc'[q] # "idle" /\ ids'[q].conn # c
        BY <1>n, <1>q, <3>1, <3>3, <4>2 DEF Only, Has, Answers
      <4>6. <<q, c>> \in kept' => state[c].current = 4
        <5>1. CASE victim[t] = c
          BY <3>1, <3>3, <4>3, <5>1, DroppersOf
        <5>2. CASE victim[t] # c
          BY <1>0, <3>1, <3>3, <4>2, <4>4, <5>2 DEF Kept
        <5> QED
          BY <5>1, <5>2
      <4> HIDE DEF Has, Answers, NoRec
      <4> QED
        BY <3>1, <4>5, <4>6 DEF Kept
    <3> QED
      BY <3>2, <3>3
  <2>7. CASE KillEnd(t)
    <3>1. Only(t) /\ Left(t) /\ pc[t] = "pending" /\ UNCHANGED <<ids, kept, state>>
      BY <1>0, <2>7, KillEndStep
    <3>2. pc'[t] \in {"select", "done", "idle"}
      BY <3>1 DEF Left
    <3> QED
      BY <1>l, <1>r, <1>s, <2>d, <3>1, <3>2
  <2> QED
    BY <1>8, <2>1, <2>2, <2>3, <2>4, <2>5, <2>6, <2>7 DEF kill_conn
<1>9. ASSUME NEW t \in Thread, Fail(t) PROVE Kept(q, c)'
  <2>1. UNCHANGED <<callVars, connVars, cacheVars, ids, orb, threadVars, kept>>
    BY <1>0, <1>9, FailStep
  <2> QED
    BY <1>0, <2>1 DEF Kept, Has, Adds, Answers
<1> QED
  BY <1>1, <1>3, <1>4, <1>5, <1>6, <1>7, <1>8, <1>9, Steps

\* The message that deletes c is queued by who takes its last reference.
LEMMA KillMsgs ==
  ASSUME RestShape, NEW c \in Conn
  PROVE  /\ CountIn(orb, {KillMsg(c)}) \in Nat
         /\ \A d \in Conn : orb' = Append(orb, [conn |-> d, ev |-> "CloseConn"]) =>
              CountIn(orb', {KillMsg(c)}) = CountIn(orb, {KillMsg(c)})
         /\ \A d \in Conn : orb' = Append(orb, KillMsg(d)) =>
              CountIn(orb', {KillMsg(c)}) = CountIn(orb, {KillMsg(c)}) + (IF d = c THEN 1 ELSE 0)
         /\ orb # <<>> /\ orb' = Tail(orb) =>
              /\ CountIn(orb', {KillMsg(c)}) \in Nat
              /\ CountIn(orb, {KillMsg(c)}) =
                   CountIn(orb', {KillMsg(c)}) + (IF Head(orb) = KillMsg(c) THEN 1 ELSE 0)
<1>1. orb \in Seq(OrbMsg)
  BY DEF RestShape
<1> DEFINE P == {KillMsg(c)}
<1>2. CountIn(orb, P) \in Nat
  BY <1>1, NoneCount
<1>3. ASSUME NEW d \in Conn, orb' = Append(orb, [conn |-> d, ev |-> "CloseConn"])
      PROVE  CountIn(orb', P) = CountIn(orb, P)
  <2> DEFINE m == [conn |-> d, ev |-> "CloseConn"]
  <2>1. m \in OrbMsg /\ m \notin P
    <3>1. m.ev = "CloseConn" /\ KillMsg(c).ev = "KillConn"
      BY DEF KillMsg
    <3> QED
      BY <3>1 DEF OrbMsg
  <2> HIDE DEF m, P
  <2>2. CountIn(Append(orb, m), P) = CountIn(orb, P) + 0
    BY <1>1, <2>1, AppendCount
  <2> QED
    BY <1>2, <1>3, <2>2 DEF m
<1>4. ASSUME NEW d \in Conn, orb' = Append(orb, KillMsg(d))
      PROVE  CountIn(orb', P) = CountIn(orb, P) + (IF d = c THEN 1 ELSE 0)
  <2>1. KillMsg(d) \in OrbMsg /\ (KillMsg(d) \in P <=> d = c)
    <3>1. KillMsg(d).conn = d /\ KillMsg(c).conn = c
      BY DEF KillMsg
    <3> QED
      BY <3>1 DEF OrbMsg, KillMsg
  <2> HIDE DEF P
  <2>2. CountIn(Append(orb, KillMsg(d)), P) = CountIn(orb, P) + (IF KillMsg(d) \in P THEN 1 ELSE 0)
    BY <1>1, <2>1, AppendCount
  <2> QED
    BY <1>4, <2>1, <2>2
<1>5. ASSUME orb # <<>>
      PROVE  /\ CountIn(Tail(orb), P) \in Nat
             /\ CountIn(orb, P) = CountIn(Tail(orb), P) + (IF Head(orb) \in P THEN 1 ELSE 0)
  <2> HIDE DEF P
  <2> QED
    BY <1>1, <1>5, TailCount
<1> QED
  BY <1>2, <1>3, <1>4, <1>5

\* A reference of c is taken or given back, or it goes with what it is for.
LEMMA RefsMove ==
  ASSUME NEW c \in Conn, Refs(c), Born(c), ConnShape, ConnShape', NEW q \in Caller,
         \A p \in Caller : p # q => (Holder(p, c) <=> Holder(p, c)'),
         refcnt'[c] + (IF Holder(q, c) THEN 1 ELSE 0) + (IF Owned(c) THEN 1 ELSE 0) =
           refcnt[c] + (IF Holder(q, c)' THEN 1 ELSE 0) + (IF Owned(c)' THEN 1 ELSE 0),
         CountIn(orb', {KillMsg(c)}) = (IF refcnt'[c] = 0 /\ life'[c] = "open" THEN 1 ELSE 0),
         life'[c] = "deleted" => refcnt'[c] = 0
  PROVE  Refs(c)'
<1> DEFINE A == Cardinality(HeldRecs(c))
           B == Cardinality(HeldRecs(c)')
<1>1. A \in Nat
  BY Records
<1> HIDE DEF Holder, Owned
<1>2. B \in Nat /\ B + (IF Holder(q, c) THEN 1 ELSE 0) = A + (IF Holder(q, c)' THEN 1 ELSE 0)
  BY RecordsMove
<1>3. refcnt[c] \in Nat /\ refcnt'[c] \in Nat
  BY DEF ConnShape
<1>4. refcnt[c] = A + (IF Owned(c) THEN 1 ELSE 0)
  BY DEF Refs
<1> HIDE DEF A
<1>5. refcnt'[c] = B + (IF Owned(c)' THEN 1 ELSE 0)
  BY <1>1, <1>2, <1>3, <1>4
<1>6. KillMsg(c)' = KillMsg(c)
  BY DEF KillMsg
<1> QED
  BY <1>5, <1>6 DEF Refs

\* No reference is taken or given back.
LEMMA RefsKept ==
  ASSUME NEW c \in Conn, Refs(c), Born(c)' => Born(c), ConnShape,
         \A p \in Caller : Holder(p, c) <=> Holder(p, c)', Owned(c)' <=> Owned(c),
         refcnt'[c] = refcnt[c],
         \/ life'[c] = life[c] /\ CountIn(orb', {KillMsg(c)}) = CountIn(orb, {KillMsg(c)})
         \/ /\ refcnt[c] = 0 /\ life'[c] = "deleted" /\ CountIn(orb', {KillMsg(c)}) = 0
  PROVE  Refs(c)'
<1> SUFFICES ASSUME Born(c) PROVE Refs(c)'
  BY DEF Refs
<1>1. HeldRecs(c)' = HeldRecs(c)
  <2>1. HeldRecs(c) \in SUBSET Caller /\ \A p \in Caller : p \in HeldRecs(c) <=> Holder(p, c)
    BY Records
  <2>2. HeldRecs(c)' \in SUBSET Caller /\ \A p \in Caller : p \in HeldRecs(c)' <=> Holder(p, c)'
    BY DEF HeldRecs, Holder
  <2> HIDE DEF Holder
  <2> QED
    BY <2>1, <2>2
<1>2. KillMsg(c)' = KillMsg(c)
  BY DEF KillMsg
<1> HIDE DEF Owned
<1> QED
  BY <1>1, <1>2 DEF Refs

\* A reference is given back.
LEMMA DerefRefs ==
  ASSUME Inv, NEW d \in Conn, deref_conn(d), life[d] = "open", NEW c \in Conn
  PROVE  /\ refcnt'[c] = refcnt[c] - (IF c = d THEN 1 ELSE 0)
         /\ c = d => CountIn(orb', {KillMsg(c)}) = (IF refcnt'[c] = 0 THEN 1 ELSE 0)
         /\ c # d => CountIn(orb', {KillMsg(c)}) = CountIn(orb, {KillMsg(c)})
<1>1. ConnShape /\ RestShape
  BY Before
<1>2. /\ refcnt'[d] = refcnt[d] - 1 /\ refcnt[d] > 0 /\ refcnt[d] \in Nat
      /\ \A e \in Conn : e # d => refcnt'[e] = refcnt[e]
      /\ IF refcnt[d] = 1 THEN orb' = Append(orb, KillMsg(d)) ELSE orb' = orb
  BY <1>1, DerefShape DEF KillMsg, ConnShape
<1>3. /\ CountIn(orb, {KillMsg(c)}) \in Nat
      /\ orb' = Append(orb, KillMsg(d)) =>
           CountIn(orb', {KillMsg(c)}) = CountIn(orb, {KillMsg(c)}) + (IF d = c THEN 1 ELSE 0)
  BY <1>1, KillMsgs
<1>4. c = d => CountIn(orb, {KillMsg(c)}) = 0
  <2>1. c = d => Refs(c) /\ Born(c)
    BY Before DEF Born
  <2> QED
    BY <1>2, <2>1 DEF Refs
<1>5. refcnt[c] \in Nat
  BY <1>1 DEF ConnShape
<1> QED
  BY <1>2, <1>3, <1>4, <1>5

\* A step keeps the references counted, and the last one is told once.
LEMMA RefsInv ==
  ASSUME Inv, Next, NEW c \in Conn
  PROVE  Refs(c)'
<1> USE DEF serverVars, callVars, connVars, cacheVars, threadVars
<1> DEFINE Msgs == \/ orb' = orb
                   \/ \E d \in Conn : orb' = Append(orb, [conn |-> d, ev |-> "CloseConn"])
                   \/ orb # <<>> /\ orb' = Tail(orb) /\ Head(orb).ev = "CloseConn"
           Kept1(t) == Stage(t, pc'[t]) > 0 <=> Stage(t, pc[t]) > 0
           Kept2(t) == Stage(t, pc[t]) > 0 => victim'[t] = victim[t]
           Plain(l) == l \notin {"answer", "giveback", "delcancel"}
           Still(t) == /\ Only(t) /\ kept' = kept /\ \A q \in Caller : ids'[q].conn = ids[q].conn
                       /\ t \in Conn => \A q \in Caller : pc'[t] \in {"answer", "giveback"} /\ carries'[t] = q <=>
                                                          pc[t] \in {"answer", "giveback"} /\ carries[t] = q
                       /\ t \in Caller => (pc'[t] = "delcancel" <=> pc[t] = "delcancel")
<1>0. Shape /\ Unborn(c) /\ Phase(c) /\ ConnShape /\ ThreadShape /\ Active(c) /\ Refs(c) /\ RestShape /\ IdShape
  BY Before
<1>t. Main \in Thread /\ Main \notin Conn /\ Main \notin Caller /\ c \in Thread /\ c \notin Caller
  BY Kinds
<1>n. NoRec.conn = NoConn /\ ~NoRec.active /\ NoConn \notin Conn
  BY Kinds DEF NoRec
<1>c. Shape' => ConnShape'
  BY DEF Shape, DataShape
<1>i. /\ Invoking = {"lookup", "connect", "cache", "ref", "add", "output", "deref"}
      /\ Killing = {"unlist", "uncache", "shutdown", "join", "terminated", "pending", "abort", "redo"}
  BY DEF Invoking, Early, Killing
<1>m. Msgs => CountIn(orb', {KillMsg(c)}) = CountIn(orb, {KillMsg(c)})
  <2>1. CASE orb # <<>> /\ orb' = Tail(orb) /\ Head(orb).ev = "CloseConn"
    <3>1. Head(orb) # KillMsg(c)
      <4>1. KillMsg(c).ev = "KillConn"
        BY DEF KillMsg
      <4> QED
        BY <2>1, <4>1
    <3>2. /\ CountIn(orb', {KillMsg(c)}) \in Nat
          /\ CountIn(orb, {KillMsg(c)}) = CountIn(orb', {KillMsg(c)}) + 0
      BY <1>0, <2>1, <3>1, KillMsgs
    <3> QED
      BY <3>2
  <2>2. CASE \E d \in Conn : orb' = Append(orb, [conn |-> d, ev |-> "CloseConn"])
    BY <1>0, <2>2, KillMsgs
  <2> QED
    BY <2>1, <2>2
<1>o. ASSUME NEW t \in Thread, Only(t), conns' = c <=> conns = c, Kept1(t), Kept2(t)
      PROVE  Owned(c)' <=> Owned(c)
  <2>1. \A u \in Thread : u # t => (Kills(u, c)' <=> Kills(u, c))
    BY <1>o DEF Kills, Only
  <2>2. Kills(t, c)' <=> Kills(t, c)
    BY <1>o DEF Kills
  <2> HIDE DEF Kills
  <2> QED
    BY <1>o, <2>1, <2>2 DEF Owned
<1>h. ASSUME NEW t \in Thread, Still(t), NEW q \in Caller
      PROVE  Holder(q, c) <=> Holder(q, c)'
  <2>1. pc'[q] = "delcancel" <=> pc[q] = "delcancel"
    BY <1>h, Kinds DEF Only
  <2>2. pc'[c] \in {"answer", "giveback"} /\ carries'[c] = q <=>
          pc[c] \in {"answer", "giveback"} /\ carries[c] = q
    BY <1>h, <1>t DEF Only
  <2>3. ids'[q].conn = ids[q].conn /\ kept' = kept
    BY <1>h
  <2> QED
    BY <2>1, <2>2, <2>3 DEF Holder
<1>p. ASSUME NEW t \in Thread, Only(t), kept' = kept, \A q \in Caller : ids'[q].conn = ids[q].conn,
             Plain(pc[t]), Plain(pc'[t])
      PROVE  Still(t)
  BY <1>p
<1> HIDE DEF Still, Msgs
<1>k. ASSUME NEW t \in Thread, Only(t), Msgs, refcnt' = refcnt, life' = life, conns' = c <=> conns = c,
             Kept1(t), Kept2(t), \A q \in Caller : Holder(q, c) <=> Holder(q, c)'
      PROVE  Refs(c)'
  <2> HIDE DEF Holder, Kept1, Kept2
  <2>1. (Owned(c)' <=> Owned(c)) /\ (Born(c)' <=> Born(c))
    BY <1>k, <1>o DEF Born
  <2>2. CountIn(orb', {KillMsg(c)}) = CountIn(orb, {KillMsg(c)})
    BY <1>k, <1>m
  <2> HIDE DEF Owned
  <2> QED
    BY <1>0, <1>k, <2>1, <2>2, RefsKept
<1>q. ASSUME NEW t \in Thread, Still(t), Only(t), Msgs, refcnt' = refcnt, life' = life, conns' = c <=> conns = c,
             Kept1(t), Kept2(t)
      PROVE  Refs(c)'
  <2> HIDE DEF Holder, Kept1, Kept2
  <2> QED
    BY <1>h, <1>k, <1>q
<1>d. ASSUME NEW d \in Conn, NEW q \in Caller, deref_conn(d), life[d] = "open", life' = life, Shape',
             \A p \in Caller : p # q => (Holder(p, c) <=> Holder(p, c)'),
             c = d => (IF Holder(q, c) THEN 1 ELSE 0) + (IF Owned(c) THEN 1 ELSE 0) =
                        (IF Holder(q, c)' THEN 1 ELSE 0) + (IF Owned(c)' THEN 1 ELSE 0) + 1,
             c # d => (Holder(q, c) <=> Holder(q, c)') /\ (Owned(c)' <=> Owned(c))
      PROVE  Refs(c)'
  <2> HIDE DEF Holder, Owned
  <2>1. /\ refcnt'[c] = refcnt[c] - (IF c = d THEN 1 ELSE 0) /\ refcnt[c] \in Nat
        /\ c = d => CountIn(orb', {KillMsg(c)}) = (IF refcnt'[c] = 0 THEN 1 ELSE 0)
        /\ c # d => CountIn(orb', {KillMsg(c)}) = CountIn(orb, {KillMsg(c)})
    BY <1>0, <1>d, DerefRefs DEF ConnShape
  <2>2. CASE c = d
    <3>1. Born(c)
      BY <1>d, <2>2 DEF Born
    <3>2. refcnt'[c] + (IF Holder(q, c) THEN 1 ELSE 0) + (IF Owned(c) THEN 1 ELSE 0) =
           refcnt[c] + (IF Holder(q, c)' THEN 1 ELSE 0) + (IF Owned(c)' THEN 1 ELSE 0)
      BY <1>d, <2>1, <2>2
    <3>3. /\ CountIn(orb', {KillMsg(c)}) = (IF refcnt'[c] = 0 /\ life'[c] = "open" THEN 1 ELSE 0)
          /\ life'[c] # "deleted"
      BY <1>d, <2>1, <2>2
    <3> QED
      BY <1>0, <1>c, <1>d, <3>1, <3>2, <3>3, RefsMove
  <2>3. CASE c # d
    <3>1. refcnt'[c] = refcnt[c]
      BY <2>1, <2>3
    <3>2. \A p \in Caller : Holder(p, c) <=> Holder(p, c)'
      BY <1>d, <2>3
    <3> QED
      BY <1>0, <1>d, <2>1, <2>3, <3>1, <3>2, RefsKept DEF Born
  <2> QED
    BY <2>2, <2>3
<1>1. ASSUME NEW d \in Conn,
             Serve(d) \/ Crash(d) \/ \E k \in {"close", "error"} : ServerCloses(d, k)
      PROVE  Refs(c)'
  <2>1. UNCHANGED <<callVars, connVars, cacheVars, ids, orb, threadVars, kept, fault>>
    BY <1>0, <1>1, PeerStep
  <2> QED
    BY <1>0, <2>1 DEF Refs, Born, HeldRecs, Owned, Kills, KillMsg
<1>3. ASSUME NEW d \in Conn, Reader(d) PROVE Refs(c)'
  <2>d. d \in Thread /\ d \notin Caller
    BY Kinds
  <2>0. ASSUME NEW l \in Handling \cup {"reading", "closing", "select", "unlist", "done"} PROVE Stage(d, l) = 0
    BY <1>i, Stages DEF Handling
  <2>l. Handling = {"pull", "delete", "answer", "giveback", "release"}
    BY DEF Handling
  <2>1. CASE Select(d) \/ LeaveLoop(d)
    <3>1. /\ Only(d) /\ Keeps(d) /\ pc[d] = "select" /\ pc'[d] \in {"reading", "done"}
          /\ UNCHANGED <<connVars, cacheVars, ids, orb, kept>>
      BY <1>0, <2>1, SelectStep
    <3> QED
      BY <1>p, <1>q, <2>0, <2>d, <3>1 DEF Msgs
  <2>2. CASE Read(d)
    <3>1. /\ Only(d) /\ pc[d] = "reading" /\ pc'[d] \in {"select", "pull", "closing"}
          /\ UNCHANGED <<life, refcnt, slots, cacheVars, ids, orb, kept>>
      BY <1>0, <2>2, ReadStep
    <3> QED
      BY <1>p, <1>q, <2>0, <2>d, <2>l, <3>1 DEF Msgs
  <2>3. CASE ReadEnd(d)
    <3>1. /\ Only(d) /\ pc[d] = "reading" /\ pc'[d] = "select" /\ MayClose(d)
          /\ UNCHANGED <<life, refcnt, slots, cacheVars, ids, kept>>
      BY <1>0, <2>3, ReadEndStep
    <3>2. Msgs
      BY <3>1 DEF Msgs, MayClose
    <3> QED
      BY <1>p, <1>q, <2>0, <2>d, <2>l, <3>1, <3>2
  <2>4. CASE Pull(d)
    <3>1. /\ Only(d) /\ Keeps(d) /\ pc[d] = "pull" /\ pc'[d] \in {"delete", "release"}
          /\ UNCHANGED <<connVars, cacheVars, orb, kept>>
          /\ \A p \in Caller : p # carries[d] => ids'[p] = ids[p]
      BY <1>0, <2>4, PullStep
    <3>2. \/ ids'[carries[d]] = [conn |-> ids[carries[d]].conn, active |-> FALSE]
          \/ ids' = ids
      BY <1>0, <2>4, PullStep
    <3>3. \A q \in Caller : ids'[q].conn = ids[q].conn
      BY <3>1, <3>2
    <3> QED
      BY <1>p, <1>q, <2>0, <2>d, <2>l, <3>1, <3>3 DEF Msgs
  <2>5. CASE Delete(d)
    <3> DEFINE q == carries[d]
    <3>1. /\ Only(d) /\ Keeps(d) /\ pc[d] = "delete" /\ pc'[d] = "answer" /\ q \in Own
          /\ UNCHANGED <<connVars, cacheVars, orb, kept>>
          /\ ids'[q] = NoRec /\ \A p \in Caller : p # q => ids'[p] = ids[p]
      BY <1>0, <2>5, DeleteStep
    <3>2. Deletes(d, q) /\ Token(q)
      BY <3>1, Before DEF Deletes
    <3>3. ids[q].conn = d /\ pc[q] \notin Gone
      BY <3>1, <3>2, TokenFacts
    <3>4. \A p \in Caller : Holder(p, c) <=> Holder(p, c)'
      <4> SUFFICES ASSUME NEW p \in Caller PROVE Holder(p, c) <=> Holder(p, c)'
        OBVIOUS
      <4>1. pc'[p] = pc[p]
        BY <2>d, <3>1, Kinds DEF Only
      <4>2. CASE p # q
        <5>1. ids'[p] = ids[p] /\ kept' = kept /\ carries'[d] = carries[d]
          BY <3>1, <4>2 DEF Keeps
        <5>2. CASE c = d
          BY <3>1, <4>1, <4>2, <5>1, <5>2 DEF Holder
        <5>3. CASE c # d
          BY <1>t, <3>1, <4>1, <5>1, <5>3 DEF Holder, Only
        <5> QED
          BY <5>2, <5>3
      <4>3. CASE p = q /\ c = d
        BY <3>1, <3>3, <4>3 DEF Holder, Keeps, Gone
      <4>4. CASE p = q /\ c # d
        BY <1>n, <1>t, <3>1, <3>3, <4>4 DEF Holder, Only
      <4> QED
        BY <4>2, <4>3, <4>4
    <3> HIDE DEF Holder, q
    <3> QED
      BY <1>k, <2>0, <2>d, <2>l, <3>1, <3>4 DEF Msgs, Keeps
  <2>6. CASE Answer(d)
    <3>1. /\ Only(d) /\ Keeps(d) /\ pc[d] = "answer" /\ pc'[d] = "giveback"
          /\ UNCHANGED <<connVars, cacheVars, orb, ids, kept>>
      BY <1>0, <2>6, AnswerStep
    <3>2. Still(d)
      BY <2>d, <3>1 DEF Still, Keeps
    <3> QED
      BY <1>q, <2>0, <2>d, <2>l, <3>1, <3>2 DEF Msgs
  <2>7. CASE GiveBack(d)
    <3>0. PICK q \in Own : q = carries[d]
      BY <1>0, <2>7, GiveBackStep
    <3>1. /\ Only(d) /\ Keeps(d) /\ pc[d] = "giveback" /\ pc'[d] = "release" /\ life[d] = "open" /\ Shape'
          /\ q = carries[d] /\ q \in Own /\ deref_conn(d) /\ UNCHANGED <<life, state, cacheVars, ids, kept>>
      BY <1>0, <2>7, <3>0, GiveBackStep
    <3>q. q \in Caller
      BY <3>1, Kinds
    <3>2. Answers(d, q) /\ Token(q) /\ Kept(q, d)
      BY <3>1, <3>q, Before DEF Answers
    <3>3. ids[q] = NoRec /\ <<q, d>> \notin kept
      BY <2>d, <3>1, <3>2, TokenFacts DEF Kept, Has
    <3>4. ASSUME NEW p \in Caller, p # q \/ c # d PROVE Holder(p, c) <=> Holder(p, c)'
      <4>1. pc'[p] = pc[p]
        BY <2>d, <3>1, Kinds DEF Only
      <4>2. CASE c = d
        BY <3>1, <3>4, <4>1, <4>2 DEF Holder, Keeps
      <4>3. CASE c # d
        BY <1>t, <3>1, <4>1, <4>3 DEF Holder, Only
      <4> QED
        BY <4>2, <4>3
    <3>5. c = d => Holder(q, c) /\ ~Holder(q, c)'
      BY <1>n, <3>1, <3>3 DEF Holder
    <3>6. Owned(c)' <=> Owned(c)
      BY <1>o, <2>0, <2>d, <2>l, <3>1
    <3> HIDE DEF Holder, Owned
    <3>7. \A p \in Caller : p # q => (Holder(p, c) <=> Holder(p, c)')
      BY <3>4
    <3>8. c # d => (Holder(q, c) <=> Holder(q, c)')
      BY <3>4, <3>q
    <3> QED
      BY <1>d, <3>1, <3>5, <3>6, <3>7, <3>8, <3>q
  <2>8. CASE Release(d) \/ Closing(d)
    <3>1. /\ Only(d) /\ pc[d] \in {"release", "closing"} /\ pc'[d] \in {"reading", "unlist"}
          /\ UNCHANGED <<life, refcnt, slots, cacheVars, ids, orb, kept>>
      BY <1>0, <2>8, ReleaseStep
    <3> QED
      BY <1>p, <1>q, <2>0, <2>d, <2>l, <3>1 DEF Msgs
  <2> QED
    BY <1>3, <2>1, <2>2, <2>3, <2>4, <2>5, <2>6, <2>7, <2>8 DEF Reader
<1>4. ASSUME NEW q \in Caller, Begin(q) \/ CallStep(q) \/ TimeOut(q) \/ Cancel(q) PROVE Refs(c)'
  <2>d. q \in Thread /\ q \notin Conn
    BY Kinds
  <2>0. ASSUME NEW l, l \notin Killing \ {"unlist"} PROVE Stage(q, l) = 0
    BY <2>0, <2>d, Stages
  <2>1. CASE Begin(q)
    <3>1. /\ Only(q) /\ pc[q] = "idle" /\ pc'[q] = "lookup"
          /\ UNCHANGED <<connVars, cacheVars, ids, orb, kept>>
      BY <1>0, <2>1, BeginStep
    <3> QED
      BY <1>i, <1>p, <1>q, <2>0, <2>d, <3>1 DEF Msgs
  <2>2. CASE Return(q)
    <3>1. /\ Only(q) /\ pc[q] = "wait" /\ pc'[q] = "done"
          /\ UNCHANGED <<connVars, cacheVars, ids, orb, kept>>
      BY <1>0, <2>2, ReturnStep
    <3> QED
      BY <1>i, <1>p, <1>q, <2>0, <2>d, <3>1 DEF Msgs
  <2>3. CASE TimeOut(q)
    <3>1. /\ pc[q] = "wait" /\ ids'[q] = NoRec /\ \A p \in Caller : p # q => ids'[p] = ids[p]
          /\ kept' = kept \cup {<<q, ids[q].conn>>}
          /\ UNCHANGED <<connVars, cacheVars, orb, threadVars>>
      BY <1>0, <2>3, TimeOutStep
    <3>2. \A p \in Caller : Holder(p, c) <=> Holder(p, c)'
      <4> SUFFICES ASSUME NEW p \in Caller PROVE Holder(p, c) <=> Holder(p, c)'
        OBVIOUS
      <4>1. CASE p # q
        BY <3>1, <4>1 DEF Holder
      <4>2. CASE p = q
        BY <1>n, <3>1, <4>2 DEF Holder
      <4> QED
        BY <4>1, <4>2
    <3>3. Only(q)
      BY <3>1 DEF Only
    <3> HIDE DEF Holder
    <3> QED
      BY <1>k, <2>d, <3>1, <3>2, <3>3 DEF Msgs
  <2>4. CASE Cancel(q)
    <3>1. /\ Only(q) /\ pc[q] = "wait" /\ pc'[q] \in {"sendcancel", "done"}
          /\ \A r \in Caller : r # q => ids'[r] = ids[r]
          /\ UNCHANGED <<connVars, cacheVars, orb, kept>>
      BY <1>0, <2>4, CancelStep
    <3>2. \/ ids'[q] = [conn |-> ids[q].conn, active |-> FALSE]
          \/ ids' = ids
      BY <1>0, <2>4, CancelStep
    <3>3. \A p \in Caller : ids'[p].conn = ids[p].conn
      BY <3>1, <3>2
    <3> QED
      BY <1>i, <1>p, <1>q, <2>0, <2>d, <3>1, <3>3 DEF Msgs
  <2>5. CASE SendCancel(q)
    <3>1. ids[q].conn \in Conn
      BY <2>5, CancelRecord DEF SendCancel, At, Gone, Cancelling
    <3>2. /\ Only(q) /\ pc[q] = "sendcancel" /\ pc'[q] = "derefcancel" /\ MayClose(ids[q].conn)
          /\ UNCHANGED <<life, refcnt, slots, cacheVars, ids, kept>>
      BY <1>0, <2>5, <3>1, SendCancelStep
    <3>3. Msgs
      BY <3>1, <3>2 DEF Msgs, MayClose
    <3> QED
      BY <1>i, <1>p, <1>q, <2>0, <2>d, <3>2, <3>3
  <2>6. CASE DerefCancel(q)
    <3> DEFINE d == ids[q].conn
    <3>1. d \in Conn /\ q \in Own
      BY <2>6, CancelRecord DEF DerefCancel, At, Gone, Cancelling
    <3>2. /\ Only(q) /\ Keeps(q) /\ pc[q] = "derefcancel" /\ pc'[q] = "delcancel" /\ deref_conn(d) /\ Shape'
          /\ UNCHANGED <<life, state, cacheVars, ids, kept>>
      BY <1>0, <2>6, <3>1, DerefCancelStep
    <3>3. life[d] = "open"
      BY <1>0, <1>n, <2>6, <2>d, <3>1, Usage DEF DerefCancel, Cancelling
    <3>4. Token(q) /\ Kept(q, d) /\ ids[q] # NoRec
      BY <1>n, <3>1, Before
    <3>5. <<q, d>> \notin kept /\ ~Answers(d, q)
      BY <3>1, <3>4, TokenFacts, Kinds DEF Kept, Has
    <3>6. ASSUME NEW p \in Caller, p # q \/ c # d PROVE Holder(p, c) <=> Holder(p, c)'
      <4>1. pc'[c] = pc[c] /\ carries'[c] = carries[c]
        BY <1>t, <2>d, <3>2 DEF Only
      <4>2. CASE p = q
        BY <3>2, <3>6, <4>1, <4>2 DEF Holder
      <4>3. CASE p # q
        BY <3>2, <4>1, <4>3, Kinds DEF Holder, Only
      <4> QED
        BY <4>2, <4>3
    <3>7. c = d => Holder(q, c) /\ ~Holder(q, c)'
      <4> SUFFICES ASSUME c = d PROVE Holder(q, c) /\ ~Holder(q, c)'
        OBVIOUS
      <4>1. pc'[c] = pc[c] /\ carries'[c] = carries[c]
        BY <1>t, <2>d, <3>2 DEF Only
      <4> QED
        BY <3>2, <3>5, <4>1 DEF Holder, Answers
    <3>8. Owned(c)' <=> Owned(c)
      BY <1>i, <1>o, <2>0, <2>d, <3>2
    <3> HIDE DEF Holder, Owned, d
    <3> QED
      BY <1>d, <3>1, <3>2, <3>3, <3>6, <3>7, <3>8
  <2>7. CASE DelCancel(q)
    <3>1. /\ Only(q) /\ Keeps(q) /\ pc[q] = "delcancel" /\ pc'[q] = "done"
          /\ ids'[q] = NoRec /\ \A p \in Caller : p # q => ids'[p] = ids[p]
          /\ UNCHANGED <<connVars, cacheVars, orb, kept>>
      BY <1>0, <2>7, DelCancelStep
    <3>2. \A p \in Caller : Holder(p, c) <=> Holder(p, c)'
      <4> SUFFICES ASSUME NEW p \in Caller PROVE Holder(p, c) <=> Holder(p, c)'
        OBVIOUS
      <4>0. pc'[c] = pc[c] /\ carries'[c] = carries[c]
        BY <1>t, <2>d, <3>1 DEF Only
      <4>1. CASE p # q
        BY <3>1, <4>0, <4>1, Kinds DEF Holder, Only
      <4>2. CASE p = q
        BY <1>n, <3>1, <4>0, <4>2 DEF Holder
      <4> QED
        BY <4>1, <4>2
    <3> HIDE DEF Holder
    <3> QED
      BY <1>i, <1>k, <2>0, <2>d, <3>1, <3>2 DEF Msgs
  <2> QED
    BY <1>4, <2>1, <2>2, <2>3, <2>4, <2>5, <2>6, <2>7 DEF CallStep
<1>5. ASSUME NEW o \in OrbWorker, Pool(o) PROVE Refs(c)'
  <2>d. o \in Thread /\ o \notin Conn
    BY Kinds
  <2>1. CASE TakeClose(o)
    <3>1. /\ Only(o) /\ pc[o] = "idle" /\ pc'[o] = "unlist" /\ orb # <<>> /\ Head(orb).ev = "CloseConn"
          /\ orb' = Tail(orb) /\ UNCHANGED <<connVars, cacheVars, ids, kept>>
      BY <1>0, <2>1, TakeCloseStep
    <3>2. Stage(o, "idle") = 0 /\ Stage(o, "unlist") = 0
      BY <1>i, <2>d, Stages
    <3> QED
      BY <1>p, <1>q, <2>d, <3>1, <3>2 DEF Msgs
  <2>2. CASE TakeKill(o)
    <3>1. /\ orb # <<>> /\ Head(orb) \in OrbMsg /\ Head(orb).ev = "KillConn" /\ orb' = Tail(orb)
          /\ UNCHANGED <<state, refcnt, slots, cacheVars, ids, threadVars, kept>>
      BY <1>0, <2>2, TakeKillStep
    <3>2. PICK d \in Conn : /\ d = Head(orb).conn /\ refcnt[d] = 0 /\ pc[d] = "done" /\ life'[d] = "deleted"
                            /\ \A e \in Conn : e # d => life'[e] = life[e]
      BY <1>0, <2>2, TakeKillStep
    <3>3. Head(orb) = KillMsg(d)
      BY <3>1, <3>2 DEF OrbMsg, KillMsg
    <3>4. Head(orb) = KillMsg(c) <=> c = d
      BY <3>2, <3>3 DEF KillMsg
    <3>5. /\ CountIn(orb', {KillMsg(c)}) \in Nat /\ CountIn(orb, {KillMsg(c)}) \in Nat
          /\ CountIn(orb, {KillMsg(c)}) = CountIn(orb', {KillMsg(c)}) + (IF c = d THEN 1 ELSE 0)
      BY <1>0, <3>1, <3>4, KillMsgs
    <3>6. Born(d)
      BY <1>0, <3>2 DEF Born, Shape, LifeShape
    <3>7. /\ \A p \in Caller : Holder(p, c) <=> Holder(p, c)'
          /\ Owned(c)' <=> Owned(c)
      BY <3>1 DEF Holder, Owned, Kills
    <3>8. Born(c)' => Born(c)
      BY <3>2, <3>6 DEF Born
    <3>9. CASE c = d
      <4>1. CountIn(orb, {KillMsg(c)}) \in {0, 1}
        BY <1>0, <3>6, <3>9 DEF Refs
      <4>2. CountIn(orb', {KillMsg(c)}) = 0
        BY <3>5, <3>9, <4>1
      <4> HIDE DEF Holder, Owned
      <4> QED
        BY <1>0, <3>1, <3>2, <3>7, <3>8, <3>9, <4>2, RefsKept
    <3>10. CASE c # d
      <4> HIDE DEF Holder, Owned
      <4>1. CountIn(orb', {KillMsg(c)}) = CountIn(orb, {KillMsg(c)}) /\ life'[c] = life[c]
        BY <3>2, <3>5, <3>10
      <4> QED
        BY <1>0, <3>1, <3>7, <3>8, <4>1, RefsKept
    <3> QED
      BY <3>9, <3>10
  <2> QED
    BY <1>5, <2>1, <2>2 DEF Pool
<1>6. CASE Shutdown
  <2>1. /\ Only(Main) /\ pc[Main] = "idle" /\ pc'[Main] \in {"done", "unlist"}
        /\ UNCHANGED <<connVars, cacheVars, ids, orb, kept>>
    BY <1>0, <1>6, ShutdownStep
  <2>2. \A l \in {"idle", "unlist", "done"} : Stage(Main, l) = 0
    BY <1>i, <1>t, Stages
  <2> QED
    BY <1>p, <1>q, <1>t, <2>1, <2>2 DEF Msgs
<1>7. ASSUME NEW t \in Thread, invoke(t) PROVE Refs(c)'
  <2>0. /\ \A l \in Invoking \cup {"pending"} : t \in Conn => Stage(t, l) = 5
        /\ \A l \in Invoking \cup {"wait", "done"} : t \notin Conn => Stage(t, l) = 0
    BY <1>i, Stages
\* the sender goes on
  <2>a. ASSUME Only(t), pc[t] \in Invoking, victim'[t] = victim[t], Msgs, UNCHANGED <<life, refcnt, conns, ids, kept>>,
               \/ pc'[t] \in Invoking
               \/ t \in Conn /\ pc'[t] = "pending"
               \/ t \notin Conn /\ pc'[t] \in {"wait", "done"}
        PROVE  Refs(c)'
    <3>1. Plain(pc[t]) /\ Plain(pc'[t])
      BY <1>i, <2>a
    <3>2. Kept1(t) /\ Kept2(t)
      BY <1>i, <2>0, <2>a
    <3> HIDE DEF Plain, Kept1, Kept2
    <3> QED
      BY <1>p, <1>q, <2>a, <3>1, <3>2
  <2>1. CASE Lookup(t)
    <3>1. /\ Only(t) /\ pc[t] = "lookup" /\ pc'[t] \in {"ref", "connect"} /\ victim'[t] = victim[t]
          /\ UNCHANGED <<connVars, conns, ids, orb, kept>>
      BY <1>0, <2>1, LookupStep
    <3> QED
      BY <1>i, <2>a, <3>1 DEF Msgs
  <2>2. CASE FindConn(t) \/ Cache(t)
    <3>1. /\ Only(t) /\ pc[t] \in {"connect", "cache"} /\ pc'[t] \in {"cache", "ref"} /\ victim'[t] = victim[t]
          /\ UNCHANGED <<connVars, conns, ids, orb, kept>>
      BY <1>0, <2>2, FindStep
    <3> QED
      BY <1>i, <2>a, <3>1 DEF Msgs
  <2>3. CASE NewConn(t)
    <3> DEFINE n == conns'
    <3>1. /\ n \in Conn /\ n # t /\ conns = NoConn /\ life[n] = "none" /\ life'[n] = "open"
          /\ pc[t] = "connect" /\ pc'[t] = "cache" /\ pc[n] = "idle" /\ pc'[n] = "select"
          /\ \A u \in Thread : u # t /\ u # n => pc'[u] = pc[u]
          /\ \A d \in Conn : d # n => life'[d] = life[d] /\ refcnt'[d] = refcnt[d]
          /\ refcnt'[n] = 1
          /\ UNCHANGED <<victim, carries, ids, orb, kept>>
      BY <1>0, <2>3, NewConnStep
    <3>n. n \in Thread
      BY <3>1, Kinds
    <3> HIDE DEF n
    <3>a. pc'[c] \in {"answer", "giveback"} <=> pc[c] \in {"answer", "giveback"}
      BY <1>t, <3>1
    <3>b. \A p \in Caller : pc'[p] # "delcancel" <=> pc[p] # "delcancel"
      BY <3>1, Kinds
    <3>2. \A p \in Caller : Holder(p, c) <=> Holder(p, c)'
      BY <3>1, <3>a, <3>b DEF Holder
    <3>3. CASE c = n
      <4>1. \A p \in Caller : ~Holder(p, c)
        BY <1>0, <3>1, <3>3, BornWhen DEF Born
      <4>2. HeldRecs(c)' = {}
        <5>1. \A p \in Caller : ~Holder(p, c)'
          BY <3>2, <4>1
        <5> QED
          BY <5>1 DEF HeldRecs, Holder
      <4>3. Owned(c)'
        BY <3>3 DEF Owned, n
      <4>4. CountIn(orb, {KillMsg(c)}) = 0
        <5>1. orb \in Seq(OrbMsg)
          BY <1>0 DEF RestShape
        <5>2. \A i \in DOMAIN orb : orb[i].conn # c
          BY <1>0, <3>1, <3>3 DEF Unborn
        <5>3. \A i \in DOMAIN orb : orb[i] # KillMsg(c)
          <6>1. KillMsg(c).conn = c
            BY DEF KillMsg
          <6> QED
            BY <5>2, <6>1
        <5> QED
          BY <5>1, <5>3, NoneCount
      <4>5. Cardinality(HeldRecs(c)') = 0
        BY <4>2, FS_EmptySet
      <4> HIDE DEF Owned
      <4> QED
        BY <3>1, <3>3, <4>3, <4>4, <4>5 DEF Refs, KillMsg
    <3>4. CASE c # n
      <4>1. \A u \in Thread : Kills(u, c)' <=> Kills(u, c)
        <5> SUFFICES ASSUME NEW u \in Thread PROVE Kills(u, c)' <=> Kills(u, c)
          OBVIOUS
        <5>1. CASE u = n
          BY <1>0, <1>i, <3>1, <3>4, <5>1, Stages DEF Kills, ThreadShape, Place, KillsAt
        <5>2. CASE u = t
          BY <1>i, <2>0, <3>1, <5>2 DEF Kills
        <5>3. CASE u # n /\ u # t
          BY <3>1, <5>3 DEF Kills
        <5> QED
          BY <5>1, <5>2, <5>3
      <4>2. conns # c /\ conns' # c
        BY <3>1, <3>4, Kinds DEF n
      <4>3. Owned(c)' <=> Owned(c)
        BY <4>1, <4>2 DEF Owned
      <4>4. (Born(c)' => Born(c)) /\ refcnt'[c] = refcnt[c] /\ life'[c] = life[c]
        BY <3>1, <3>4 DEF Born
      <4> HIDE DEF Holder, Owned
      <4> QED
        BY <1>0, <3>1, <3>2, <4>3, <4>4, RefsKept
    <3> QED
      BY <3>3, <3>4
  <2>4. CASE NoConnection(t)
    <3>1. /\ Only(t) /\ pc[t] = "connect" /\ victim'[t] = victim[t]
          /\ UNCHANGED <<connVars, cacheVars, ids, orb, kept>>
          /\ (t \in Conn => pc'[t] = "pending") /\ (t \in Own => pc'[t] = "wait")
          /\ (t \in Oneway => pc'[t] = "done")
      BY <1>0, <2>4, NoConnectionStep, Kinds
    <3>2. t \in Conn \/ (t \notin Conn /\ (t \in Own \/ t \in Oneway))
      BY <1>0, <1>i, <3>1, Invokers DEF Own
    <3> QED
      BY <1>i, <2>a, <3>1, <3>2 DEF Msgs
  <2>5. CASE Ref(t)
    <3>1. /\ Only(t) /\ Keeps(t) /\ pc[t] = "ref" /\ pc'[t] = "add"
          /\ UNCHANGED <<life, refcnt, slots, cacheVars, ids, orb, kept>>
      BY <1>0, <2>5, RefStep
    <3> QED
      BY <1>i, <2>a, <3>1 DEF Msgs, Keeps
  <2>6. CASE AddInvoke(t)
    <3>0. PICK q \in Caller : q = carries[t]
      BY <1>0, <2>6, AddStep
    <3>1. /\ Only(t) /\ Keeps(t) /\ pc[t] = "add" /\ pc'[t] = "output" /\ on[t] \in Conn /\ Shape'
          /\ q = carries[t] /\ q \in Caller /\ UNCHANGED <<life, state, slots, cacheVars, orb, kept>>
      BY <1>0, <2>6, <3>0, AddStep
    <3>2. \/ ids' = ids /\ refcnt' = refcnt
          \/ /\ q \in Own /\ ids'[q] = [conn |-> on[t], active |-> TRUE]
             /\ \A r \in Caller : r # q => ids'[r] = ids[r]
             /\ refcnt'[on[t]] = refcnt[on[t]] + 1
             /\ \A d \in Conn : d # on[t] => refcnt'[d] = refcnt[d]
      BY <1>0, <2>6, <3>0, AddStep
    <3>3. CASE ids' = ids /\ refcnt' = refcnt
      BY <1>i, <2>a, <3>1, <3>3 DEF Msgs, Keeps
    <3>4. CASE /\ q \in Own /\ ids'[q] = [conn |-> on[t], active |-> TRUE]
               /\ \A r \in Caller : r # q => ids'[r] = ids[r]
               /\ refcnt'[on[t]] = refcnt[on[t]] + 1
               /\ \A d \in Conn : d # on[t] => refcnt'[d] = refcnt[d]
      <4>1. Has(t, q) /\ Token(q) /\ Kept(q, on[t])
        BY <3>1, <3>4, Before DEF Has, Adds, Early
      <4>2. ids[q] = NoRec /\ \A u \in Thread : Has(u, q) => u = t
        BY <4>1 DEF Token
      <4>3. Holds(t, on[t])
        BY <3>1 DEF Holds, Sending
      <4>4. /\ Born(on[t]) /\ life[on[t]] = "open" /\ Owned(on[t]) /\ state[on[t]].current \in 1..3
        BY <3>1, <4>3, Before, InUse
      <4>5. <<q, on[t]>> \notin kept
        BY <3>4, <4>1, <4>2, <4>4 DEF Kept
      <4>6. ~Answers(c, q)
        BY <1>t, <3>1, <4>2 DEF Has, Answers
      <4>7. ~Answers(c, q)' /\ \A p \in Caller : p # q => (Answers(c, p)' <=> Answers(c, p))
        BY <1>t, <3>1, <4>6 DEF Answers, Only, Keeps
      <4>8. pc'[q] # "delcancel"
        <5>1. CASE q = t
          BY <3>1, <5>1
        <5>2. CASE q # t
          BY <1>n, <3>1, <3>4, <4>1, <4>2, <5>2, Kinds DEF Only, Token, Gone
        <5> QED
          BY <5>1, <5>2
      <4>9. \A p \in Caller : p # q => (Holder(p, c) <=> Holder(p, c)')
        <5> SUFFICES ASSUME NEW p \in Caller, p # q PROVE Holder(p, c) <=> Holder(p, c)'
          OBVIOUS
        <5>1. pc'[p] = "delcancel" <=> pc[p] = "delcancel"
          BY <3>1, Kinds DEF Only
        <5>2. ids'[p] = ids[p] /\ kept' = kept
          BY <3>1, <3>4
        <5> QED
          BY <4>7, <5>1, <5>2 DEF Holder, Answers
      <4>10. CASE c = on[t]
        <5>1. ~Holder(q, c)
          BY <1>n, <4>2, <4>5, <4>6, <4>10 DEF Holder, Answers
        <5>2. Holder(q, c)'
          <6>1. ids'[q].conn = c
            BY <3>4, <4>10
          <6> QED
            BY <4>8, <6>1 DEF Holder
        <5>3. Owned(c)' <=> Owned(c)
          BY <1>i, <1>o, <2>0, <3>1 DEF Keeps
        <5>4. refcnt[c] > 0 /\ refcnt[c] \in Nat /\ CountIn(orb, {KillMsg(c)}) = 0
          <6>1. Cardinality(HeldRecs(c)) \in Nat
            BY Records
          <6> QED
            BY <1>0, <4>4, <4>10, <6>1 DEF Refs
        <5> HIDE DEF Holder, Owned
        <5>5. /\ CountIn(orb', {KillMsg(c)}) = (IF refcnt'[c] = 0 /\ life'[c] = "open" THEN 1 ELSE 0)
              /\ life'[c] # "deleted"
          BY <3>1, <3>4, <4>4, <4>10, <5>4
        <5>6. refcnt'[c] + (IF Holder(q, c) THEN 1 ELSE 0) + (IF Owned(c) THEN 1 ELSE 0) =
                refcnt[c] + (IF Holder(q, c)' THEN 1 ELSE 0) + (IF Owned(c)' THEN 1 ELSE 0)
          BY <3>4, <4>10, <5>1, <5>2, <5>3, <5>4
        <5> QED
          BY <1>0, <1>c, <3>1, <4>4, <4>9, <4>10, <5>5, <5>6, RefsMove
      <4>11. CASE c # on[t]
        <5>0. ids'[q].conn # c /\ ids[q].conn # c
          BY <1>n, <3>4, <4>2, <4>11
        <5>1. Holder(q, c) <=> Holder(q, c)'
          BY <3>1, <4>6, <4>7, <5>0 DEF Holder, Answers
        <5>2. Owned(c)' <=> Owned(c)
          BY <1>i, <1>o, <2>0, <3>1 DEF Keeps
        <5> HIDE DEF Holder, Owned
        <5>3. \A p \in Caller : Holder(p, c) <=> Holder(p, c)'
          BY <4>9, <5>1
        <5> QED
          BY <1>0, <3>1, <3>4, <4>11, <5>2, <5>3, RefsKept DEF Born
      <4> QED
        BY <4>10, <4>11
    <3> QED
      BY <3>2, <3>3, <3>4
  <2>7. CASE Output(t)
    <3>1. /\ Only(t) /\ Keeps(t) /\ pc[t] = "output" /\ pc'[t] = "deref" /\ on[t] \in Conn /\ MayClose(on[t])
          /\ UNCHANGED <<life, refcnt, slots, cacheVars, ids, kept>>
      BY <1>0, <2>7, OutputStep
    <3>2. Msgs
      BY <3>1 DEF Msgs, MayClose
    <3> QED
      BY <1>i, <2>a, <3>1, <3>2 DEF Keeps
  <2>8. CASE ActiveDeref(t)
    <3>1. /\ Only(t) /\ pc[t] = "deref" /\ victim'[t] = victim[t]
          /\ UNCHANGED <<life, refcnt, slots, cacheVars, ids, orb, kept>>
          /\ \/ t \in Conn /\ pc'[t] = "pending"
             \/ t \in Oneway /\ pc'[t] = "done"
             \/ t \in Own /\ pc'[t] = "wait"
      BY <1>0, <2>8, ActiveDerefStep
    <3>2. t \in Oneway \cup Own => t \notin Conn
      BY Kinds
    <3> QED
      BY <1>i, <2>a, <3>1, <3>2 DEF Msgs
  <2> QED
    BY <1>7, <2>1, <2>2, <2>3, <2>4, <2>5, <2>6, <2>7, <2>8 DEF invoke
<1>8. ASSUME NEW t \in Thread, kill_conn(t) PROVE Refs(c)'
  <2>0. /\ Stage(t, "unlist") = 0 /\ \A l \in {"select", "done", "idle"} : Stage(t, l) = 0
        /\ Stage(t, "uncache") = 1 /\ Stage(t, "shutdown") = 2 /\ Stage(t, "join") = 3
        /\ Stage(t, "terminated") = 4 /\ \A l \in {"pending", "abort", "redo"} : Stage(t, l) = 5
        /\ t \in Conn => Stage(t, "lookup") = 5
    BY <1>i, Stages
  <2>a. ASSUME Only(t), Keeps(t), UNCHANGED <<life, refcnt, conns, ids, kept, orb>>,
               pc[t] \in Killing \ {"unlist"}, pc'[t] \in Killing \ {"unlist"}
        PROVE  Refs(c)'
    <3>1. Plain(pc[t]) /\ Plain(pc'[t])
      BY <1>i, <2>a
    <3>2. Kept1(t) /\ Kept2(t)
      BY <1>i, <2>0, <2>a DEF Keeps
    <3> HIDE DEF Plain, Kept1, Kept2
    <3> QED
      BY <1>p, <1>q, <2>a, <3>1, <3>2 DEF Msgs
  <2>1. CASE Unlist(t)
    <3>1. /\ Only(t) /\ pc[t] = "unlist" /\ victim[t] \in Conn /\ UNCHANGED <<connVars, ids, orb, kept>>
          /\ \/ conns = victim[t] /\ conns' = NoConn /\ pc'[t] = "uncache" /\ Keeps(t)
             \/ conns # victim[t] /\ conns' = conns /\ Left(t)
      BY <1>0, <2>1, UnlistStep
    <3>2. pc'[t] \in {"uncache", "select", "done", "idle"}
      BY <3>1 DEF Left
    <3>3. Still(t)
      BY <1>p, <3>1, <3>2
    <3>4. CASE conns # victim[t] /\ conns' = conns /\ Left(t)
      <4>1. pc'[t] \in {"select", "done", "idle"}
        BY <3>4 DEF Left
      <4> QED
        BY <1>q, <2>0, <3>1, <3>3, <3>4, <4>1 DEF Msgs
    <3>5. CASE conns = victim[t] /\ conns' = NoConn /\ pc'[t] = "uncache" /\ Keeps(t)
      <4>1. Owned(c)' <=> Owned(c)
        <5>1. \A u \in Thread : u # t => (Kills(u, c)' <=> Kills(u, c))
          BY <3>1 DEF Kills, Only
        <5>2. ~Kills(t, c) /\ (Kills(t, c)' <=> victim[t] = c)
          BY <2>0, <3>1, <3>5 DEF Kills, Keeps
        <5> HIDE DEF Kills
        <5>3. conns' # c
          BY <3>5, Kinds
        <5> QED
          BY <3>5, <5>1, <5>2, <5>3 DEF Owned
      <4>2. \A p \in Caller : Holder(p, c) <=> Holder(p, c)'
        BY <1>h, <3>3
      <4> HIDE DEF Holder, Owned
      <4> QED
        BY <1>0, <3>1, <4>1, <4>2, RefsKept DEF Born
    <3> QED
      BY <3>1, <3>4, <3>5
  <2>2. CASE Uncache(t)
    <3>1. /\ Only(t) /\ Keeps(t) /\ pc[t] = "uncache" /\ pc'[t] = "shutdown"
          /\ UNCHANGED <<life, refcnt, slots, conns, ids, orb, kept>>
      BY <1>0, <2>2, UncacheStep
    <3> QED
      BY <1>i, <2>a, <3>1
  <2>3. CASE ShutdownEffective(t) \/ TerminatedEffective(t)
    <3>1. /\ Only(t) /\ Keeps(t) /\ pc[t] \in {"shutdown", "terminated"} /\ pc'[t] \in {"join", "pending"}
          /\ UNCHANGED <<life, refcnt, slots, cacheVars, ids, orb, kept>>
      BY <1>0, <2>3, EffectiveStep
    <3> QED
      BY <1>i, <2>a, <3>1
  <2>4. CASE Join(t)
    <3>1. /\ Only(t) /\ Keeps(t) /\ pc[t] = "join" /\ pc'[t] = "terminated"
          /\ UNCHANGED <<life, refcnt, slots, cacheVars, ids, orb, kept>>
      BY <1>0, <2>4, JoinStep
    <3> QED
      BY <1>i, <2>a, <3>1
  <2>5. CASE NextPending(t)
    <3>1. /\ Only(t) /\ pc[t] = "pending" /\ pc'[t] \in {"redo", "abort"} /\ victim'[t] = victim[t]
          /\ UNCHANGED <<connVars, cacheVars, ids, orb, kept>>
      BY <1>0, <2>5, NextPendingStep
    <3> QED
      BY <1>p, <1>q, <2>0, <3>1 DEF Msgs
  <2>6. CASE Abort(t) \/ Redo(t)
    <3> DEFINE q == carries[t]
    <3>1. /\ Only(t) /\ Keeps(t) /\ q \in Own /\ pc[t] \in {"abort", "redo"}
          /\ ids[q] = [conn |-> ids[q].conn, active |-> TRUE]
          /\ ids'[q] = NoRec /\ \A p \in Caller : p # q => ids'[p] = ids[p]
          /\ kept' = kept \cup {<<q, ids[q].conn>>}
          /\ UNCHANGED <<connVars, cacheVars, orb>>
          /\ pc'[t] = "pending" \/ (t \in Conn /\ pc'[t] = "lookup")
      BY <1>0, <2>6, DropStep
    <3>2. Token(q) /\ ids[q].active
      BY <3>1, Before
    <3>3. pc[q] \notin Gone
      BY <3>1, <3>2, TokenFacts
    <3>4. t \notin Caller
      BY <1>0, <1>i, <3>1, KillersOf
    <3>5. \A p \in Caller : Holder(p, c) <=> Holder(p, c)'
      <4> SUFFICES ASSUME NEW p \in Caller PROVE Holder(p, c) <=> Holder(p, c)'
        OBVIOUS
      <4>1. pc'[p] = pc[p]
        BY <3>1, <3>4, Kinds DEF Only
      <4>2. pc'[c] \in {"answer", "giveback"} /\ carries'[c] = p <=>
              pc[c] \in {"answer", "giveback"} /\ carries[c] = p
        BY <1>t, <3>1 DEF Only
      <4>3. CASE p # q
        BY <3>1, <4>1, <4>2, <4>3 DEF Holder
      <4>4. CASE p = q
        BY <1>n, <3>1, <3>3, <4>1, <4>2, <4>4 DEF Holder, Gone
      <4> QED
        BY <4>3, <4>4
    <3> HIDE DEF Holder, q
    <3> QED
      BY <1>k, <2>0, <3>1, <3>5 DEF Msgs, Keeps
  <2>7. CASE KillEnd(t)
    <3> DEFINE d == victim[t]
    <3>1. /\ Only(t) /\ Left(t) /\ pc[t] = "pending" /\ d \in Conn /\ life[d] = "open" /\ deref_conn(d) /\ Shape'
          /\ UNCHANGED <<life, state, cacheVars, ids, kept>>
      BY <1>0, <2>7, KillEndStep
    <3>2. pc'[t] \in {"select", "done", "idle"}
      BY <3>1 DEF Left
    <3>3. \A p \in Caller : Holder(p, c) <=> Holder(p, c)'
      BY <1>h, <1>p, <3>1, <3>2
    <3>4. /\ Kills(t, c) <=> c = d
          /\ ~Kills(t, c)'
          /\ \A u \in Thread : u # t => (Kills(u, c)' <=> Kills(u, c))
      BY <2>0, <3>1, <3>2 DEF Kills, Only
    <3>5. c = d => Owned(c) /\ ~Owned(c)'
      <4> SUFFICES ASSUME c = d PROVE Owned(c) /\ ~Owned(c)'
        OBVIOUS
      <4>1. Born(c) /\ Kills(t, c)
        BY <3>1, <3>4 DEF Born
      <4> HIDE DEF Kills
      <4>2. conns # c /\ \A u \in Thread : Kills(u, c) => u = t
        BY <1>0, <4>1 DEF Phase
      <4> QED
        BY <3>1, <3>4, <4>1, <4>2 DEF Owned
    <3>6. c # d => (Owned(c)' <=> Owned(c))
      <4> HIDE DEF Kills
      <4> QED
        BY <3>1, <3>4 DEF Owned
    <3>7. HeldRecs(c)' = HeldRecs(c)
      <4>1. HeldRecs(c) \in SUBSET Caller /\ \A p \in Caller : p \in HeldRecs(c) <=> Holder(p, c)
        BY Records
      <4>2. HeldRecs(c)' \in SUBSET Caller /\ \A p \in Caller : p \in HeldRecs(c)' <=> Holder(p, c)'
        BY DEF HeldRecs, Holder
      <4> HIDE DEF Holder
      <4> QED
        BY <3>3, <4>1, <4>2
    <3>8. /\ refcnt'[c] = refcnt[c] - (IF c = d THEN 1 ELSE 0) /\ refcnt[c] \in Nat
          /\ c = d => CountIn(orb', {KillMsg(c)}) = (IF refcnt'[c] = 0 THEN 1 ELSE 0)
          /\ c # d => CountIn(orb', {KillMsg(c)}) = CountIn(orb, {KillMsg(c)})
      BY <1>0, <3>1, DerefRefs DEF ConnShape
    <3>9. Cardinality(HeldRecs(c)) \in Nat /\ KillMsg(c)' = KillMsg(c)
      BY Records DEF KillMsg
    <3> HIDE DEF Owned, d
    <3>10. CASE c = d
      <4>1. Born(c) /\ life'[c] = "open"
        BY <3>1, <3>10 DEF Born
      <4> QED
        BY <1>0, <3>1, <3>5, <3>7, <3>8, <3>9, <3>10, <4>1 DEF Refs
    <3>11. CASE c # d
      BY <1>0, <3>1, <3>6, <3>7, <3>8, <3>9, <3>11 DEF Refs, Born
    <3> QED
      BY <3>10, <3>11
  <2> QED
    BY <1>8, <2>1, <2>2, <2>3, <2>4, <2>5, <2>6, <2>7 DEF kill_conn
<1>9. ASSUME NEW t \in Thread, Fail(t) PROVE Refs(c)'
  <2>1. UNCHANGED <<callVars, connVars, cacheVars, ids, orb, threadVars, kept>>
    BY <1>0, <1>9, FailStep
  <2> QED
    BY <1>0, <2>1 DEF Refs, Born, HeldRecs, Owned, Kills, KillMsg
<1> QED
  BY <1>1, <1>3, <1>4, <1>5, <1>6, <1>7, <1>8, <1>9, Steps

\* One connection gets a reference, or loses one.
LEMMA SlotsMove ==
  ASSUME Slots, ConnShape, NEW c \in Conn, \A d \in Conn : d # c => refcnt'[d] = refcnt[d],
         slots' + (IF refcnt[c] > 0 THEN 1 ELSE 0) = slots + (IF refcnt'[c] > 0 THEN 1 ELSE 0),
         slots' \in Int, slots' <= slots \/ slots' <= ConnLimit
  PROVE  Slots'
<1> DEFINE A == {d \in Conn : refcnt[d] > 0}
           B == {d \in Conn : refcnt'[d] > 0}
<1>1. IsFiniteSet(Conn)
  BY ConstantsAssumption
<1>2. A \in SUBSET Conn /\ B \in SUBSET Conn /\ (c \in A <=> refcnt[c] > 0) /\ (c \in B <=> refcnt'[c] > 0)
      /\ \A d \in Conn : d # c => (d \in A <=> d \in B)
  OBVIOUS
<1>3. slots = Cardinality(A) /\ slots <= ConnLimit /\ slots \in Int /\ ConnLimit \in Int
  BY ConstantsAssumption DEF Slots, ConnShape
<1>4. Slots' <=> slots' = Cardinality(B) /\ slots' <= ConnLimit
  BY DEF Slots
<1> HIDE DEF A, B
<1>5. /\ Cardinality(A) \in Nat /\ Cardinality(B) \in Nat
      /\ Cardinality(B) + (IF c \in A THEN 1 ELSE 0) = Cardinality(A) + (IF c \in B THEN 1 ELSE 0)
  BY <1>1, <1>2, MoveCount
<1>6. slots' = Cardinality(B)
  BY <1>2, <1>3, <1>5
<1> QED
  BY <1>3, <1>4, <1>6

\* A step keeps as many slots in use as there are connections with a reference.
LEMMA SlotsInv ==
  ASSUME Inv, Next
  PROVE  Slots'
<1> USE DEF serverVars, callVars, connVars, cacheVars, threadVars
<1>0. Shape /\ Slots /\ ConnShape /\ ThreadShape /\ RestShape
  BY Before
<1>k. ASSUME refcnt' = refcnt, slots' = slots PROVE Slots'
  BY <1>0, <1>k DEF Slots
<1>d. ASSUME NEW d \in Conn, deref_conn(d) PROVE Slots'
  <2>1. /\ refcnt'[d] = refcnt[d] - 1 /\ refcnt[d] > 0 /\ refcnt[d] \in Nat /\ slots \in Int
        /\ \A e \in Conn : e # d => refcnt'[e] = refcnt[e]
        /\ slots' = (IF refcnt[d] = 1 THEN slots - 1 ELSE slots)
    BY <1>0, <1>d, DerefShape DEF ConnShape
  <2>2. /\ slots' + (IF refcnt[d] > 0 THEN 1 ELSE 0) = slots + (IF refcnt'[d] > 0 THEN 1 ELSE 0)
        /\ slots' \in Int /\ slots' <= slots
    BY <2>1
  <2> QED
    BY <1>0, <2>1, <2>2, SlotsMove
<1>1. ASSUME NEW c \in Conn,
             Serve(c) \/ Crash(c) \/ \E k \in {"close", "error"} : ServerCloses(c, k)
      PROVE  Slots'
  BY <1>0, <1>1, <1>k, PeerStep
<1>3. ASSUME NEW c \in Conn, Reader(c) PROVE Slots'
  <2>1. CASE Select(c) \/ LeaveLoop(c)
    BY <1>0, <1>k, <2>1, SelectStep
  <2>2. CASE Read(c)
    BY <1>0, <1>k, <2>2, ReadStep
  <2>3. CASE ReadEnd(c)
    BY <1>0, <1>k, <2>3, ReadEndStep
  <2>4. CASE Pull(c)
    BY <1>0, <1>k, <2>4, PullStep
  <2>5. CASE Delete(c)
    BY <1>0, <1>k, <2>5, DeleteStep
  <2>6. CASE Answer(c)
    BY <1>0, <1>k, <2>6, AnswerStep
  <2>7. CASE GiveBack(c)
    BY <1>0, <1>d, <2>7, GiveBackStep
  <2>8. CASE Release(c) \/ Closing(c)
    BY <1>0, <1>k, <2>8, ReleaseStep
  <2> QED
    BY <1>3, <2>1, <2>2, <2>3, <2>4, <2>5, <2>6, <2>7, <2>8 DEF Reader
<1>4. ASSUME NEW q \in Caller, Begin(q) \/ CallStep(q) \/ TimeOut(q) \/ Cancel(q) PROVE Slots'
  <2>g. pc[q] \in Cancelling => ids[q].conn \in Conn
    BY CancelRecord DEF Gone
  <2>1. CASE Begin(q)
    BY <1>0, <1>k, <2>1, BeginStep
  <2>2. CASE Return(q)
    BY <1>0, <1>k, <2>2, ReturnStep
  <2>3. CASE SendCancel(q)
    <3>1. ids[q].conn \in Conn
      BY <2>3, <2>g DEF SendCancel, At, Cancelling
    <3> QED
      BY <1>0, <1>k, <2>3, <3>1, SendCancelStep
  <2>4. CASE DerefCancel(q)
    <3>1. ids[q].conn \in Conn
      BY <2>4, <2>g DEF DerefCancel, At, Cancelling
    <3> QED
      BY <1>0, <1>d, <2>4, <3>1, DerefCancelStep
  <2>5. CASE DelCancel(q)
    BY <1>0, <1>k, <2>5, DelCancelStep
  <2>6. CASE TimeOut(q)
    BY <1>0, <1>k, <2>6, TimeOutStep
  <2>7. CASE Cancel(q)
    BY <1>0, <1>k, <2>7, CancelStep
  <2> QED
    BY <1>4, <2>1, <2>2, <2>3, <2>4, <2>5, <2>6, <2>7 DEF CallStep
<1>5. ASSUME NEW o \in OrbWorker, Pool(o) PROVE Slots'
  <2>1. CASE TakeClose(o)
    BY <1>0, <1>k, <2>1, TakeCloseStep
  <2>2. CASE TakeKill(o)
    BY <1>0, <1>k, <2>2, TakeKillStep
  <2> QED
    BY <1>5, <2>1, <2>2 DEF Pool
<1>6. ASSUME Shutdown PROVE Slots'
  BY <1>0, <1>6, <1>k, ShutdownStep
<1>7. ASSUME NEW t \in Thread, invoke(t) PROVE Slots'
  <2>1. CASE Lookup(t)
    BY <1>0, <1>k, <2>1, LookupStep
  <2>2. CASE FindConn(t) \/ Cache(t)
    BY <1>0, <1>k, <2>2, FindStep
  <2>3. CASE NewConn(t)
    <3>1. PICK n \in Conn : n = conns'
      BY <1>0, <2>3, NewConnStep
    <3>2. /\ life[n] = "none" /\ \A d \in Conn : d # n => refcnt'[d] = refcnt[d]
          /\ refcnt'[n] = 1 /\ slots' = slots + 1 /\ slots < ConnLimit
      BY <1>0, <2>3, <3>1, NewConnStep
    <3>3. Unborn(n)
      BY Before
    <3>4. refcnt[n] = 0 /\ slots \in Int /\ ConnLimit \in Int
      BY <1>0, <3>2, <3>3, ConstantsAssumption DEF Unborn, ConnShape
    <3>5. /\ slots' + (IF refcnt[n] > 0 THEN 1 ELSE 0) = slots + (IF refcnt'[n] > 0 THEN 1 ELSE 0)
          /\ slots' \in Int /\ slots' <= ConnLimit
      BY <3>2, <3>4
    <3> QED
      BY <1>0, <3>2, <3>5, SlotsMove
  <2>4. CASE NoConnection(t)
    BY <1>0, <1>k, <2>4, NoConnectionStep
  <2>5. CASE Ref(t)
    BY <1>0, <1>k, <2>5, RefStep
  <2>6. CASE AddInvoke(t)
    <3>1. /\ pc[t] = "add" /\ on[t] \in Conn /\ slots' = slots
          /\ \/ refcnt' = refcnt
             \/ /\ refcnt'[on[t]] = refcnt[on[t]] + 1
                /\ \A d \in Conn : d # on[t] => refcnt'[d] = refcnt[d]
      BY <1>0, <2>6, AddStep
    <3>2. Holds(t, on[t])
      BY <3>1 DEF Holds, Sending
    <3>3. PICK c \in Conn : c = on[t]
      BY <3>1
    <3>4. Unborn(c) /\ Phase(c) /\ Active(c) /\ Refs(c)
      BY Before
    <3>5. Born(c) /\ Owned(c)
      BY <1>0, <3>2, <3>3, <3>4, InUse
    <3>6. Cardinality(HeldRecs(c)) \in Nat
      BY Records
    <3>7. refcnt[c] > 0 /\ refcnt[c] \in Nat /\ slots \in Int
      BY <1>0, <3>4, <3>5, <3>6 DEF Refs, ConnShape
    <3>8. CASE refcnt' = refcnt
      BY <1>k, <3>1, <3>8
    <3>9. CASE /\ refcnt'[on[t]] = refcnt[on[t]] + 1
               /\ \A d \in Conn : d # on[t] => refcnt'[d] = refcnt[d]
      <4>1. /\ slots' + (IF refcnt[c] > 0 THEN 1 ELSE 0) = slots + (IF refcnt'[c] > 0 THEN 1 ELSE 0)
            /\ slots' \in Int /\ slots' <= slots
        BY <3>1, <3>3, <3>7, <3>9
      <4> QED
        BY <1>0, <3>3, <3>9, <4>1, SlotsMove
    <3> QED
      BY <3>1, <3>8, <3>9
  <2>7. CASE Output(t)
    BY <1>0, <1>k, <2>7, OutputStep
  <2>8. CASE ActiveDeref(t)
    BY <1>0, <1>k, <2>8, ActiveDerefStep
  <2> QED
    BY <1>7, <2>1, <2>2, <2>3, <2>4, <2>5, <2>6, <2>7, <2>8 DEF invoke
<1>8. ASSUME NEW t \in Thread, kill_conn(t) PROVE Slots'
  <2>1. CASE Unlist(t)
    BY <1>0, <1>k, <2>1, UnlistStep
  <2>2. CASE Uncache(t)
    BY <1>0, <1>k, <2>2, UncacheStep
  <2>3. CASE ShutdownEffective(t) \/ TerminatedEffective(t)
    BY <1>0, <1>k, <2>3, EffectiveStep
  <2>4. CASE Join(t)
    BY <1>0, <1>k, <2>4, JoinStep
  <2>5. CASE NextPending(t)
    BY <1>0, <1>k, <2>5, NextPendingStep
  <2>6. CASE Abort(t) \/ Redo(t)
    BY <1>0, <1>k, <2>6, DropStep
  <2>7. CASE KillEnd(t)
    BY <1>0, <1>d, <2>7, KillEndStep
  <2> QED
    BY <1>8, <2>1, <2>2, <2>3, <2>4, <2>5, <2>6, <2>7 DEF kill_conn
<1>9. ASSUME NEW t \in Thread, Fail(t) PROVE Slots'
  BY <1>0, <1>9, <1>k, FailStep
<1> QED
  BY <1>1, <1>3, <1>4, <1>5, <1>6, <1>7, <1>8, <1>9, Steps

\* t has the call, and has not answered it
Busy(t, q) == Adds(t, q) \/ (Answers(t, q) /\ pc[t] = "answer")

\* No call gets a result.
LEMMA OutcomeKept ==
  ASSUME NEW q \in Caller, Outcome(q), status'[q] = status[q], outcome'[q] = outcome[q],
         pc'[q] = "idle" <=> pc[q] = "idle", pc'[q] \in Early => pc[q] \in Early,
         pc'[q] \in Invoking => pc[q] \in Invoking,
         pc'[q] \in {"output", "deref", "wait"} => pc[q] \in {"output", "deref", "wait"} \cup Early,
         status[q] = "unsent" => /\ executed'[q] = executed[q]
                                 /\ \A c \in Conn : q \in requests'[c] => q \in requests[c],
         ids'[q].conn \in Conn => ids[q].conn \in Conn \/ outcome[q] = "none",
         \A t \in Thread : Busy(t, q)' => Busy(t, q) \/ outcome[q] = "none"
  PROVE  Outcome(q)'
<1>1. \A t \in Thread : (Adds(t, q) \/ (Answers(t, q) /\ pc[t] = "answer"))' =>
        Adds(t, q) \/ (Answers(t, q) /\ pc[t] = "answer") \/ outcome[q] = "none"
  BY DEF Busy
<1> HIDE DEF Adds, Answers
<1>2. /\ status'[q] = "unsent" <=> pc'[q] = "idle"
      /\ status'[q] = "unsent" => /\ outcome'[q] = "none" /\ executed'[q] = 0
                                  /\ \A c \in Conn : q \notin requests'[c]
      /\ status'[q] = "pending" => outcome'[q] = "none"
      /\ status'[q] = "answered" => outcome'[q] # "none"
      /\ status'[q] = "gone" => q \in Impatient
  BY DEF Outcome
<1>3. /\ pc'[q] \in Early \/ (q \in Oneway /\ pc'[q] \in Invoking) => status'[q] = "pending"
      /\ pc'[q] \in {"output", "deref", "wait"} => status'[q] \in {"pending", "answered"}
  BY DEF Outcome
<1>4. /\ ids'[q].conn \in Conn => outcome'[q] = "none"
      /\ \A t \in Thread : (Adds(t, q) \/ (Answers(t, q) /\ pc[t] = "answer"))' => outcome'[q] = "none"
  BY <1>1 DEF Outcome
<1> QED
  BY <1>2, <1>3, <1>4 DEF Outcome

\* A call gets its result from who has it.
LEMMA OutcomeAnswered ==
  ASSUME NEW q \in Own, Outcome(q), CallShape,
         NEW o \in {"reply", "TRANSIENT", "COMM_FAILURE", "TIMEOUT"}, answer_invoke(q, o),
         pc'[q] = "idle" <=> pc[q] = "idle", pc'[q] \notin Early,
         pc'[q] \in {"output", "deref", "wait"} => pc[q] \in {"output", "deref", "wait"} \cup Early,
         executed' = executed, requests' = requests,
         ids'[q].conn \notin Conn, \A t \in Thread : ~Busy(t, q)'
  PROVE  Outcome(q)'
<1>1. q \in Caller /\ q \notin Oneway
  BY Kinds
<1>2. \/ status[q] \in {"pending", "answered"} /\ status'[q] = "answered" /\ outcome'[q] # "none"
      \/ status[q] \notin {"pending", "answered"} /\ UNCHANGED <<status, outcome>>
  BY <1>1, AnswerShape
<1>3. CASE status[q] \notin {"pending", "answered"} /\ UNCHANGED <<status, outcome>>
  BY <1>1, <1>3 DEF Outcome, Busy
<1>4. CASE status[q] \in {"pending", "answered"} /\ status'[q] = "answered" /\ outcome'[q] # "none"
  BY <1>1, <1>4 DEF Outcome, Busy
<1> QED
  BY <1>2, <1>3, <1>4

\* A step gives a call one result at most.
LEMMA OutcomeInv ==
  ASSUME Inv, Next, NEW q \in Caller
  PROVE  Outcome(q)'
<1> USE DEF serverVars, callVars, connVars, cacheVars, threadVars
<1> DEFINE Calm(t) == \/ pc'[t] \notin Early \cup {"answer"}
                      \/ carries'[t] = carries[t] /\ pc[t] \in Early /\ pc'[t] \in Early
           Forward(t) == t \in Caller =>
              /\ pc'[t] = "idle" <=> pc[t] = "idle"
              /\ pc'[t] \in Early => pc[t] \in Early
              /\ pc'[t] \in Invoking => pc[t] \in Invoking
              /\ pc'[t] \in {"output", "deref", "wait"} => pc[t] \in {"output", "deref", "wait"} \cup Early
           Same == status'[q] = status[q] /\ outcome'[q] = outcome[q]
           Apart == executed' = executed /\ requests' = requests
<1>0. Shape /\ ThreadShape /\ IdShape /\ CallShape /\ RestShape /\ Outcome(q)
  BY Before
<1>q. q \in Thread /\ q \notin Conn
  BY Kinds
<1>n. NoRec.conn = NoConn /\ ~NoRec.active /\ NoConn \notin Conn
  BY Kinds DEF NoRec
<1>i. /\ Invoking = {"lookup", "connect", "cache", "ref", "add", "output", "deref"}
      /\ Early = {"lookup", "connect", "cache", "ref", "add"}
      /\ Killing = {"unlist", "uncache", "shutdown", "join", "terminated", "pending", "abort", "redo"}
  BY DEF Invoking, Early, Killing
<1>b. ASSUME NEW t \in Thread, Only(t), Calm(t) PROVE \A u \in Thread : Busy(u, q)' => Busy(u, q)
  <2>1. ASSUME NEW u \in Thread, u # t PROVE Busy(u, q)' => Busy(u, q)
    BY <1>b, <2>1 DEF Busy, Adds, Answers, Only
  <2>2. Busy(t, q)' => Busy(t, q)
    BY <1>b DEF Busy, Adds, Answers
  <2> QED
    BY <2>1, <2>2
<1>f. ASSUME NEW t \in Thread, Only(t), Forward(t)
      PROVE  /\ pc'[q] = "idle" <=> pc[q] = "idle"
             /\ pc'[q] \in Early => pc[q] \in Early
             /\ pc'[q] \in Invoking => pc[q] \in Invoking
             /\ pc'[q] \in {"output", "deref", "wait"} => pc[q] \in {"output", "deref", "wait"} \cup Early
  <2>1. CASE q = t
    BY <1>f, <2>1
  <2>2. CASE q # t
    BY <1>f, <1>q, <2>2 DEF Only
  <2> QED
    BY <2>1, <2>2
<1>k. ASSUME NEW t \in Thread, Only(t), Calm(t), Forward(t), Same, Apart, ids'[q].conn = ids[q].conn
      PROVE  Outcome(q)'
  <2>1. \A u \in Thread : Busy(u, q)' => Busy(u, q)
    BY <1>b, <1>k
  <2>2. /\ pc'[q] = "idle" <=> pc[q] = "idle"
        /\ pc'[q] \in Early => pc[q] \in Early
        /\ pc'[q] \in Invoking => pc[q] \in Invoking
        /\ pc'[q] \in {"output", "deref", "wait"} => pc[q] \in {"output", "deref", "wait"} \cup Early
    BY <1>f, <1>k
  <2> HIDE DEF Busy, Calm, Forward
  <2> QED
    BY <1>0, <1>k, <2>1, <2>2, OutcomeKept
<1>p. ASSUME NEW t \in Thread, Only(t), t \notin Caller, pc'[t] \notin Early \cup {"answer"}, Same, Apart,
             ids'[q].conn = ids[q].conn
      PROVE  Outcome(q)'
  BY <1>k, <1>p
\* the call another thread has
<1>a. ASSUME NEW t \in Thread, Only(t), NEW p \in Own, p = carries[t],
             NEW o \in {"reply", "TRANSIENT", "COMM_FAILURE", "TIMEOUT"}, answer_invoke(p, o), Apart,
             Has(t, p) \/ \A u \in Thread : ~Has(u, p),
             Has(t, p) => ids[p] = NoRec, ids' = ids \/ (p = q => ids'[p] = NoRec),
             p # q => ids'[q].conn = ids[q].conn, ids' = ids => Has(t, p),
             pc'[t] \notin Early \cup {"answer", "idle", "output", "deref"},
             t \in Caller => pc[t] \in Early /\ carries[t] = t, t \in Caller => pc'[t] = "wait"
      PROVE  Outcome(q)'
  <2>0. p \in Caller /\ p \in Thread
    BY Kinds
  <2>1. CASE p # q
    <3>1. Same
      BY <1>0, <1>a, <2>0, <2>1, AnswerShape
    <3>2. CASE t \in Caller
      <4>1. q # t
        BY <1>a, <2>1, <3>2
      <4>2. Calm(t)
        BY <1>a
      <4>3. \A u \in Thread : Busy(u, q)' => Busy(u, q)
        BY <1>a, <1>b, <4>2
      <4>4. pc'[q] = pc[q]
        BY <1>a, <1>q, <4>1 DEF Only
      <4> HIDE DEF Busy
      <4> QED
        BY <1>0, <1>a, <2>1, <3>1, <4>3, <4>4, OutcomeKept
    <3>3. CASE t \notin Caller
      BY <1>a, <1>p, <2>1, <3>1, <3>3
    <3> QED
      BY <3>2, <3>3
  <2>2. CASE p = q
    <3>1. Outcome(p) /\ Token(p)
      BY <2>0, Before
    <3>2. \A u \in Thread : u # t => ~Has(u, p)
      BY <1>a, <3>1 DEF Token
    <3>3. ASSUME NEW u \in Thread PROVE ~Busy(u, p)'
      <4>1. CASE u = t
        BY <1>a, <4>1 DEF Busy, Adds, Answers
      <4>2. CASE u # t
        BY <1>a, <3>2, <4>2 DEF Busy, Has, Adds, Answers, Only
      <4> QED
        BY <4>1, <4>2
    <3>4. p # t => pc[p] \notin Early /\ pc'[p] = pc[p]
      <4>1. carries[p] = p
        BY <1>0, <2>0 DEF ThreadShape, Place
      <4> QED
        BY <1>a, <2>0, <3>2, <4>1 DEF Has, Adds, Only
    <3>5. p = t => pc'[p] = "wait" /\ pc[p] \in Early
      BY <1>a, <2>0
    <3>6. ids'[p].conn \notin Conn
      BY <1>a, <1>n, <2>2
    <3>7. /\ pc'[p] = "idle" <=> pc[p] = "idle"
          /\ pc'[p] \notin Early
          /\ pc'[p] \in {"output", "deref", "wait"} => pc[p] \in {"output", "deref", "wait"} \cup Early
      BY <1>i, <3>4, <3>5
    <3> HIDE DEF Busy, Has
    <3> QED
      BY <1>0, <1>a, <2>2, <3>1, <3>3, <3>6, <3>7, OutcomeAnswered
  <2> QED
    BY <2>1, <2>2
<1> HIDE DEF Calm, Forward, Busy
<1>1. ASSUME NEW d \in Conn,
             Serve(d) \/ Crash(d) \/ \E k \in {"close", "error"} : ServerCloses(d, k)
      PROVE  Outcome(q)'
  <2>1. /\ UNCHANGED <<callVars, connVars, cacheVars, ids, orb, threadVars, kept, fault>>
        /\ \A c \in Conn : c # d => requests'[c] = requests[c]
    BY <1>0, <1>1, PeerStep
  <2>2. \A c \in Conn : q \in requests'[c] => q \in requests[c]
    <3>1. CASE Serve(d)
      BY <1>0, <2>1, <3>1, ServeStep
    <3>2. CASE Crash(d) \/ \E k \in {"close", "error"} : ServerCloses(d, k)
      BY <1>0, <2>1, <3>2, CutStep
    <3> QED
      BY <1>1, <3>1, <3>2
  <2>3. status[q] = "unsent" => executed'[q] = executed[q]
    <3>1. CASE Serve(d)
      BY <1>0, <3>1, ServeStep DEF Outcome
    <3>2. CASE Crash(d) \/ \E k \in {"close", "error"} : ServerCloses(d, k)
      BY <1>0, <3>2, CutStep
    <3> QED
      BY <1>1, <3>1, <3>2
  <2>4. \A u \in Thread : Busy(u, q)' => Busy(u, q)
    BY <2>1 DEF Busy, Adds, Answers
  <2> QED
    BY <1>0, <2>1, <2>2, <2>3, <2>4, OutcomeKept
<1>3. ASSUME NEW d \in Conn, Reader(d) PROVE Outcome(q)'
  <2>d. d \in Thread /\ d \notin Caller
    BY Kinds
  <2>0. Handling = {"pull", "delete", "answer", "giveback", "release"}
    BY DEF Handling
  <2>1. CASE Select(d) \/ LeaveLoop(d)
    <3>1. /\ Only(d) /\ pc'[d] \in {"reading", "done"} /\ Apart /\ Same /\ ids' = ids
      BY <1>0, <2>1, SelectStep
    <3> QED
      BY <1>i, <1>p, <2>d, <3>1
  <2>2. CASE Read(d)
    <3>1. /\ Only(d) /\ pc'[d] \in {"select", "pull", "closing"} /\ Apart /\ Same /\ ids' = ids
      BY <1>0, <2>2, ReadStep
    <3> QED
      BY <1>i, <1>p, <2>d, <3>1
  <2>3. CASE ReadEnd(d)
    <3>1. /\ Only(d) /\ pc'[d] = "select" /\ Apart /\ Same /\ ids' = ids
      BY <1>0, <2>3, ReadEndStep
    <3> QED
      BY <1>i, <1>p, <2>d, <3>1
  <2>4. CASE Pull(d)
    <3>1. /\ Only(d) /\ pc'[d] \in {"delete", "release"} /\ Apart /\ Same
          /\ \A p \in Caller : p # carries[d] => ids'[p] = ids[p]
      BY <1>0, <2>4, PullStep
    <3>2. \/ ids'[carries[d]] = [conn |-> ids[carries[d]].conn, active |-> FALSE]
          \/ ids' = ids
      BY <1>0, <2>4, PullStep
    <3>3. ids'[q].conn = ids[q].conn
      BY <3>1, <3>2
    <3> QED
      BY <1>i, <1>p, <2>d, <3>1, <3>3
  <2>5. CASE Delete(d)
    <3>1. PICK p \in Own : p = carries[d]
      BY <1>0, <2>5, DeleteStep
    <3>2. /\ Only(d) /\ Keeps(d) /\ pc[d] = "delete" /\ pc'[d] = "answer" /\ Apart /\ Same
          /\ ids'[p] = NoRec /\ \A r \in Caller : r # p => ids'[r] = ids[r]
      BY <1>0, <2>5, <3>1, DeleteStep
    <3>3. p \in Caller
      BY Kinds
    <3>4. p = q => outcome[q] = "none"
      <4>1. Deletes(d, p) /\ Token(p)
        BY <3>1, <3>2, <3>3, Before DEF Deletes
      <4>2. ids[p].conn = d
        BY <2>d, <4>1, TokenFacts
      <4> QED
        BY <1>0, <4>2 DEF Outcome
    <3>5. \A u \in Thread : Busy(u, q)' => Busy(u, q) \/ outcome[q] = "none"
      <4>1. ASSUME NEW u \in Thread, u # d PROVE Busy(u, q)' => Busy(u, q)
        BY <3>2, <4>1 DEF Busy, Adds, Answers, Only
      <4>2. Busy(d, q)' => p = q
        BY <1>i, <3>1, <3>2 DEF Busy, Adds, Answers, Keeps
      <4> QED
        BY <3>4, <4>1, <4>2
    <3>6. ids'[q].conn \in Conn => ids[q].conn \in Conn
      BY <1>n, <3>2
    <3>7. pc'[q] = pc[q]
      BY <1>q, <2>d, <3>2 DEF Only
    <3> QED
      BY <1>0, <3>2, <3>5, <3>6, <3>7, OutcomeKept
  <2>6. CASE Answer(d)
    <3>1. PICK p \in Own : p = carries[d]
      BY <1>0, <2>6, AnswerStep
    <3>2. /\ Only(d) /\ Keeps(d) /\ pc[d] = "answer" /\ pc'[d] = "giveback" /\ Apart /\ ids' = ids
          /\ answer_invoke(p, "reply")
      BY <1>0, <2>6, <3>1, AnswerStep
    <3>3. Has(d, p)
      BY <3>1, <3>2 DEF Has, Answers
    <3>4. ids[p] = NoRec
      BY <2>d, <3>3, Before, TokenFacts
    <3> HIDE DEF Has, answer_invoke
    <3> QED
      BY <1>a, <1>i, <2>d, <3>1, <3>2, <3>3, <3>4
  <2>7. CASE GiveBack(d)
    <3>1. /\ Only(d) /\ pc'[d] = "release" /\ Apart /\ Same /\ ids' = ids
      BY <1>0, <2>7, GiveBackStep
    <3> QED
      BY <1>i, <1>p, <2>d, <3>1
  <2>8. CASE Release(d) \/ Closing(d)
    <3>1. /\ Only(d) /\ pc'[d] \in {"reading", "unlist"} /\ Apart /\ Same /\ ids' = ids
      BY <1>0, <2>8, ReleaseStep
    <3> QED
      BY <1>i, <1>p, <2>d, <3>1
  <2> QED
    BY <1>3, <2>1, <2>2, <2>3, <2>4, <2>5, <2>6, <2>7, <2>8 DEF Reader
<1>4. ASSUME NEW p \in Caller, Begin(p) \/ CallStep(p) \/ TimeOut(p) \/ Cancel(p) PROVE Outcome(q)'
  <2>p. p \in Thread /\ p \notin Conn
    BY Kinds
  <2>g. pc[p] \in Cancelling => ids[p].conn \in Conn
    BY CancelRecord DEF Gone
  <2>0. ASSUME Only(p), pc'[p] \notin Early \cup {"answer"}, Apart, p # q, Same, ids'[q].conn = ids[q].conn
        PROVE  Outcome(q)'
    <3>1. Calm(p)
      BY <2>0 DEF Calm
    <3>2. \A u \in Thread : Busy(u, q)' => Busy(u, q)
      BY <1>b, <2>0, <2>p, <3>1
    <3>3. pc'[q] = pc[q]
      BY <1>q, <2>0 DEF Only
    <3> QED
      BY <1>0, <2>0, <3>2, <3>3, OutcomeKept
  <2>a. ASSUME p = q PROVE \A t \in Thread : ids[q] # NoRec => ~Has(t, q)
    BY <1>0, RecTypes, Before, TokenFacts
  <2>1. CASE Begin(p)
    <3>1. /\ Only(p) /\ Keeps(p) /\ pc[p] = "idle" /\ pc'[p] = "lookup" /\ Apart /\ ids' = ids /\ outcome' = outcome
          /\ status'[p] = "pending" /\ \A r \in Caller : r # p => status'[r] = status[r]
      BY <1>0, <2>1, BeginStep
    <3>2. \A u \in Thread : Busy(u, q)' => Busy(u, q) \/ u = p
      BY <3>1 DEF Busy, Adds, Answers, Only
    <3>3. CASE p = q
      <4>1. outcome[q] = "none"
        BY <1>0, <3>1, <3>3 DEF Outcome
      <4> QED
        BY <1>i, <3>1, <3>3, <4>1 DEF Outcome
    <3>4. CASE p # q
      <4>1. carries'[p] = p
        BY <1>0, <3>1, <2>p DEF Keeps, ThreadShape, Place
      <4>2. ~Busy(p, q)'
        BY <2>p, <3>4, <4>1 DEF Busy, Adds, Answers
      <4>3. pc'[q] = pc[q]
        BY <1>q, <3>1, <3>4 DEF Only
      <4> QED
        BY <1>0, <3>1, <3>2, <3>4, <4>2, <4>3, OutcomeKept
    <3> QED
      BY <3>3, <3>4
  <2>2. CASE Return(p)
    <3>1. /\ Only(p) /\ pc[p] = "wait" /\ pc'[p] = "done" /\ Apart /\ ids' = ids /\ outcome' = outcome
          /\ status'[p] = "returned" /\ \A r \in Caller : r # p => status'[r] = status[r]
      BY <1>0, <2>2, ReturnStep
    <3>2. CASE p = q
      <4>1. \A u \in Thread : Busy(u, q)' => Busy(u, q)
        BY <1>b, <1>i, <2>p, <3>1 DEF Calm
      <4> QED
        BY <1>0, <1>i, <3>1, <3>2, <4>1 DEF Outcome, Busy
    <3>3. CASE p # q
      BY <1>i, <2>0, <3>1, <3>3
    <3> QED
      BY <3>2, <3>3
  <2>3. CASE SendCancel(p)
    <3>1. ids[p].conn \in Conn
      BY <2>3, <2>g DEF SendCancel, At, Cancelling
    <3>2. /\ Only(p) /\ pc[p] = "sendcancel" /\ pc'[p] = "derefcancel" /\ Apart /\ Same /\ ids' = ids
      BY <1>0, <2>3, <3>1, SendCancelStep
    <3> QED
      BY <1>i, <1>k, <2>p, <3>2 DEF Calm, Forward
  <2>4. CASE DerefCancel(p)
    <3>1. ids[p].conn \in Conn
      BY <2>4, <2>g DEF DerefCancel, At, Cancelling
    <3>2. /\ Only(p) /\ pc[p] = "derefcancel" /\ pc'[p] = "delcancel" /\ Apart /\ Same /\ ids' = ids
      BY <1>0, <2>4, <3>1, DerefCancelStep
    <3> QED
      BY <1>i, <1>k, <2>p, <3>2 DEF Calm, Forward
  <2>5. CASE DelCancel(p)
    <3>1. /\ Only(p) /\ pc[p] = "delcancel" /\ pc'[p] = "done" /\ Apart /\ Same
          /\ ids'[p] = NoRec /\ \A r \in Caller : r # p => ids'[r] = ids[r]
      BY <1>0, <2>5, DelCancelStep
    <3>2. ids'[q].conn \in Conn => ids[q].conn \in Conn
      BY <1>n, <3>1
    <3>3. Calm(p) /\ Forward(p)
      BY <1>i, <3>1 DEF Calm, Forward
    <3>4. \A u \in Thread : Busy(u, q)' => Busy(u, q)
      BY <1>b, <2>p, <3>1, <3>3
    <3>5. /\ pc'[q] = "idle" <=> pc[q] = "idle"
          /\ pc'[q] \in Early => pc[q] \in Early
          /\ pc'[q] \in Invoking => pc[q] \in Invoking
          /\ pc'[q] \in {"output", "deref", "wait"} => pc[q] \in {"output", "deref", "wait"} \cup Early
      BY <1>f, <2>p, <3>1, <3>3
    <3> QED
      BY <1>0, <3>1, <3>2, <3>4, <3>5, OutcomeKept
  <2>6. CASE TimeOut(p)
    <3>1. /\ p \in Own /\ pc[p] = "wait" /\ ids[p].conn \in Conn /\ ids'[p] = NoRec
          /\ \A r \in Caller : r # p => ids'[r] = ids[r]
          /\ answer_invoke(p, "TIMEOUT") /\ Apart /\ UNCHANGED threadVars
      BY <1>0, <2>6, TimeOutStep
    <3>2. \A u \in Thread : Busy(u, q)' <=> Busy(u, q)
      BY <3>1 DEF Busy, Adds, Answers
    <3>3. CASE p = q
      <4>1. \A u \in Thread : ~Busy(u, q)
        BY <1>n, <2>a, <3>1, <3>3 DEF Busy, Has
      <4>2. ids'[q].conn \notin Conn
        BY <1>n, <3>1, <3>3
      <4> QED
        BY <1>0, <1>i, <3>1, <3>2, <3>3, <4>1, <4>2, OutcomeAnswered
    <3>4. CASE p # q
      <4>1. Same
        BY <1>0, <3>1, <3>4, AnswerShape
      <4> QED
        BY <1>0, <3>1, <3>2, <3>4, <4>1, OutcomeKept
    <3> QED
      BY <3>3, <3>4
  <2>7. CASE Cancel(p)
    <3>1. /\ Only(p) /\ pc[p] = "wait" /\ pc'[p] \in {"sendcancel", "done"} /\ Apart /\ p \in Impatient
          /\ outcome' = outcome /\ p \in Own
          /\ status'[p] = "gone" /\ \A r \in Caller : r # p => status'[r] = status[r]
          /\ \A r \in Caller : r # p => ids'[r] = ids[r]
      BY <1>0, <2>7, CancelStep
    <3>2. \/ ids'[p] = [conn |-> ids[p].conn, active |-> FALSE]
          \/ ids' = ids
      BY <1>0, <2>7, CancelStep
    <3>3. ids'[q].conn = ids[q].conn
      BY <3>1, <3>2
    <3>4. CASE p = q
      <4>1. \A u \in Thread : Busy(u, q)' => Busy(u, q)
        BY <1>b, <1>i, <2>p, <3>1 DEF Calm
      <4>2. q \notin Oneway
        BY <3>1, <3>4, Kinds
      <4> QED
        BY <1>0, <1>i, <3>1, <3>3, <3>4, <4>1, <4>2 DEF Outcome, Busy
    <3>5. CASE p # q
      BY <1>i, <2>0, <3>1, <3>3, <3>5
    <3> QED
      BY <3>4, <3>5
  <2> QED
    BY <1>4, <2>1, <2>2, <2>3, <2>4, <2>5, <2>6, <2>7 DEF CallStep
<1>5. ASSUME NEW o \in OrbWorker, Pool(o) PROVE Outcome(q)'
  <2>o. o \in Thread /\ o \notin Caller
    BY Kinds
  <2>1. CASE TakeClose(o)
    <3>1. Only(o) /\ pc'[o] = "unlist" /\ Apart /\ Same /\ ids' = ids
      BY <1>0, <2>1, TakeCloseStep
    <3> QED
      BY <1>i, <1>p, <2>o, <3>1
  <2>2. CASE TakeKill(o)
    <3>1. UNCHANGED threadVars /\ Apart /\ Same /\ ids' = ids
      BY <1>0, <2>2, TakeKillStep
    <3>2. \A u \in Thread : Busy(u, q)' <=> Busy(u, q)
      BY <3>1 DEF Busy, Adds, Answers
    <3> QED
      BY <1>0, <3>1, <3>2, OutcomeKept
  <2> QED
    BY <1>5, <2>1, <2>2 DEF Pool
<1>6. ASSUME Shutdown PROVE Outcome(q)'
  <2>1. Only(Main) /\ pc'[Main] \in {"done", "unlist"} /\ Apart /\ Same /\ ids' = ids
    BY <1>0, <1>6, ShutdownStep
  <2> QED
    BY <1>i, <1>p, <2>1, Kinds
<1>7. ASSUME NEW t \in Thread, invoke(t) PROVE Outcome(q)'
  <2>1. CASE Lookup(t)
    <3>1. /\ Only(t) /\ pc[t] = "lookup" /\ pc'[t] \in {"ref", "connect"} /\ carries'[t] = carries[t]
          /\ Same /\ Apart /\ ids' = ids
      BY <1>0, <2>1, LookupStep
    <3> QED
      BY <1>i, <1>k, <3>1 DEF Calm, Forward
  <2>2. CASE FindConn(t) \/ Cache(t)
    <3>1. /\ Only(t) /\ pc[t] \in {"connect", "cache"} /\ pc'[t] \in {"cache", "ref"} /\ carries'[t] = carries[t]
          /\ Same /\ Apart /\ ids' = ids
      BY <1>0, <2>2, FindStep
    <3> QED
      BY <1>i, <1>k, <3>1 DEF Calm, Forward
  <2>3. CASE NewConn(t)
    <3>1. PICK n \in Conn : n = conns'
      BY <1>0, <2>3, NewConnStep
    <3>2. /\ pc[t] = "connect" /\ pc'[t] = "cache" /\ pc[n] = "idle" /\ pc'[n] = "select"
          /\ \A u \in Thread : u # t /\ u # n => pc'[u] = pc[u]
          /\ Same /\ Apart /\ ids' = ids /\ carries' = carries
      BY <1>0, <2>3, <3>1, NewConnStep
    <3>3. \A u \in Thread : Busy(u, q)' => Busy(u, q)
      BY <1>i, <3>2 DEF Busy, Adds, Answers
    <3>4. pc'[q] = pc[q] \/ (pc[q] = "connect" /\ pc'[q] = "cache")
      BY <1>q, <3>1, <3>2
    <3> QED
      BY <1>0, <1>i, <3>2, <3>3, <3>4, OutcomeKept
  <2>4. CASE NoConnection(t)
    <3>1. /\ Only(t) /\ pc[t] = "connect" /\ carries'[t] = carries[t]
          /\ (t \in Conn => pc'[t] = "pending") /\ (t \in Own => pc'[t] = "wait")
          /\ Apart /\ ids' = ids
      BY <1>0, <2>4, NoConnectionStep
    <3>2. \/ /\ t \in Oneway /\ pc'[t] = "done" /\ status'[t] = "returned" /\ outcome' = outcome
             /\ \A r \in Caller : r # t => status'[r] = status[r]
          \/ carries[t] \in Own /\ t \notin Oneway /\ answer_invoke(carries[t], "COMM_FAILURE")
      BY <1>0, <2>4, NoConnectionStep
    <3>3. CASE /\ t \in Oneway /\ pc'[t] = "done" /\ status'[t] = "returned" /\ outcome' = outcome
               /\ \A r \in Caller : r # t => status'[r] = status[r]
      <4>1. \A u \in Thread : Busy(u, q)' => Busy(u, q)
        BY <1>b, <1>i, <3>1, <3>3 DEF Calm
      <4>2. CASE q = t
        BY <1>0, <1>i, <3>1, <3>3, <4>1, <4>2 DEF Outcome, Busy
      <4>3. CASE q # t
        <5>1. pc'[q] = pc[q]
          BY <1>q, <3>1, <4>3 DEF Only
        <5> QED
          BY <1>0, <3>1, <3>3, <4>1, <4>3, <5>1, OutcomeKept
      <4> QED
        BY <4>2, <4>3
    <3>4. CASE carries[t] \in Own /\ t \notin Oneway /\ answer_invoke(carries[t], "COMM_FAILURE")
      <4>1. PICK p \in Own : p = carries[t]
        BY <3>4
      <4>2. Has(t, p) /\ t \in Caller \cup Conn /\ (t \in Caller => carries[t] = t)
        BY <1>0, <1>i, <3>1, <4>1, Invokers DEF Has, Adds
      <4>3. ids[p] = NoRec
        BY <4>1, <4>2, Before, TokenFacts
      <4>4. (t \in Caller => pc'[t] = "wait") /\ pc'[t] \in {"wait", "pending"}
        BY <3>1, <3>4, <4>2 DEF Own
      <4> HIDE DEF Has, answer_invoke
      <4> QED
        BY <1>a, <1>i, <3>1, <3>4, <4>1, <4>2, <4>3, <4>4
    <3> QED
      BY <3>2, <3>3, <3>4
  <2>5. CASE Ref(t)
    <3>1. /\ Only(t) /\ Keeps(t) /\ pc[t] = "ref" /\ pc'[t] = "add" /\ Same /\ Apart /\ ids' = ids
      BY <1>0, <2>5, RefStep
    <3> QED
      BY <1>i, <1>k, <3>1 DEF Calm, Forward, Keeps
  <2>6. CASE AddInvoke(t)
    <3>1. /\ Only(t) /\ Keeps(t) /\ pc[t] = "add" /\ pc'[t] = "output" /\ Same /\ Apart
          /\ \/ ids' = ids
             \/ \A r \in Caller : r # carries[t] => ids'[r] = ids[r]
      BY <1>0, <2>6, AddStep
    <3>2. ids'[q].conn \in Conn => ids[q].conn \in Conn \/ outcome[q] = "none"
      <4>1. CASE carries[t] = q
        <5>1. Adds(t, q)
          BY <1>i, <3>1, <4>1 DEF Adds
        <5> QED
          BY <1>0, <5>1 DEF Outcome
      <4>2. CASE carries[t] # q
        BY <3>1, <4>2
      <4> QED
        BY <4>1, <4>2
    <3>3. Calm(t) /\ Forward(t)
      BY <1>i, <3>1 DEF Calm, Forward
    <3>4. \A u \in Thread : Busy(u, q)' => Busy(u, q)
      BY <1>b, <3>1, <3>3
    <3>5. /\ pc'[q] = "idle" <=> pc[q] = "idle"
          /\ pc'[q] \in Early => pc[q] \in Early
          /\ pc'[q] \in Invoking => pc[q] \in Invoking
          /\ pc'[q] \in {"output", "deref", "wait"} => pc[q] \in {"output", "deref", "wait"} \cup Early
      BY <1>f, <3>1, <3>3
    <3> QED
      BY <1>0, <3>1, <3>2, <3>4, <3>5, OutcomeKept
  <2>7. CASE Output(t)
    <3>1. /\ Only(t) /\ Keeps(t) /\ pc[t] = "output" /\ pc'[t] = "deref" /\ Same /\ executed' = executed
          /\ ids' = ids /\ on[t] \in Conn
          /\ \A c \in Conn : c # on[t] => requests'[c] = requests[c]
          /\ requests'[on[t]] \subseteq requests[on[t]] \cup {carries[t]}
      BY <1>0, <2>7, OutputStep
    <3>2. Calm(t) /\ Forward(t)
      BY <1>i, <3>1 DEF Calm, Forward
    <3>3. status[q] = "unsent" => carries[t] # q
      <4> SUFFICES ASSUME status[q] = "unsent", carries[t] = q PROVE FALSE
        OBVIOUS
      <4>1. pc[q] = "idle" /\ t # q
        BY <1>0, <3>1 DEF Outcome
      <4>2. q \in Own
        BY <1>0, <1>i, <3>1, <4>1, Invokers DEF Own
      <4> QED
        BY <4>1, <4>2, Before DEF Token
    <3>4. status[q] = "unsent" => \A c \in Conn : q \in requests'[c] => q \in requests[c]
      BY <3>1, <3>3
    <3>5. \A u \in Thread : Busy(u, q)' => Busy(u, q)
      BY <1>b, <3>1, <3>2
    <3>6. /\ pc'[q] = "idle" <=> pc[q] = "idle"
          /\ pc'[q] \in Early => pc[q] \in Early
          /\ pc'[q] \in Invoking => pc[q] \in Invoking
          /\ pc'[q] \in {"output", "deref", "wait"} => pc[q] \in {"output", "deref", "wait"} \cup Early
      BY <1>f, <3>1, <3>2
    <3> QED
      BY <1>0, <3>1, <3>4, <3>5, <3>6, OutcomeKept
  <2>8. CASE ActiveDeref(t)
    <3>1. /\ Only(t) /\ pc[t] = "deref" /\ carries'[t] = carries[t] /\ Apart /\ outcome' = outcome /\ ids' = ids
          /\ pc'[t] \in {"pending", "done", "wait"}
      BY <1>0, <2>8, ActiveDerefStep
    <3>2. \/ status' = status /\ (t \in Conn \/ pc'[t] = "wait")
          \/ /\ t \in Oneway /\ pc'[t] = "done" /\ status'[t] = "returned"
             /\ \A r \in Caller : r # t => status'[r] = status[r]
      BY <1>0, <2>8, ActiveDerefStep
    <3>3. Calm(t)
      BY <1>i, <3>1 DEF Calm
    <3>4. CASE status' = status
      <4>1. Forward(t)
        BY <1>i, <3>1 DEF Forward
      <4> QED
        BY <1>k, <3>1, <3>3, <3>4, <4>1
    <3>5. CASE /\ t \in Oneway /\ pc'[t] = "done" /\ status'[t] = "returned"
               /\ \A r \in Caller : r # t => status'[r] = status[r]
      <4>1. \A u \in Thread : Busy(u, q)' => Busy(u, q)
        BY <1>b, <3>1, <3>3
      <4>2. CASE q = t
        BY <1>0, <1>i, <3>1, <3>5, <4>1, <4>2 DEF Outcome, Busy
      <4>3. CASE q # t
        <5>1. pc'[q] = pc[q]
          BY <1>q, <3>1, <4>3 DEF Only
        <5> QED
          BY <1>0, <3>1, <3>5, <4>1, <4>3, <5>1, OutcomeKept
      <4> QED
        BY <4>2, <4>3
    <3> QED
      BY <3>2, <3>4, <3>5
  <2> QED
    BY <1>7, <2>1, <2>2, <2>3, <2>4, <2>5, <2>6, <2>7, <2>8 DEF invoke
<1>8. ASSUME NEW t \in Thread, kill_conn(t) PROVE Outcome(q)'
  <2>a. ASSUME pc[t] \in Killing PROVE t \notin Caller
    BY <1>0, <2>a, KillersOf
  <2>b. ASSUME Only(t), pc[t] \in Killing, pc'[t] \notin Early \cup {"answer"}, Same, Apart,
               ids'[q].conn = ids[q].conn
        PROVE  Outcome(q)'
    BY <1>p, <2>a, <2>b
  <2>1. CASE Unlist(t)
    <3>1. /\ Only(t) /\ pc[t] = "unlist" /\ pc'[t] \in {"uncache", "select", "done", "idle"}
          /\ Same /\ Apart /\ ids' = ids
      BY <1>0, <2>1, UnlistStep DEF Left
    <3> QED
      BY <1>i, <2>b, <3>1
  <2>2. CASE Uncache(t)
    <3>1. /\ Only(t) /\ pc[t] = "uncache" /\ pc'[t] = "shutdown" /\ Same /\ Apart /\ ids' = ids
      BY <1>0, <2>2, UncacheStep
    <3> QED
      BY <1>i, <2>b, <3>1
  <2>3. CASE ShutdownEffective(t) \/ TerminatedEffective(t)
    <3>1. /\ Only(t) /\ pc[t] \in {"shutdown", "terminated"} /\ pc'[t] \in {"join", "pending"}
          /\ Same /\ Apart /\ ids' = ids
      BY <1>0, <2>3, EffectiveStep
    <3> QED
      BY <1>i, <2>b, <3>1
  <2>4. CASE Join(t)
    <3>1. /\ Only(t) /\ pc[t] = "join" /\ pc'[t] = "terminated" /\ Same /\ Apart /\ ids' = ids
      BY <1>0, <2>4, JoinStep
    <3> QED
      BY <1>i, <2>b, <3>1
  <2>5. CASE NextPending(t)
    <3>1. /\ Only(t) /\ pc[t] = "pending" /\ pc'[t] \in {"redo", "abort"} /\ Same /\ Apart /\ ids' = ids
      BY <1>0, <2>5, NextPendingStep
    <3> QED
      BY <1>i, <2>b, <3>1
  <2>6. CASE Abort(t) \/ Redo(t)
    <3>1. PICK p \in Own : p = carries[t]
      BY <1>0, <2>6, DropStep
    <3>2. /\ Only(t) /\ Keeps(t) /\ pc[t] \in {"abort", "redo"} /\ Apart
          /\ ids[p] = [conn |-> ids[p].conn, active |-> TRUE] /\ ids[p].conn \in Conn
          /\ ids'[p] = NoRec /\ \A r \in Caller : r # p => ids'[r] = ids[r]
      BY <1>0, <2>6, <3>1, DropStep
    <3>3. \/ pc[t] = "abort" /\ pc'[t] = "pending" /\ answer_invoke(p, "TRANSIENT")
          \/ pc[t] = "redo" /\ t \in Conn /\ Same /\ pc'[t] \in {"lookup", "pending"}
      BY <1>0, <2>6, <3>1, DropStep
    <3>4. t \notin Caller
      BY <1>i, <2>a, <3>2
    <3>5. p \in Caller /\ Token(p) /\ ids[p] # NoRec
      BY <1>n, <3>2, Kinds, Before
    <3>6. \A u \in Thread : ~Has(u, p)
      BY <3>5, TokenFacts
    <3>7. CASE pc[t] = "abort" /\ pc'[t] = "pending" /\ answer_invoke(p, "TRANSIENT")
      <4>1. ids' # ids
        BY <3>2, <3>5
      <4> HIDE DEF Has, answer_invoke
      <4> QED
        BY <1>a, <1>i, <3>1, <3>2, <3>4, <3>6, <3>7, <4>1
    <3>8. CASE pc[t] = "redo" /\ t \in Conn /\ Same /\ pc'[t] \in {"lookup", "pending"}
      <4>1. pc'[q] = pc[q]
        BY <1>q, <3>2, <3>8 DEF Only
      <4>2. ids'[q].conn \in Conn => ids[q].conn \in Conn
        BY <1>n, <3>2
      <4>3. \A u \in Thread : Busy(u, q)' => Busy(u, q) \/ outcome[q] = "none"
        <5>1. \A u \in Thread : u # t => (Busy(u, q)' => Busy(u, q))
          BY <3>2 DEF Only, Busy, Adds, Answers
        <5>2. Busy(t, q)' => p = q
          BY <3>1, <3>2, <3>8 DEF Busy, Adds, Answers, Keeps
        <5>3. p = q => outcome[q] = "none"
          BY <1>0, <3>2 DEF Outcome
        <5> QED
          BY <5>1, <5>2, <5>3
      <4> QED
        BY <1>0, <3>2, <3>8, <4>1, <4>2, <4>3, OutcomeKept
    <3> QED
      BY <3>3, <3>7, <3>8
  <2>7. CASE KillEnd(t)
    <3>1. /\ Only(t) /\ pc[t] = "pending" /\ pc'[t] \in {"select", "done", "idle"} /\ Same /\ Apart /\ ids' = ids
      BY <1>0, <2>7, KillEndStep DEF Left
    <3> QED
      BY <1>i, <2>b, <3>1
  <2> QED
    BY <1>8, <2>1, <2>2, <2>3, <2>4, <2>5, <2>6, <2>7 DEF kill_conn
<1>9. ASSUME NEW t \in Thread, Fail(t) PROVE Outcome(q)'
  <2>1. UNCHANGED threadVars /\ Apart /\ Same /\ ids' = ids
    BY <1>0, <1>9, FailStep
  <2>2. \A u \in Thread : Busy(u, q)' <=> Busy(u, q)
    BY <2>1 DEF Busy, Adds, Answers
  <2> QED
    BY <1>0, <2>1, <2>2, OutcomeKept
<1> QED
  BY <1>1, <1>3, <1>4, <1>5, <1>6, <1>7, <1>8, <1>9, Steps

\* What is in a queue after it has changed.
LEMMA Mail ==
  ASSUME NEW M, NEW s \in Seq(M), NEW m
  PROVE  /\ s # <<>> /\ (\E i \in DOMAIN Tail(s) : Tail(s)[i] = m) => \E i \in DOMAIN s : s[i] = m
         /\ \A n \in M : (\E i \in DOMAIN Append(s, n) : Append(s, n)[i] = m) =>
                           n = m \/ \E i \in DOMAIN s : s[i] = m
         /\ \A n \in 0..Len(s) : (\E i \in DOMAIN SubSeq(s, 1, n) : SubSeq(s, 1, n)[i] = m) =>
                                   \E i \in DOMAIN s : s[i] = m
<1>0. DOMAIN s = 1..Len(s) /\ Len(s) \in Nat
  OBVIOUS
<1>1. ASSUME s # <<>>, NEW i \in DOMAIN Tail(s), Tail(s)[i] = m PROVE \E j \in DOMAIN s : s[j] = m
  <2>1. DOMAIN Tail(s) = 1..(Len(s) - 1) /\ Len(s) > 0 /\ Tail(s)[i] = s[i + 1]
    BY <1>1
  <2>2. i + 1 \in DOMAIN s
    BY <1>0, <1>1, <2>1
  <2> QED
    BY <1>1, <2>1, <2>2
<1>2. ASSUME NEW n \in M, NEW i \in DOMAIN Append(s, n), Append(s, n)[i] = m, n # m
      PROVE  \E j \in DOMAIN s : s[j] = m
  <2>1. /\ DOMAIN Append(s, n) = 1..(Len(s) + 1) /\ Append(s, n)[Len(s) + 1] = n
        /\ \A j \in 1..Len(s) : Append(s, n)[j] = s[j]
    OBVIOUS
  <2>2. i # Len(s) + 1
    BY <1>2, <2>1
  <2>3. i \in 1..Len(s)
    BY <1>0, <1>2, <2>1, <2>2
  <2> QED
    BY <1>0, <1>2, <2>1, <2>3
<1>3. ASSUME NEW n \in 0..Len(s), NEW i \in DOMAIN SubSeq(s, 1, n), SubSeq(s, 1, n)[i] = m
      PROVE  \E j \in DOMAIN s : s[j] = m
  <2>1. DOMAIN SubSeq(s, 1, n) = 1..n /\ \A j \in 1..n : SubSeq(s, 1, n)[j] = s[j]
    BY <1>0
  <2>2. i \in DOMAIN s
    BY <1>0, <1>3, <2>1
  <2> QED
    BY <1>3, <2>1, <2>2
<1> QED
  BY <1>1, <1>2, <1>3

\* the reader of c has the reply to the call
Handled(c, q) == pc[c] \in {"pull", "delete", "answer"} /\ carries[c] = q

\* The call is not sent, executed or pulled.
LEMMA OnceKept ==
  ASSUME NEW q \in Caller, Once(q), executed'[q] = executed[q],
         \A t \in Thread : Sends(t, q)' => /\ Sends(t, q)
                                           /\ pc[t] = "output" => pc'[t] = "output" /\ on'[t] = on[t],
         \A c \in Conn : q \in requests'[c] => q \in requests[c],
         \A c \in Conn : Replied(c, q)' => Replied(c, q),
         \A c \in Conn : Handled(c, q)' => Handled(c, q) \/ Replied(c, q),
         \A c \in Conn : Reads(c, q)' => Reads(c, q) \/ Replied(c, q),
         ids'[q].active => ids[q].active /\ ids'[q].conn = ids[q].conn
  PROVE  Once(q)'
<1>0. /\ \A c \in Conn : Handled(c, q) <=> pc[c] \in {"pull", "delete", "answer"} /\ carries[c] = q
      /\ \A c \in Conn : Handled(c, q)' <=> (pc[c] \in {"pull", "delete", "answer"} /\ carries[c] = q)'
  BY DEF Handled
<1> HIDE DEF Sends, Replied, Handled, Reads
<1>1. /\ executed'[q] \in {0, 1}
      /\ \A t, u \in Thread : Sends(t, q)' /\ Sends(u, q)' => t = u
      /\ \A t \in Thread : Sends(t, q)' => executed'[q] = 0 /\ \A c \in Conn : q \notin requests'[c]
      /\ \A c \in Conn : q \in requests'[c] =>
           executed'[q] = 0 /\ \A d \in Conn : q \in requests'[d] => d = c
  BY DEF Once
<1>2. ids'[q].active =>
        /\ \A t \in Thread : Sends(t, q)' => pc'[t] = "output" /\ on'[t] = ids'[q].conn
        /\ \A c \in Conn : q \in requests'[c] \/ Replied(c, q)' \/ Reads(c, q)' => c = ids'[q].conn
  BY DEF Once
<1>3. \A c \in Conn : Replied(c, q)' \/ (pc[c] \in {"pull", "delete", "answer"} /\ carries[c] = q)' =>
        executed'[q] = 1
  BY <1>0 DEF Once
<1> QED
  BY <1>1, <1>2, <1>3 DEF Once

\* Nobody sends the call and no server has it.
LEMMA OnceFresh ==
  ASSUME NEW q \in Caller, Once(q), executed[q] = 0, executed'[q] = executed[q],
         NEW t \in Thread, \A u \in Thread : Sends(u, q)' => u = t,
         \A c \in Conn : q \notin requests'[c],
         \A c \in Conn : Replied(c, q)' => Replied(c, q),
         \A c \in Conn : Handled(c, q)' => Handled(c, q),
         ids'[q].active => (Sends(t, q)' => pc'[t] = "output" /\ on'[t] = ids'[q].conn)
  PROVE  Once(q)'
<1>0. /\ \A c \in Conn : Handled(c, q) <=> pc[c] \in {"pull", "delete", "answer"} /\ carries[c] = q
      /\ \A c \in Conn : Handled(c, q)' <=> (pc[c] \in {"pull", "delete", "answer"} /\ carries[c] = q)'
      /\ \A c \in Conn : Reads(c, q)' => Handled(c, q)'
  BY DEF Handled, Reads
<1> HIDE DEF Sends, Replied, Handled, Reads
<1>1. \A c \in Conn : ~Replied(c, q)' /\ ~Handled(c, q)' /\ ~Reads(c, q)'
  BY <1>0 DEF Once
<1> QED
  BY <1>0, <1>1 DEF Once

\* A step keeps a call on its way to one server, and it is executed once at most.
LEMMA OnceInv ==
  ASSUME Inv, Next, NEW q \in Caller
  PROVE  Once(q)'
<1> USE DEF serverVars, callVars, connVars, cacheVars, threadVars
<1> DEFINE Sending1 == Early \cup {"output"}
           Has1 == {"pull", "delete", "answer"}
           Calm(t) == pc'[t] \in Sending1 => /\ carries'[t] = carries[t] /\ pc[t] \in Sending1
                                             /\ pc[t] = "output" => pc'[t] = "output" /\ on'[t] = on[t]
           Easy(t) == pc'[t] \in Has1 => /\ carries'[t] = carries[t] /\ pc[t] \in Has1
                                         /\ pc'[t] = "pull" => pc[t] = "pull"
           Server == executed' = executed /\ requests' = requests /\ inbox' = inbox
           Recs == ids'[q].active => ids[q].active /\ ids'[q].conn = ids[q].conn
<1>0. Shape /\ ThreadShape /\ ServerShape /\ IdShape /\ CallShape /\ RestShape /\ Outcome(q) /\ Once(q)
  BY Before
<1>q. q \in Thread /\ q \notin Conn
  BY Kinds
<1>n. NoRec.conn = NoConn /\ ~NoRec.active /\ NoConn \notin Conn
  BY Kinds DEF NoRec
<1>i. /\ Invoking = {"lookup", "connect", "cache", "ref", "add", "output", "deref"}
      /\ Early = {"lookup", "connect", "cache", "ref", "add"}
      /\ Killing = {"unlist", "uncache", "shutdown", "join", "terminated", "pending", "abort", "redo"}
      /\ Conn \subseteq Thread
  BY Kinds DEF Invoking, Early, Killing
<1>s. ASSUME NEW t \in Thread, Only(t), Calm(t)
      PROVE  \A u \in Thread : Sends(u, q)' => /\ Sends(u, q)
                                               /\ pc[u] = "output" => pc'[u] = "output" /\ on'[u] = on[u]
  <2>1. ASSUME NEW u \in Thread, u # t, Sends(u, q)'
        PROVE  Sends(u, q) /\ (pc[u] = "output" => pc'[u] = "output" /\ on'[u] = on[u])
    BY <1>s, <2>1 DEF Sends, Only
  <2>2. ASSUME Sends(t, q)'
        PROVE  Sends(t, q) /\ (pc[t] = "output" => pc'[t] = "output" /\ on'[t] = on[t])
    BY <1>s, <2>2 DEF Sends
  <2> QED
    BY <2>1, <2>2
<1>h. ASSUME NEW t \in Thread, Only(t), Easy(t)
      PROVE  \A c \in Conn : (Handled(c, q)' => Handled(c, q)) /\ (Reads(c, q)' => Reads(c, q))
  <2>1. ASSUME NEW c \in Conn, c # t PROVE (Handled(c, q)' <=> Handled(c, q)) /\ (Reads(c, q)' <=> Reads(c, q))
    BY <1>h, <1>i, <2>1 DEF Handled, Reads, Only
  <2>2. (Handled(t, q)' => Handled(t, q)) /\ (Reads(t, q)' => Reads(t, q))
    BY <1>h DEF Handled, Reads
  <2> QED
    BY <2>1, <2>2
<1>m. inbox' = inbox => \A c \in Conn : Replied(c, q)' <=> Replied(c, q)
  BY DEF Replied
<1>k. ASSUME NEW t \in Thread, Only(t), Calm(t), Easy(t), Server, Recs
      PROVE  Once(q)'
  <2>1. \A u \in Thread : Sends(u, q)' => /\ Sends(u, q)
                                          /\ pc[u] = "output" => pc'[u] = "output" /\ on'[u] = on[u]
    BY <1>k, <1>s
  <2>2. \A c \in Conn : (Handled(c, q)' => Handled(c, q)) /\ (Reads(c, q)' => Reads(c, q))
    BY <1>h, <1>k
  <2> HIDE DEF Sends, Replied, Handled, Reads, Calm, Easy
  <2> QED
    BY <1>0, <1>k, <1>m, <2>1, <2>2, OnceKept
<1>p. ASSUME NEW t \in Thread, Only(t), pc'[t] \notin Sending1 \cup Has1, Server, Recs
      PROVE  Once(q)'
  BY <1>k, <1>p
<1> HIDE DEF Sends, Replied, Handled, Reads
<1>1. ASSUME NEW d \in Conn,
             Serve(d) \/ Crash(d) \/ \E k \in {"close", "error"} : ServerCloses(d, k)
      PROVE  Once(q)'
  <2>1. /\ UNCHANGED <<callVars, connVars, cacheVars, ids, orb, threadVars, kept, fault>>
        /\ \A c \in Conn : c # d => requests'[c] = requests[c] /\ inbox'[c] = inbox[c]
    BY <1>0, <1>1, PeerStep
  <2>2. \A u \in Thread : Sends(u, q)' <=> Sends(u, q)
    BY <2>1 DEF Sends
  <2>3. \A c \in Conn : (Handled(c, q)' <=> Handled(c, q)) /\ (Reads(c, q)' <=> Reads(c, q))
    BY <2>1 DEF Handled, Reads
  <2>4. \A c \in Conn : c # d => (Replied(c, q)' <=> Replied(c, q))
    BY <2>1 DEF Replied
  <2>i. inbox[d] \in Seq(BackMsg)
    BY <1>0 DEF ServerShape
  <2>5. CASE Crash(d) \/ \E k \in {"close", "error"} : ServerCloses(d, k)
    <3>1. /\ requests'[d] = {} /\ executed' = executed
          /\ \/ \E n \in 0..Len(inbox[d]) : inbox'[d] = SubSeq(inbox[d], 1, n)
             \/ \E k \in {"close", "error"} : inbox'[d] = Append(inbox[d], [kind |-> k, call |-> NoCall])
      BY <1>0, <2>5, CutStep
    <3>2. Replied(d, q)' => Replied(d, q)
      <4>1. ASSUME NEW n \in 0..Len(inbox[d]), inbox'[d] = SubSeq(inbox[d], 1, n)
            PROVE  Replied(d, q)' => Replied(d, q)
        BY <2>i, <4>1, Mail DEF Replied
      <4>2. ASSUME NEW k \in {"close", "error"}, inbox'[d] = Append(inbox[d], [kind |-> k, call |-> NoCall])
            PROVE  Replied(d, q)' => Replied(d, q)
        <5>1. [kind |-> k, call |-> NoCall] \in BackMsg
          BY DEF BackMsg
        <5>2. [kind |-> k, call |-> NoCall] # [kind |-> "reply", call |-> q]
          <6>1. [kind |-> k, call |-> NoCall].kind # "reply"
            OBVIOUS
          <6> QED
            BY <6>1
        <5> QED
          BY <2>i, <4>2, <5>1, <5>2, Mail DEF Replied
      <4> QED
        BY <3>1, <4>1, <4>2
    <3>3. \A c \in Conn : q \in requests'[c] => q \in requests[c]
      BY <2>1, <3>1
    <3> QED
      BY <1>0, <2>1, <2>2, <2>3, <2>4, <3>1, <3>2, <3>3, OnceKept
  <2>6. CASE Serve(d)
    <3>1. PICK p \in requests[d] :
            /\ p \in Caller /\ requests'[d] = requests[d] \ {p}
            /\ executed'[p] = executed[p] + 1
            /\ \A r \in Caller : r # p => executed'[r] = executed[r]
            /\ IF p \in Oneway \/ ~Transport(d) THEN inbox'[d] = inbox[d]
               ELSE inbox'[d] = Append(inbox[d], [kind |-> "reply", call |-> p])
      BY <1>0, <2>6, ServeStep
    <3>2. Replied(d, q)' => p = q \/ Replied(d, q)
      <4>1. CASE inbox'[d] = inbox[d]
        BY <4>1 DEF Replied
      <4>2. CASE p \notin Oneway /\ inbox'[d] = Append(inbox[d], [kind |-> "reply", call |-> p])
        <5>1. [kind |-> "reply", call |-> p] \in BackMsg
          BY <3>1, <4>2 DEF BackMsg
        <5>2. [kind |-> "reply", call |-> p] = [kind |-> "reply", call |-> q] => p = q
          <6>1. [kind |-> "reply", call |-> p].call = p /\ [kind |-> "reply", call |-> q].call = q
            OBVIOUS
          <6> QED
            BY <6>1
        <5> QED
          BY <2>i, <4>2, <5>1, <5>2, Mail DEF Replied
      <4> QED
        BY <3>1, <4>1, <4>2
    <3>3. CASE p # q
      <4>1. \A c \in Conn : q \in requests'[c] => q \in requests[c]
        BY <2>1, <3>1
      <4> QED
        BY <1>0, <2>1, <2>2, <2>3, <2>4, <3>1, <3>2, <3>3, <4>1, OnceKept
    <3>4. CASE p = q
      <4>1. executed[q] = 0 /\ \A c \in Conn : q \in requests[c] => c = d
        BY <1>0, <3>1, <3>4 DEF Once
      <4>2. \A u \in Thread : ~Sends(u, q)'
        BY <1>0, <2>2, <3>1, <3>4 DEF Once
      <4>3. \A c \in Conn : ~Handled(c, q) /\ ~Replied(c, q)
        BY <1>0, <4>1 DEF Once, Handled
      <4>4. \A c \in Conn : Reads(c, q) => Handled(c, q)
        BY DEF Reads, Handled
      <4>5. \A c \in Conn : q \notin requests'[c]
        BY <2>1, <3>1, <3>4, <4>1
      <4>6. executed'[q] = 1
        BY <3>1, <3>4, <4>1
      <4>7. \A c \in Conn : Replied(c, q)' => c = d
        BY <2>4, <4>3
      <4>8. ids'[q].active => ids'[q].conn = d
        BY <1>0, <2>1, <3>1, <3>4 DEF Once
      <4>9. \A c \in Conn : ~Reads(c, q)'
        BY <2>3, <4>3, <4>4
      <4> QED
        BY <4>2, <4>5, <4>6, <4>7, <4>8, <4>9 DEF Once
    <3> QED
      BY <3>3, <3>4
  <2> QED
    BY <1>1, <2>5, <2>6
<1>3. ASSUME NEW d \in Conn, Reader(d) PROVE Once(q)'
  <2>d. d \in Thread
    BY Kinds
  <2>1. CASE Select(d) \/ LeaveLoop(d)
    <3>1. /\ Only(d) /\ pc'[d] \in {"reading", "done"} /\ Server /\ ids' = ids
      BY <1>0, <2>1, SelectStep
    <3> QED
      BY <1>i, <1>p, <2>d, <3>1
  <2>2. CASE Read(d)
    <3>1. /\ Only(d) /\ pc[d] = "reading" /\ ids' = ids /\ executed' = executed /\ requests' = requests
          /\ inbox[d] # <<>> /\ inbox[d] \in Seq(BackMsg) /\ inbox'[d] = Tail(inbox[d])
          /\ \A c \in Conn : c # d => inbox'[c] = inbox[c]
          /\ \/ pc'[d] = "select"
             \/ \E m \in BackMsg : /\ m = Head(inbox[d]) /\ carries'[d] = m.call
                                   /\ pc'[d] = (IF m.kind = "reply" THEN "pull" ELSE "closing")
      BY <1>0, <2>2, ReadStep
    <3>2. Calm(d)
      BY <1>i, <3>1
    <3>3. \A u \in Thread : Sends(u, q)' => /\ Sends(u, q)
                                            /\ pc[u] = "output" => pc'[u] = "output" /\ on'[u] = on[u]
      BY <1>s, <2>d, <3>1, <3>2
    <3>4. \A c \in Conn : Replied(c, q)' => Replied(c, q)
      <4>1. Replied(d, q)' => Replied(d, q)
        BY <3>1, Mail DEF Replied
      <4> QED
        BY <3>1, <4>1 DEF Replied
    <3>5. Handled(d, q)' => Replied(d, q)
      <4> SUFFICES ASSUME Handled(d, q)' PROVE Replied(d, q)
        OBVIOUS
      <4>1. PICK m \in BackMsg : m = Head(inbox[d]) /\ m.kind = "reply" /\ m.call = q
        BY <3>1 DEF Handled
      <4>2. m = [kind |-> "reply", call |-> q]
        BY <4>1 DEF BackMsg
      <4>3. 1 \in DOMAIN inbox[d] /\ inbox[d][1] = Head(inbox[d])
        BY <3>1
      <4> QED
        BY <4>1, <4>2, <4>3 DEF Replied
    <3>6. \A c \in Conn : c # d => (Handled(c, q)' <=> Handled(c, q)) /\ (Reads(c, q)' <=> Reads(c, q))
      BY <1>i, <3>1 DEF Handled, Reads, Only
    <3>7. Reads(d, q)' => Handled(d, q)'
      BY DEF Reads, Handled
    <3> HIDE DEF Calm
    <3> QED
      BY <1>0, <3>1, <3>3, <3>4, <3>5, <3>6, <3>7, OnceKept
  <2>3. CASE ReadEnd(d)
    <3>1. /\ Only(d) /\ pc'[d] = "select" /\ Server /\ ids' = ids
      BY <1>0, <2>3, ReadEndStep
    <3> QED
      BY <1>i, <1>p, <2>d, <3>1
  <2>4. CASE Pull(d)
    <3>1. /\ Only(d) /\ Keeps(d) /\ pc[d] = "pull" /\ pc'[d] \in {"delete", "release"} /\ Server
          /\ \A p \in Caller : p # carries[d] => ids'[p] = ids[p]
      BY <1>0, <2>4, PullStep
    <3>2. \/ ids'[carries[d]] = [conn |-> ids[carries[d]].conn, active |-> FALSE]
          \/ ids' = ids
      BY <1>0, <2>4, PullStep
    <3>3. Recs
      BY <3>1, <3>2
    <3>4. Calm(d) /\ Easy(d)
      BY <1>i, <3>1 DEF Keeps
    <3> QED
      BY <1>k, <2>d, <3>1, <3>3, <3>4
  <2>5. CASE Delete(d)
    <3>1. /\ Only(d) /\ Keeps(d) /\ pc[d] = "delete" /\ pc'[d] = "answer" /\ Server
          /\ ids'[carries[d]] = NoRec /\ \A r \in Caller : r # carries[d] => ids'[r] = ids[r]
      BY <1>0, <2>5, DeleteStep
    <3>3. Recs
      BY <1>n, <3>1
    <3>4. Calm(d) /\ Easy(d)
      BY <1>i, <3>1 DEF Keeps
    <3> QED
      BY <1>k, <2>d, <3>1, <3>3, <3>4
  <2>6. CASE Answer(d)
    <3>1. /\ Only(d) /\ pc'[d] = "giveback" /\ Server /\ ids' = ids
      BY <1>0, <2>6, AnswerStep
    <3> QED
      BY <1>i, <1>p, <2>d, <3>1
  <2>7. CASE GiveBack(d)
    <3>1. /\ Only(d) /\ pc'[d] = "release" /\ Server /\ ids' = ids
      BY <1>0, <2>7, GiveBackStep
    <3> QED
      BY <1>i, <1>p, <2>d, <3>1
  <2>8. CASE Release(d) \/ Closing(d)
    <3>1. /\ Only(d) /\ pc'[d] \in {"reading", "unlist"} /\ Server /\ ids' = ids
      BY <1>0, <2>8, ReleaseStep
    <3> QED
      BY <1>i, <1>p, <2>d, <3>1
  <2> QED
    BY <1>3, <2>1, <2>2, <2>3, <2>4, <2>5, <2>6, <2>7, <2>8 DEF Reader
<1>4. ASSUME NEW p \in Caller, Begin(p) \/ CallStep(p) \/ TimeOut(p) \/ Cancel(p) PROVE Once(q)'
  <2>p. p \in Thread
    BY Kinds
  <2>g. pc[p] \in Cancelling => ids[p].conn \in Conn
    BY CancelRecord DEF Gone
  <2>1. CASE Begin(p)
    <3>1. /\ Only(p) /\ Keeps(p) /\ pc[p] = "idle" /\ pc'[p] = "lookup" /\ Server /\ ids' = ids
      BY <1>0, <2>1, BeginStep
    <3>2. \A c \in Conn : (Handled(c, q)' <=> Handled(c, q)) /\ (Reads(c, q)' <=> Reads(c, q))
      <4>1. \A c \in Conn : c # p
        BY Kinds
      <4> QED
        BY <1>i, <3>1, <4>1 DEF Handled, Reads, Only
    <3>3. CASE p = q
      <4>1. executed[q] = 0 /\ \A c \in Conn : q \notin requests[c]
        BY <1>0, <3>1, <3>3 DEF Outcome
      <4>2. ASSUME NEW u \in Thread, u # q PROVE ~Sends(u, q)'
        <5>1. carries[u] # q \/ pc[u] \notin Sending1
          <6>1. CASE q \in Own
            BY <3>1, <3>3, <4>2, <6>1, Before DEF Token
          <6>2. CASE q \notin Own
            BY <1>0, <1>i, <4>2, <6>2, Invokers
          <6> QED
            BY <6>1, <6>2
        <5> QED
          BY <3>1, <3>3, <4>2, <5>1 DEF Sends, Only
      <4>3. ~ids[q].active
        <5>1. CASE q \in Own
          BY <1>n, <3>1, <3>3, <5>1, Before DEF Token
        <5>2. CASE q \notin Own
          BY <1>0, <1>n, <5>2, RecTypes
        <5> QED
          BY <5>1, <5>2
      <4> QED
        BY <1>0, <1>m, <1>q, <3>1, <3>2, <4>1, <4>2, <4>3, OnceFresh
    <3>4. CASE p # q
      <4>1. \A u \in Thread : u # p /\ Sends(u, q)' =>
                /\ Sends(u, q)
                /\ pc[u] = "output" => pc'[u] = "output" /\ on'[u] = on[u]
        BY <3>1 DEF Sends, Only
      <4>2. ~Sends(p, q)'
        BY <1>0, <2>p, <3>1, <3>4 DEF Sends, Keeps, ThreadShape, Place
      <4> QED
        BY <1>0, <1>m, <3>1, <3>2, <4>1, <4>2, OnceKept
    <3> QED
      BY <3>3, <3>4
  <2>2. CASE Return(p)
    <3>1. /\ Only(p) /\ pc'[p] = "done" /\ Server /\ ids' = ids
      BY <1>0, <2>2, ReturnStep
    <3> QED
      BY <1>i, <1>p, <2>p, <3>1
  <2>3. CASE SendCancel(p)
    <3>1. ids[p].conn \in Conn
      BY <2>3, <2>g DEF SendCancel, At, Cancelling
    <3>2. /\ Only(p) /\ pc'[p] = "derefcancel" /\ Server /\ ids' = ids
      BY <1>0, <2>3, <3>1, SendCancelStep
    <3> QED
      BY <1>i, <1>p, <2>p, <3>2
  <2>4. CASE DerefCancel(p)
    <3>1. ids[p].conn \in Conn
      BY <2>4, <2>g DEF DerefCancel, At, Cancelling
    <3>2. /\ Only(p) /\ pc'[p] = "delcancel" /\ Server /\ ids' = ids
      BY <1>0, <2>4, <3>1, DerefCancelStep
    <3> QED
      BY <1>i, <1>p, <2>p, <3>2
  <2>5. CASE DelCancel(p)
    <3>1. /\ Only(p) /\ pc'[p] = "done" /\ Server
          /\ ids'[p] = NoRec /\ \A r \in Caller : r # p => ids'[r] = ids[r]
      BY <1>0, <2>5, DelCancelStep
    <3>2. Recs
      BY <1>n, <3>1
    <3> QED
      BY <1>i, <1>p, <2>p, <3>1, <3>2
  <2>6. CASE TimeOut(p)
    <3>1. /\ pc[p] = "wait" /\ ids'[p] = NoRec /\ \A r \in Caller : r # p => ids'[r] = ids[r]
          /\ Server /\ UNCHANGED threadVars
      BY <1>0, <2>6, TimeOutStep
    <3>2. Recs
      BY <1>n, <3>1
    <3>3. Only(p) /\ pc'[p] = "wait"
      BY <3>1 DEF Only
    <3> QED
      BY <1>i, <1>p, <2>p, <3>1, <3>2, <3>3
  <2>7. CASE Cancel(p)
    <3>1. /\ Only(p) /\ pc'[p] \in {"sendcancel", "done"} /\ Server
          /\ \A r \in Caller : r # p => ids'[r] = ids[r]
      BY <1>0, <2>7, CancelStep
    <3>2. \/ ids'[p] = [conn |-> ids[p].conn, active |-> FALSE]
          \/ ids' = ids
      BY <1>0, <2>7, CancelStep
    <3>3. Recs
      BY <3>1, <3>2
    <3> QED
      BY <1>i, <1>p, <2>p, <3>1, <3>3
  <2> QED
    BY <1>4, <2>1, <2>2, <2>3, <2>4, <2>5, <2>6, <2>7 DEF CallStep
<1>5. ASSUME NEW o \in OrbWorker, Pool(o) PROVE Once(q)'
  <2>o. o \in Thread /\ o \notin Conn
    BY Kinds
  <2>1. CASE TakeClose(o)
    <3>1. Only(o) /\ pc'[o] = "unlist" /\ Server /\ ids' = ids
      BY <1>0, <2>1, TakeCloseStep
    <3> QED
      BY <1>i, <1>p, <2>o, <3>1
  <2>2. CASE TakeKill(o)
    <3>1. UNCHANGED threadVars /\ Server /\ ids' = ids /\ Shape'
      BY <1>0, <2>2, TakeKillStep
    <3>2. \A u \in Thread : Sends(u, q)' <=> Sends(u, q)
      BY <3>1 DEF Sends
    <3>3. \A c \in Conn : (Handled(c, q)' <=> Handled(c, q)) /\ (Reads(c, q)' <=> Reads(c, q))
      BY <3>1 DEF Handled, Reads
    <3> QED
      BY <1>0, <1>m, <3>1, <3>2, <3>3, OnceKept
  <2> QED
    BY <1>5, <2>1, <2>2 DEF Pool
<1>6. ASSUME Shutdown PROVE Once(q)'
  <2>1. Only(Main) /\ pc'[Main] \in {"done", "unlist"} /\ Server /\ ids' = ids
    BY <1>0, <1>6, ShutdownStep
  <2> QED
    BY <1>i, <1>p, <2>1, Kinds
<1>7. ASSUME NEW t \in Thread, invoke(t) PROVE Once(q)'
  <2>a. ASSUME Only(t), pc[t] \in Early, pc'[t] \in Sending1, carries'[t] = carries[t], Server, ids' = ids
        PROVE  Once(q)'
    <3>1. Calm(t) /\ Easy(t)
      BY <1>i, <2>a
    <3> HIDE DEF Calm, Easy
    <3> QED
      BY <1>k, <2>a, <3>1
  <2>1. CASE Lookup(t)
    <3>1. /\ Only(t) /\ pc[t] = "lookup" /\ pc'[t] \in {"ref", "connect"} /\ carries'[t] = carries[t]
          /\ Server /\ ids' = ids
      BY <1>0, <2>1, LookupStep
    <3> QED
      BY <1>i, <2>a, <3>1
  <2>2. CASE FindConn(t) \/ Cache(t)
    <3>1. /\ Only(t) /\ pc[t] \in {"connect", "cache"} /\ pc'[t] \in {"cache", "ref"} /\ carries'[t] = carries[t]
          /\ Server /\ ids' = ids
      BY <1>0, <2>2, FindStep
    <3> QED
      BY <1>i, <2>a, <3>1
  <2>3. CASE NewConn(t)
    <3>1. PICK n \in Conn : n = conns'
      BY <1>0, <2>3, NewConnStep
    <3>2. /\ pc[t] = "connect" /\ pc'[t] = "cache" /\ pc[n] = "idle" /\ pc'[n] = "select"
          /\ \A u \in Thread : u # t /\ u # n => pc'[u] = pc[u]
          /\ \A u \in Thread : u # t => on'[u] = on[u]
          /\ Server /\ ids' = ids /\ carries' = carries
      BY <1>0, <2>3, <3>1, NewConnStep
    <3>3. \A u \in Thread : Sends(u, q)' => /\ Sends(u, q)
                                            /\ pc[u] = "output" => pc'[u] = "output" /\ on'[u] = on[u]
      BY <1>i, <3>2 DEF Sends
    <3>4. \A c \in Conn : (Handled(c, q)' => Handled(c, q)) /\ (Reads(c, q)' => Reads(c, q))
      BY <1>i, <3>2 DEF Handled, Reads
    <3> QED
      BY <1>0, <1>m, <3>2, <3>3, <3>4, OnceKept
  <2>4. CASE NoConnection(t)
    <3>1. /\ Only(t) /\ pc[t] = "connect" /\ carries'[t] = carries[t]
          /\ (t \in Conn => pc'[t] = "pending") /\ (t \in Own => pc'[t] = "wait")
          /\ (t \in Oneway => pc'[t] = "done") /\ Server /\ ids' = ids
      BY <1>0, <2>4, NoConnectionStep, Kinds
    <3>2. t \in Conn \cup Own \cup Oneway
      BY <1>0, <1>i, <3>1, Invokers DEF Own
    <3> QED
      BY <1>i, <1>p, <3>1, <3>2
  <2>5. CASE Ref(t)
    <3>1. /\ Only(t) /\ Keeps(t) /\ pc[t] = "ref" /\ pc'[t] = "add" /\ Server /\ ids' = ids
      BY <1>0, <2>5, RefStep
    <3> QED
      BY <1>i, <2>a, <3>1 DEF Keeps
  <2>6. CASE AddInvoke(t)
    <3>1. /\ Only(t) /\ Keeps(t) /\ pc[t] = "add" /\ pc'[t] = "output" /\ Server
          /\ \/ ids' = ids
             \/ /\ carries[t] \in Own /\ ids'[carries[t]] = [conn |-> on[t], active |-> TRUE]
                /\ \A r \in Caller : r # carries[t] => ids'[r] = ids[r]
      BY <1>0, <2>6, AddStep
    <3>2. Calm(t) /\ Easy(t)
      BY <1>i, <3>1 DEF Keeps
    <3>3. CASE ids'[q] = ids[q]
      BY <1>k, <3>1, <3>2, <3>3
    <3>4. CASE carries[t] = q /\ ids'[q] = [conn |-> on[t], active |-> TRUE]
      <4>1. Sends(t, q)
        BY <1>i, <3>1, <3>4 DEF Sends
      <4>2. executed[q] = 0 /\ (\A u \in Thread : Sends(u, q) => u = t) /\ \A c \in Conn : q \notin requests[c]
        BY <1>0, <4>1 DEF Once
      <4>3. \A u \in Thread : Sends(u, q)' => Sends(u, q)
        BY <1>s, <3>1, <3>2
      <4>4. \A c \in Conn : (Handled(c, q)' => Handled(c, q)) /\ (Reads(c, q)' => Reads(c, q))
        BY <1>h, <3>1, <3>2
      <4>5. pc'[t] = "output" /\ on'[t] = ids'[q].conn
        BY <3>1, <3>4 DEF Keeps
      <4> HIDE DEF Calm, Easy
      <4> QED
        BY <1>0, <1>m, <3>1, <4>2, <4>3, <4>4, <4>5, OnceFresh
    <3> QED
      BY <3>1, <3>3, <3>4
  <2>7. CASE Output(t)
    <3>1. /\ Only(t) /\ Keeps(t) /\ pc[t] = "output" /\ pc'[t] = "deref" /\ executed' = executed
          /\ inbox' = inbox /\ ids' = ids /\ on[t] \in Conn
          /\ \A c \in Conn : c # on[t] => requests'[c] = requests[c]
          /\ requests'[on[t]] \subseteq requests[on[t]] \cup {carries[t]}
      BY <1>0, <2>7, OutputStep
    <3>2. Calm(t) /\ Easy(t)
      BY <1>i, <3>1
    <3>3. \A u \in Thread : Sends(u, q)' => /\ Sends(u, q)
                                            /\ pc[u] = "output" => pc'[u] = "output" /\ on'[u] = on[u]
      BY <1>s, <3>1, <3>2
    <3>4. \A c \in Conn : (Handled(c, q)' => Handled(c, q)) /\ (Reads(c, q)' => Reads(c, q))
      BY <1>h, <3>1, <3>2
    <3> HIDE DEF Calm, Easy
    <3>5. CASE carries[t] # q
      <4>1. \A c \in Conn : q \in requests'[c] => q \in requests[c]
        BY <3>1, <3>5
      <4> QED
        BY <1>0, <1>m, <3>1, <3>3, <3>4, <4>1, OnceKept
    <3>6. CASE carries[t] = q
      <4>1. Sends(t, q)
        BY <3>1, <3>6 DEF Sends
      <4>2. executed[q] = 0 /\ (\A u \in Thread : Sends(u, q) => u = t) /\ \A c \in Conn : q \notin requests[c]
        BY <1>0, <4>1 DEF Once
      <4>3. \A u \in Thread : ~Sends(u, q)'
        <5>1. ~Sends(t, q)'
          BY <1>i, <3>1 DEF Sends
        <5> QED
          BY <3>3, <4>2, <5>1
      <4>4. \A c \in Conn : q \in requests'[c] => c = on[t]
        BY <3>1, <4>2
      <4>5. \A c \in Conn : ~Replied(c, q)' /\ ~Handled(c, q)'
        BY <1>0, <1>m, <3>1, <3>4, <4>2 DEF Once, Handled
      <4>6. \A c \in Conn : ~Reads(c, q)'
        BY <4>5 DEF Reads, Handled
      <4>7. ids'[q].active => ids'[q].conn = on[t]
        BY <1>0, <3>1, <4>1 DEF Once
      <4>8. \A c \in Conn : ~(pc[c] \in {"pull", "delete", "answer"} /\ carries[c] = q)'
        BY <4>5 DEF Handled
      <4> QED
        BY <3>1, <4>2, <4>3, <4>4, <4>5, <4>6, <4>7, <4>8 DEF Once
    <3> QED
      BY <3>5, <3>6
  <2>8. CASE ActiveDeref(t)
    <3>1. /\ Only(t) /\ pc'[t] \in {"pending", "done", "wait"} /\ Server /\ ids' = ids
      BY <1>0, <2>8, ActiveDerefStep
    <3> QED
      BY <1>i, <1>p, <3>1
  <2> QED
    BY <1>7, <2>1, <2>2, <2>3, <2>4, <2>5, <2>6, <2>7, <2>8 DEF invoke
<1>8. ASSUME NEW t \in Thread, kill_conn(t) PROVE Once(q)'
  <2>1. CASE Unlist(t)
    <3>1. /\ Only(t) /\ pc'[t] \in {"uncache", "select", "done", "idle"} /\ Server /\ ids' = ids
      BY <1>0, <2>1, UnlistStep DEF Left
    <3> QED
      BY <1>i, <1>p, <3>1
  <2>2. CASE Uncache(t)
    <3>1. /\ Only(t) /\ pc'[t] = "shutdown" /\ Server /\ ids' = ids
      BY <1>0, <2>2, UncacheStep
    <3> QED
      BY <1>i, <1>p, <3>1
  <2>3. CASE ShutdownEffective(t) \/ TerminatedEffective(t)
    <3>1. /\ Only(t) /\ pc'[t] \in {"join", "pending"} /\ Server /\ ids' = ids
      BY <1>0, <2>3, EffectiveStep
    <3> QED
      BY <1>i, <1>p, <3>1
  <2>4. CASE Join(t)
    <3>1. /\ Only(t) /\ pc'[t] = "terminated" /\ executed' = executed /\ requests' = requests /\ ids' = ids
          /\ inbox'[victim[t]] = <<>> /\ \A c \in Conn : c # victim[t] => inbox'[c] = inbox[c]
      BY <1>0, <2>4, JoinStep
    <3>2. Calm(t) /\ Easy(t)
      BY <1>i, <3>1
    <3>3. \A u \in Thread : Sends(u, q)' => /\ Sends(u, q)
                                            /\ pc[u] = "output" => pc'[u] = "output" /\ on'[u] = on[u]
      BY <1>s, <3>1, <3>2
    <3>4. \A c \in Conn : (Handled(c, q)' => Handled(c, q)) /\ (Reads(c, q)' => Reads(c, q))
      BY <1>h, <3>1, <3>2
    <3>5. \A c \in Conn : Replied(c, q)' => Replied(c, q)
      <4> SUFFICES ASSUME NEW c \in Conn PROVE Replied(c, q)' => Replied(c, q)
        OBVIOUS
      <4>1. CASE c # victim[t]
        BY <3>1, <4>1 DEF Replied
      <4>2. CASE c = victim[t]
        BY <3>1, <4>2 DEF Replied
      <4> QED
        BY <4>1, <4>2
    <3> HIDE DEF Calm, Easy
    <3> QED
      BY <1>0, <3>1, <3>3, <3>4, <3>5, OnceKept
  <2>5. CASE NextPending(t)
    <3>1. /\ Only(t) /\ pc'[t] \in {"redo", "abort"} /\ Server /\ ids' = ids
      BY <1>0, <2>5, NextPendingStep
    <3> QED
      BY <1>i, <1>p, <3>1
  <2>6. CASE Abort(t) \/ Redo(t)
    <3>1. PICK p \in Own : p = carries[t]
      BY <1>0, <2>6, DropStep
    <3>2. /\ Only(t) /\ Keeps(t) /\ pc[t] \in {"abort", "redo"} /\ Server
          /\ ids[p] = [conn |-> ids[p].conn, active |-> TRUE] /\ ids[p].conn \in Conn
          /\ ids'[p] = NoRec /\ \A r \in Caller : r # p => ids'[r] = ids[r]
      BY <1>0, <2>6, <3>1, DropStep
    <3>3. \/ pc'[t] = "pending"
          \/ pc[t] = "redo" /\ redo[t] /\ t \in Conn /\ pc'[t] = "lookup"
      BY <1>0, <2>6, <3>1, DropStep
    <3>4. Recs
      BY <1>n, <3>2
    <3>5. CASE pc'[t] = "pending"
      BY <1>i, <1>p, <3>2, <3>4, <3>5
    <3>6. CASE pc[t] = "redo" /\ redo[t] /\ t \in Conn /\ pc'[t] = "lookup"
      <4>1. \A c \in Conn : (Handled(c, q)' => Handled(c, q)) /\ (Reads(c, q)' => Reads(c, q))
        <5>1. Easy(t)
          BY <3>6
        <5> QED
          BY <1>h, <3>2, <5>1
      <4>2. CASE p # q
        <5>1. \A u \in Thread : u # t /\ Sends(u, q)' =>
                /\ Sends(u, q)
                /\ pc[u] = "output" => pc'[u] = "output" /\ on'[u] = on[u]
          BY <3>2 DEF Sends, Only
        <5>2. ~Sends(t, q)'
          BY <3>1, <3>2, <4>2 DEF Sends, Keeps
        <5> QED
          BY <1>0, <1>m, <3>2, <3>4, <4>1, <5>1, <5>2, OnceKept
      <4>3. CASE p = q
        <5>1. Token(q) /\ Drops(t, q) /\ victim[t] = t
          <6>1. Token(q)
            BY <4>3, Before
          <6> QED
            BY <1>0, <1>i, <3>1, <3>2, <3>6, <4>3, <6>1, KillersOf DEF Drops
        <5>2. ids[q].active
          BY <3>2, <4>3
        <5>3. ids[q].conn = t /\ ids[q] = [conn |-> t, active |-> TRUE]
          BY <4>3, <5>1, <5>2, TokenFacts
        <5>4. Orderly(t) /\ Unborn(t) /\ Phase(t) /\ Active(t)
          BY <3>6, Before
        <5>5. executed[q] = 0 /\ requests[t] = {}
          BY <3>6, <5>3, <5>4 DEF Orderly
        <5>6. \A c \in Conn : q \notin requests[c]
          BY <1>0, <5>2, <5>3, <5>5 DEF Once
        <5>7. state[t].current = 4
          BY <3>6, <4>3, <5>1, DroppersOf
        <5>8. ASSUME NEW u \in Thread PROVE ~Sends(u, q)
          <6> SUFFICES ASSUME Sends(u, q) PROVE FALSE
            OBVIOUS
          <6>1. pc[u] = "output" /\ on[u] = t
            BY <1>0, <5>2, <5>3 DEF Once
          <6>2. Holds(u, t)
            BY <6>1 DEF Holds, Sending
          <6> QED
            BY <1>0, <3>6, <5>4, <5>7, <6>2, InUse
        <5>9. \A u \in Thread : Sends(u, q)' => u = t
          BY <3>2, <5>8 DEF Sends, Only
        <5>10. ~ids'[q].active
          BY <1>n, <3>2, <4>3
        <5> QED
          BY <1>0, <1>m, <3>2, <4>1, <5>5, <5>6, <5>9, <5>10, OnceFresh
      <4> QED
        BY <4>2, <4>3
    <3> QED
      BY <3>3, <3>5, <3>6
  <2>7. CASE KillEnd(t)
    <3>1. /\ Only(t) /\ pc'[t] \in {"select", "done", "idle"} /\ Server /\ ids' = ids
      BY <1>0, <2>7, KillEndStep DEF Left
    <3> QED
      BY <1>i, <1>p, <3>1
  <2> QED
    BY <1>8, <2>1, <2>2, <2>3, <2>4, <2>5, <2>6, <2>7 DEF kill_conn
<1>9. ASSUME NEW t \in Thread, Fail(t) PROVE Once(q)'
  <2>1. UNCHANGED threadVars /\ Server /\ ids' = ids
    BY <1>0, <1>9, FailStep
  <2>2. \A u \in Thread : Sends(u, q)' <=> Sends(u, q)
    BY <2>1 DEF Sends
  <2>3. \A c \in Conn : (Handled(c, q)' <=> Handled(c, q)) /\ (Reads(c, q)' <=> Reads(c, q))
    BY <2>1 DEF Handled, Reads
  <2> QED
    BY <1>0, <1>m, <2>1, <2>2, <2>3, OnceKept
<1> QED
  BY <1>1, <1>3, <1>4, <1>5, <1>6, <1>7, <1>8, <1>9, Steps

\* What is read first, and what stays.
LEMMA MailKept ==
  ASSUME NEW M, NEW s \in Seq(M)
  PROVE  /\ s # <<>> => /\ 1 \in DOMAIN s /\ Head(s) = s[1] /\ Len(s) \in Nat \ {0}
                        /\ Len(Tail(s)) = Len(s) - 1
                        /\ \A i \in DOMAIN Tail(s) : i + 1 \in DOMAIN s /\ Tail(s)[i] = s[i + 1] /\ i \in Int
                        /\ \A m : (\E i \in DOMAIN s : s[i] = m) =>
                                    m = Head(s) \/ \E i \in DOMAIN Tail(s) : Tail(s)[i] = m
         /\ \A n \in M : /\ \A m : (\E i \in DOMAIN s : s[i] = m) =>
                                     \E i \in DOMAIN Append(s, n) : Append(s, n)[i] = m
                         /\ \E i \in DOMAIN Append(s, n) : Append(s, n)[i] = n
                         /\ \A i \in DOMAIN Append(s, n) :
                              \/ i \in DOMAIN s /\ Append(s, n)[i] = s[i]
                              \/ i = Len(Append(s, n)) /\ Append(s, n)[i] = n
         /\ \A n \in 0..Len(s) : \A i \in DOMAIN SubSeq(s, 1, n) : i \in DOMAIN s /\ SubSeq(s, 1, n)[i] = s[i]
<1>0. DOMAIN s = 1..Len(s) /\ Len(s) \in Nat
  OBVIOUS
<1>1. ASSUME s # <<>>
      PROVE  /\ 1 \in DOMAIN s /\ Head(s) = s[1] /\ Len(s) \in Nat \ {0}
             /\ Len(Tail(s)) = Len(s) - 1
             /\ \A i \in DOMAIN Tail(s) : i + 1 \in DOMAIN s /\ Tail(s)[i] = s[i + 1] /\ i \in Int
             /\ \A m : (\E i \in DOMAIN s : s[i] = m) =>
                         m = Head(s) \/ \E i \in DOMAIN Tail(s) : Tail(s)[i] = m
  <2>1. Len(s) > 0 /\ Head(s) = s[1] /\ Len(Tail(s)) = Len(s) - 1 /\ DOMAIN Tail(s) = 1..(Len(s) - 1)
        /\ \A i \in 1..(Len(s) - 1) : Tail(s)[i] = s[i + 1]
    BY <1>1
  <2>2. ASSUME NEW i \in DOMAIN s PROVE i = 1 \/ (i - 1 \in DOMAIN Tail(s) /\ Tail(s)[i - 1] = s[i])
    <3>1. i \in Int /\ 1 <= i /\ i <= Len(s)
      BY <1>0, <2>2
    <3>2. CASE i # 1
      <4>1. i - 1 \in 1..(Len(s) - 1) /\ (i - 1) + 1 = i
        BY <1>0, <3>1, <3>2
      <4> QED
        BY <2>1, <4>1
    <3> QED
      BY <3>2
  <2>3. \A m : (\E i \in DOMAIN s : s[i] = m) => m = Head(s) \/ \E i \in DOMAIN Tail(s) : Tail(s)[i] = m
    BY <2>1, <2>2
  <2>4. \A i \in DOMAIN Tail(s) : i + 1 \in DOMAIN s /\ i \in Int
    BY <1>0, <2>1
  <2> QED
    BY <1>0, <2>1, <2>3, <2>4
<1>2. ASSUME NEW n \in M
      PROVE  /\ \A m : (\E i \in DOMAIN s : s[i] = m) =>
                         \E i \in DOMAIN Append(s, n) : Append(s, n)[i] = m
             /\ \E i \in DOMAIN Append(s, n) : Append(s, n)[i] = n
             /\ \A i \in DOMAIN Append(s, n) :
                  \/ i \in DOMAIN s /\ Append(s, n)[i] = s[i]
                  \/ i = Len(Append(s, n)) /\ Append(s, n)[i] = n
  <2>1. /\ DOMAIN Append(s, n) = 1..(Len(s) + 1) /\ Append(s, n)[Len(s) + 1] = n
        /\ Len(Append(s, n)) = Len(s) + 1
        /\ \A j \in 1..Len(s) : Append(s, n)[j] = s[j]
    OBVIOUS
  <2>2. Len(s) + 1 \in DOMAIN Append(s, n) /\ \A i \in DOMAIN s : i \in DOMAIN Append(s, n)
    BY <1>0, <2>1
  <2>3. \A i \in DOMAIN Append(s, n) : i \in DOMAIN s \/ i = Len(s) + 1
    BY <1>0, <2>1
  <2> QED
    BY <1>0, <2>1, <2>2, <2>3
<1>3. ASSUME NEW n \in 0..Len(s), NEW i \in DOMAIN SubSeq(s, 1, n) PROVE i \in DOMAIN s /\ SubSeq(s, 1, n)[i] = s[i]
  <2>1. DOMAIN SubSeq(s, 1, n) = 1..n /\ \A j \in 1..n : SubSeq(s, 1, n)[j] = s[j]
    BY <1>0
  <2> QED
    BY <1>0, <1>3, <2>1
<1> QED
  BY <1>1, <1>2, <1>3

\* What is in a box is still there when a message has been put behind it.
LEMMA MailAdded ==
  ASSUME NEW M, NEW s \in Seq(M), NEW n \in M, NEW u, u = Append(s, n)
  PROVE  /\ \A m : (\E i \in DOMAIN s : s[i] = m) => \E i \in DOMAIN u : u[i] = m
         /\ \E i \in DOMAIN u : u[i] = n
         /\ \A i \in DOMAIN u : (i \in DOMAIN s /\ u[i] = s[i]) \/ (i = Len(u) /\ u[i] = n)
<1>1. \A m : (\E i \in DOMAIN s : s[i] = m) => \E i \in DOMAIN u : u[i] = m
  <2>1. DOMAIN s = 1..Len(s) /\ Len(s) \in Nat /\ DOMAIN u = 1..(Len(s) + 1) /\ \A j \in 1..Len(s) : u[j] = s[j]
    OBVIOUS
  <2>2. \A j \in DOMAIN s : j \in DOMAIN u /\ u[j] = s[j]
    BY <2>1
  <2> QED
    BY <2>2
<1>2. \E i \in DOMAIN u : u[i] = n
  BY MailKept
<1>3. \A i \in DOMAIN u : (i \in DOMAIN s /\ u[i] = s[i]) \/ (i = Len(u) /\ u[i] = n)
  BY MailKept
<1> QED
  BY <1>1, <1>2, <1>3

\* What is in a box is still there when the first message has been taken, or was the first.
LEMMA MailTaken ==
  ASSUME NEW M, NEW s \in Seq(M), s # <<>>, NEW u, u = Tail(s), NEW h, h = s[1]
  PROVE  \A m : (\E i \in DOMAIN s : s[i] = m) => m = h \/ \E i \in DOMAIN u : u[i] = m
<1>1. /\ DOMAIN s = 1..Len(s) /\ Len(s) \in Nat /\ s[1] = h
      /\ DOMAIN u = 1..(Len(s) - 1) /\ \A j \in 1..(Len(s) - 1) : u[j] = s[j + 1]
  OBVIOUS
<1>2. ASSUME NEW i \in DOMAIN s PROVE s[i] = h \/ \E j \in DOMAIN u : u[j] = s[i]
  <2>1. CASE i # 1
    <3>1. i - 1 \in 1..(Len(s) - 1) /\ (i - 1) + 1 = i
      BY <1>1, <2>1
    <3>2. i - 1 \in DOMAIN u /\ u[i - 1] = s[i]
      BY <1>1, <3>1
    <3> QED
      BY <3>2
  <2> QED
    BY <1>1, <2>1
<1> QED
  BY <1>2

\* Nothing happens to what the reader of c will hear.
LEMMA OrderlyKept ==
  ASSUME NEW c \in Conn, Orderly(c), peer'[c] = peer[c], inbox'[c] = inbox[c],
         peer[c] # "up" => requests'[c] \subseteq requests[c],
         pc'[c] \in {"closing", "unlist"} => pc[c] \in {"closing", "unlist"},
         redo'[c] => redo[c], Hears(c)' => Hears(c),
         \A q \in Caller : ids'[q] = [conn |-> c, active |-> TRUE] =>
            \/ executed'[q] = 0
            \/ ids[q] = [conn |-> c, active |-> TRUE] /\ executed'[q] = executed[q],
         \A q \in Caller : ids'[q] = [conn |-> c, active |-> TRUE] /\ Reads(c, q) => Reads(c, q)'
  PROVE  Orderly(c)'
<1>1. \A q \in Caller : Replied(c, q)' <=> Replied(c, q)
  BY DEF Replied
<1> HIDE DEF Replied, Reads, Hears
<1>2. /\ peer'[c] # "up" => requests'[c] = {}
      /\ \A i \in DOMAIN inbox'[c] : inbox'[c][i].kind # "reply" => i = Len(inbox'[c]) /\ peer'[c] = "closing"
      /\ pc'[c] \in {"closing", "unlist"} => peer'[c] = "closing"
  BY DEF Orderly
<1>3. redo'[c] => /\ peer'[c] = "closing"
                  /\ \A q \in Caller : ids'[q] = [conn |-> c, active |-> TRUE] => executed'[q] = 0
  BY DEF Orderly
<1>4. Hears(c)' /\ peer'[c] # "down" =>
       \A q \in Caller : ids'[q] = [conn |-> c, active |-> TRUE] /\ executed'[q] = 1 =>
           Replied(c, q)' \/ Reads(c, q)'
  <2> SUFFICES ASSUME Hears(c)', peer'[c] # "down",
                      NEW q \in Caller, ids'[q] = [conn |-> c, active |-> TRUE], executed'[q] = 1
               PROVE  Replied(c, q)' \/ Reads(c, q)'
    OBVIOUS
  <2>1. Hears(c) /\ peer[c] # "down"
    OBVIOUS
  <2> DEFINE rec == [conn |-> c, active |-> TRUE]
  <2>r. /\ ids'[q] = rec
        /\ ids'[q] = rec => executed'[q] = 0 \/ (ids[q] = rec /\ executed'[q] = executed[q])
    OBVIOUS
  <2> HIDE DEF rec
  <2>s. ids[q] = rec /\ executed[q] = 1
    BY <2>r
  <2>2. ids[q] = [conn |-> c, active |-> TRUE] /\ executed[q] = 1
    BY <2>s DEF rec
  <2>3. Replied(c, q) \/ Reads(c, q)
    BY <2>1, <2>2 DEF Orderly
  <2> QED
    BY <1>1, <2>3
<1> QED
  BY <1>2, <1>3, <1>4 DEF Orderly

\* A step keeps what an orderly close says: what was executed has been answered.
LEMMA OrderlyInv ==
  ASSUME Inv, Next, NEW c \in Conn
  PROVE  Orderly(c)'
<1> USE DEF serverVars, callVars, connVars, cacheVars, threadVars
<1> DEFINE On(q) == ids[q] = [conn |-> c, active |-> TRUE]
           Calm(t) == t = c => /\ pc'[c] \in {"closing", "unlist"} => pc[c] \in {"closing", "unlist"}
                               /\ redo'[c] => redo[c]
                               /\ Hears(c)' => Hears(c)
                               /\ pc[c] # "pull" \/ \A q \in Caller : Reads(c, q) => ~ids'[q].active
           Server == peer' = peer /\ inbox' = inbox /\ executed' = executed
           Still == state'[c].current = 1 => state[c].current = 1
           Recs == \A q \in Caller : ids'[q] = ids[q] \/ ~ids'[q].active
           New == \A q \in Caller : On(q)' => executed'[q] = 0 \/ (On(q) /\ executed'[q] = executed[q])
           Writes == peer[c] # "up" => requests'[c] \subseteq requests[c]
<1>0. /\ Shape /\ ThreadShape /\ ServerShape /\ IdShape /\ ConnShape /\ RestShape /\ Orderly(c)
      /\ Unborn(c) /\ Phase(c) /\ \A q \in Caller : Once(q)
  BY Before
<1>c. c \in Thread /\ c \notin Caller /\ \A q \in Caller : q # c
  BY Kinds
<1>n. ~NoRec.active /\ [conn |-> c, active |-> TRUE].active /\ [conn |-> c, active |-> TRUE].conn = c
  BY DEF NoRec
<1>i. /\ Invoking = {"lookup", "connect", "cache", "ref", "add", "output", "deref"}
      /\ Early = {"lookup", "connect", "cache", "ref", "add"}
      /\ Killing = {"unlist", "uncache", "shutdown", "join", "terminated", "pending", "abort", "redo"}
      /\ Heard = {"reading", "closing", "pull", "delete", "answer", "giveback", "release"}
  BY DEF Invoking, Early, Killing, Heard, Handling
<1>r. Recs /\ executed' = executed => New
  BY <1>n
<1> HIDE DEF Recs, New
<1>h. (pc'[c] \notin Heard \cup {"unlist", "select"} => ~Hears(c)') /\ (pc[c] \in Heard \cup {"unlist"} => Hears(c))
  BY DEF Hears
<1>k. ASSUME NEW t \in Thread, Only(t), Calm(t), peer'[c] = peer[c], inbox'[c] = inbox[c], Writes, Still, New
      PROVE  Orderly(c)'
  <2>1. /\ pc'[c] \in {"closing", "unlist"} => pc[c] \in {"closing", "unlist"}
        /\ redo'[c] => redo[c]
        /\ Hears(c)' => Hears(c)
        /\ \A q \in Caller : On(q)' /\ Reads(c, q) => Reads(c, q)'
    <3>1. CASE t # c
      BY <1>c, <1>k, <3>1 DEF Only, Hears, Reads
    <3>2. CASE t = c
      BY <1>k, <1>n, <3>2 DEF Reads
    <3> QED
      BY <3>1, <3>2
  <2>2. \A q \in Caller : On(q)' => executed'[q] = 0 \/ (On(q) /\ executed'[q] = executed[q])
    BY <1>k DEF New
  <2> HIDE DEF Hears, Reads, Calm, Still
  <2> QED
    BY <1>0, <1>k, <2>1, <2>2, OrderlyKept
<1> HIDE DEF Hears, Reads
\* c is left alone, or is no more heard
<1>p. ASSUME NEW t \in Thread, Only(t), Recs, peer'[c] = peer[c], inbox'[c] = inbox[c], executed' = executed,
             Writes, Still,
             t = c => /\ pc'[c] \notin Heard \cup {"unlist", "select"}
                      /\ redo'[c] => redo[c]
                      /\ pc[c] # "pull" \/ \A q \in Caller : Reads(c, q) => ~ids'[q].active
      PROVE  Orderly(c)'
  <2>1. Calm(t)
    BY <1>h, <1>i, <1>p
  <2> HIDE DEF Calm, Still
  <2> QED
    BY <1>k, <1>p, <1>r, <2>1
<1>m. \A d \in Conn, n \in Int : Counted(d, n) => Still
  BY DEF Counted
<1>o. \A d \in Conn : MayClose(d) => Still
  <2>1. ASSUME NEW d \in Conn, MayClose(d) PROVE Still
    BY <2>1 DEF MayClose
  <2> QED
    BY <2>1
<1>1. ASSUME NEW d \in Conn,
             Serve(d) \/ Crash(d) \/ \E k \in {"close", "error"} : ServerCloses(d, k)
      PROVE  Orderly(c)'
  <2>1. /\ UNCHANGED <<callVars, connVars, cacheVars, ids, orb, threadVars, kept, fault>> /\ peer[d] = "up"
        /\ \A e \in Conn : e # d => peer'[e] = peer[e] /\ requests'[e] = requests[e] /\ inbox'[e] = inbox[e]
    BY <1>0, <1>1, PeerStep
  <2>2. /\ Hears(c)' <=> Hears(c)
        /\ \A q \in Caller : Reads(c, q)' <=> Reads(c, q)
    BY <2>1 DEF Hears, Reads
  <2>i. inbox[d] \in Seq(BackMsg)
    BY <1>0 DEF ServerShape
  <2>3. CASE Crash(d) \/ \E k \in {"close", "error"} : ServerCloses(d, k)
    <3>1. /\ requests'[d] = {} /\ executed' = executed
          /\ \/ /\ peer'[d] = "down"
                /\ \E n \in 0..Len(inbox[d]) : inbox'[d] = SubSeq(inbox[d], 1, n)
             \/ /\ peer'[d] = "closing"
                /\ \E k \in {"close", "error"} : inbox'[d] = Append(inbox[d], [kind |-> k, call |-> NoCall])
      BY <1>0, <2>3, CutStep
    <3>2. CASE c # d
      BY <1>0, <2>1, <2>2, <3>1, <3>2, OrderlyKept
    <3>3. CASE c = d
      <4>1. /\ \A i \in DOMAIN inbox[c] : inbox[c][i].kind = "reply"
            /\ pc'[c] \notin {"closing", "unlist"} /\ ~redo'[c]
        BY <1>0, <2>1, <3>3 DEF Orderly
      <4>2. CASE /\ peer'[d] = "down"
                 /\ \E n \in 0..Len(inbox[d]) : inbox'[d] = SubSeq(inbox[d], 1, n)
        <5>1. PICK n \in 0..Len(inbox[d]) : inbox'[d] = SubSeq(inbox[d], 1, n)
          BY <4>2
        <5>2. \A i \in DOMAIN inbox'[c] : inbox'[c][i].kind = "reply"
          BY <2>i, <3>3, <4>1, <5>1, MailKept
        <5> QED
          BY <3>1, <3>3, <4>1, <4>2, <5>2 DEF Orderly
      <4>3. CASE /\ peer'[d] = "closing"
                 /\ \E k \in {"close", "error"} : inbox'[d] = Append(inbox[d], [kind |-> k, call |-> NoCall])
        <5>1. PICK m \in BackMsg : inbox'[d] = Append(inbox[d], m)
          BY <4>3 DEF BackMsg
        <5>2. \A i \in DOMAIN inbox'[c] : inbox'[c][i].kind = "reply" \/ i = Len(inbox'[c])
          BY <2>i, <3>3, <4>1, <5>1, MailKept
        <5>3. \A q \in Caller : Replied(c, q) => Replied(c, q)'
          <6> DEFINE u == inbox'[d]
          <6>1. \A e : (\E i \in DOMAIN inbox[d] : inbox[d][i] = e) => \E i \in DOMAIN u : u[i] = e
            <7>1. u = Append(inbox[d], m)
              BY <5>1
            <7> HIDE DEF u
            <7> QED
              BY <2>i, <7>1, MailAdded
          <6> QED
            BY <3>3, <6>1 DEF Replied
        <5>4. Hears(c)' =>
                 \A q \in Caller : On(q)' /\ executed'[q] = 1 => Replied(c, q)' \/ Reads(c, q)'
          BY <1>0, <2>1, <2>2, <3>1, <3>3, <5>3 DEF Orderly
        <5> QED
          BY <3>1, <3>3, <4>1, <4>3, <5>2, <5>4 DEF Orderly
      <4> QED
        BY <3>1, <4>2, <4>3
    <3> QED
      BY <3>2, <3>3
  <2>4. CASE Serve(d)
    <3>1. PICK p \in requests[d] :
            /\ p \in Caller /\ requests'[d] = requests[d] \ {p} /\ peer' = peer
            /\ executed'[p] = executed[p] + 1
            /\ \A r \in Caller : r # p => executed'[r] = executed[r]
            /\ IF p \in Oneway \/ ~Transport(d) THEN inbox'[d] = inbox[d]
               ELSE inbox'[d] = Append(inbox[d], [kind |-> "reply", call |-> p])
      BY <1>0, <2>4, ServeStep
    <3>2. Once(p) /\ (On(p) => d = c)
      <4>1. Once(p)
        BY <3>1, Before
      <4> QED
        BY <1>n, <3>1, <4>1 DEF Once
    <3>3. CASE c # d
      <4>1. New
        BY <2>1, <3>1, <3>2, <3>3 DEF New
      <4>2. \A q \in Caller : On(q)' => executed'[q] = 0 \/ (On(q) /\ executed'[q] = executed[q])
        BY <4>1 DEF New
      <4> QED
        BY <1>0, <2>1, <2>2, <3>1, <3>3, <4>2, OrderlyKept
    <3>4. CASE c = d
      <4>1. /\ \A i \in DOMAIN inbox[c] : inbox[c][i].kind = "reply"
            /\ pc'[c] \notin {"closing", "unlist"} /\ ~redo'[c]
        BY <1>0, <2>1, <3>4 DEF Orderly
      <4>2. On(p) /\ Hears(c) => p \notin Oneway /\ Transport(c)
        <5> SUFFICES ASSUME On(p), Hears(c) PROVE p \notin Oneway /\ Transport(c)
          OBVIOUS
        <5>1. p \notin Oneway
          BY <1>0, <1>n, <3>1 DEF IdShape
        <5>2. pc[c] \notin {"idle", "done", "unlist"} /\ (pc[c] \in Heard \/ state[c].current = 1)
          BY <1>i, <2>1, <4>1 DEF Hears
        <5>3. life[c] = "open" /\ Born(c)
          BY <1>0, <5>2, BornWhen DEF Born
        <5>4. state[c].new # 4
          <6>1. CASE pc[c] \in Heard
            BY <1>0, <5>3, <6>1 DEF Phase
          <6>2. CASE state[c].current = 1
            BY <1>0, <5>3, <6>2, PhaseStates
          <6> QED
            BY <5>2, <6>1, <6>2
        <5> QED
          BY <5>1, <5>3, <5>4 DEF Transport, S!Terminated
      <4>m. [kind |-> "reply", call |-> p].kind = "reply" /\ (p \notin Oneway => [kind |-> "reply", call |-> p] \in BackMsg)
        BY <3>1 DEF BackMsg
      <4>3. /\ \A i \in DOMAIN inbox'[c] : inbox'[c][i].kind = "reply"
            /\ \A q \in Caller : Replied(c, q) => Replied(c, q)'
        <5>1. CASE inbox'[c] = inbox[c]
          BY <4>1, <5>1 DEF Replied
        <5>2. CASE p \notin Oneway /\ inbox'[c] = Append(inbox[c], [kind |-> "reply", call |-> p])
          <6>1. \A i \in DOMAIN inbox'[c] : inbox'[c][i].kind = "reply"
            BY <2>i, <3>4, <4>1, <4>m, <5>2, MailKept
          <6>2. \A q \in Caller : Replied(c, q) => Replied(c, q)'
            BY <2>i, <3>4, <4>m, <5>2, MailAdded DEF Replied
          <6> QED
            BY <6>1, <6>2
        <5> QED
          BY <3>1, <3>4, <5>1, <5>2
      <4>4. On(p) /\ Hears(c) => Replied(c, p)'
        <5> SUFFICES ASSUME On(p), Hears(c) PROVE Replied(c, p)'
          OBVIOUS
        <5>1. p \notin Oneway /\ inbox'[c] = Append(inbox[c], [kind |-> "reply", call |-> p])
          BY <3>1, <3>4, <4>2
        <5> QED
          BY <2>i, <3>4, <4>m, <5>1, MailAdded DEF Replied
      <4>5. Hears(c)' =>
               \A q \in Caller : On(q)' /\ executed'[q] = 1 => Replied(c, q)' \/ Reads(c, q)'
        <5> SUFFICES ASSUME Hears(c), NEW q \in Caller, On(q), executed'[q] = 1
                     PROVE  Replied(c, q)' \/ Reads(c, q)'
          BY <2>1, <2>2
        <5>1. CASE q = p
          BY <4>4, <5>1
        <5>2. CASE q # p
          BY <1>0, <2>1, <2>2, <3>1, <3>4, <4>3, <5>2 DEF Orderly
        <5> QED
          BY <5>1, <5>2
      <4>6. peer'[c] = "up"
        BY <2>1, <3>1, <3>4
      <4> QED
        BY <4>1, <4>3, <4>5, <4>6 DEF Orderly
    <3> QED
      BY <3>3, <3>4
  <2> QED
    BY <1>1, <2>3, <2>4
<1>3. ASSUME NEW d \in Conn, Reader(d) PROVE Orderly(c)'
  <2>d. d \in Thread
    BY Kinds
  <2>0. ASSUME Only(d), d # c, peer' = peer, executed' = executed, requests' = requests, inbox'[c] = inbox[c],
               Still, Recs
        PROVE  Orderly(c)'
    BY <1>p, <2>0, <2>d
  <2>1. CASE Select(d) \/ LeaveLoop(d)
    <3>1. /\ Only(d) /\ Keeps(d) /\ Server /\ requests' = requests /\ ids' = ids /\ state' = state
          /\ pc[d] = "select" /\ \/ state[d].current = 1 /\ pc'[d] = "reading"
                                 \/ pc'[d] = "done"
      BY <1>0, <2>1, SelectStep
    <3>2. Calm(d) /\ Recs
      BY <1>i, <3>1 DEF Hears, Keeps, Recs
    <3> HIDE DEF Calm
    <3> QED
      BY <1>k, <1>r, <2>d, <3>1, <3>2
  <2>2. CASE Read(d)
    <3>1. /\ Only(d) /\ pc[d] = "reading" /\ ~redo[d] /\ ids' = ids /\ executed' = executed /\ requests' = requests
          /\ peer' = peer /\ inbox[d] # <<>> /\ inbox[d] \in Seq(BackMsg) /\ inbox'[d] = Tail(inbox[d])
          /\ \A e \in Conn : e # d => inbox'[e] = inbox[e]
      BY <1>0, <2>2, ReadStep
    <3>2. \/ state[d].current # 1 /\ pc'[d] = "select" /\ state' = state /\ redo'[d] = redo[d]
          \/ \E m \in BackMsg :
               /\ m = Head(inbox[d]) /\ Counted(d, 1)
               /\ pc'[d] = (IF m.kind = "reply" THEN "pull" ELSE "closing")
               /\ carries'[d] = m.call /\ redo'[d] = (m.kind = "close")
      BY <1>0, <2>2, ReadStep
    <3>3. CASE d # c
      <4>1. Still
        BY <1>m, <3>2
      <4>2. Recs
        BY <3>1 DEF Recs
      <4> QED
        BY <2>0, <3>1, <3>3, <4>1, <4>2
    <3>4. CASE d = c
      <4>0. /\ 1 \in DOMAIN inbox[c] /\ Head(inbox[c]) = inbox[c][1] /\ Len(inbox[c]) \in Nat \ {0}
            /\ Len(Tail(inbox[c])) = Len(inbox[c]) - 1
            /\ \A i \in DOMAIN Tail(inbox[c]) : /\ i + 1 \in DOMAIN inbox[c] /\ i \in Int
                                                /\ Tail(inbox[c])[i] = inbox[c][i + 1]
        BY <3>1, <3>4, MailKept
      <4>1. \A i \in DOMAIN inbox'[c] : inbox'[c][i].kind # "reply" => i = Len(inbox'[c]) /\ peer'[c] = "closing"
        <5> SUFFICES ASSUME NEW i \in DOMAIN inbox'[c], inbox'[c][i].kind # "reply"
                     PROVE  i = Len(inbox'[c]) /\ peer'[c] = "closing"
          OBVIOUS
        <5>1. i \in Int /\ i + 1 \in DOMAIN inbox[c] /\ inbox[c][i + 1].kind # "reply"
          BY <3>1, <3>4, <4>0
        <5>2. i + 1 = Len(inbox[c]) /\ peer[c] = "closing"
          BY <1>0, <5>1 DEF Orderly
        <5>3. peer'[c] = peer[c] /\ Len(inbox'[c]) = Len(inbox[c]) - 1 /\ Len(inbox[c]) \in Nat
          BY <3>1, <3>4, <4>0
        <5> QED
          BY <5>1, <5>2, <5>3
      <4>2. peer'[c] # "up" => requests'[c] = {}
        BY <1>0, <3>1 DEF Orderly
      <4>3. \A q \in Caller : Replied(c, q) => Replied(c, q)' \/ Head(inbox[c]) = [kind |-> "reply", call |-> q]
        <5> DEFINE u == inbox'[c]
                   h == Head(inbox[c])
                   v == inbox[c]
        <5>1. \A e : (\E i \in DOMAIN v : v[i] = e) => e = h \/ \E i \in DOMAIN u : u[i] = e
          <6>1. u = Tail(v) /\ v \in Seq(BackMsg) /\ v # <<>> /\ h = v[1]
            BY <3>1, <3>4, MailKept
          <6> HIDE DEF u, h, v
          <6> QED
            BY <6>1, MailTaken
        <5> QED
          BY <5>1 DEF Replied
      <4>h. Hears(c) /\ \A q \in Caller : ~Reads(c, q)
        BY <1>h, <1>i, <3>1, <3>4 DEF Reads
      <4>4. CASE state[d].current # 1 /\ pc'[d] = "select" /\ state' = state /\ redo'[d] = redo[d]
        <5>1. ~Hears(c)'
          BY <1>i, <3>4, <4>4 DEF Hears
        <5> QED
          BY <3>1, <3>4, <4>1, <4>2, <4>4, <5>1 DEF Orderly
      <4>5. CASE \E m \in BackMsg :
               /\ m = Head(inbox[d]) /\ Counted(d, 1)
               /\ pc'[d] = (IF m.kind = "reply" THEN "pull" ELSE "closing")
               /\ carries'[d] = m.call /\ redo'[d] = (m.kind = "close")
        <5>1. PICK m \in BackMsg :
               /\ m = Head(inbox[d]) /\ Counted(d, 1)
               /\ pc'[d] = (IF m.kind = "reply" THEN "pull" ELSE "closing")
               /\ carries'[d] = m.call /\ redo'[d] = (m.kind = "close")
          BY <4>5
        <5>2. CASE m.kind = "reply"
          <6>1. \A q \in Caller : Head(inbox[c]) = [kind |-> "reply", call |-> q] => Reads(c, q)'
            BY <3>4, <5>1, <5>2 DEF Reads
          <6>2. peer'[c] # "down" => \A q \in Caller : On(q)' /\ executed'[q] = 1 => Replied(c, q)' \/ Reads(c, q)'
            BY <1>0, <3>1, <4>3, <4>h, <6>1 DEF Orderly
          <6> QED
            BY <3>4, <4>1, <4>2, <5>1, <5>2, <6>2 DEF Orderly
        <5>3. CASE m.kind # "reply"
          <6>1. Len(inbox[c]) = 1 /\ peer[c] = "closing" /\ inbox[c][1].kind # "reply"
            <7>1. inbox[c][1].kind # "reply"
              BY <3>4, <4>0, <5>1, <5>3
            <7> QED
              BY <1>0, <4>0, <7>1 DEF Orderly
          <6>2. \A q \in Caller : ~Replied(c, q)
            <7> SUFFICES ASSUME NEW q \in Caller, Replied(c, q) PROVE FALSE
              OBVIOUS
            <7>1. PICK i \in DOMAIN inbox[c] : inbox[c][i] = [kind |-> "reply", call |-> q]
              BY DEF Replied
            <7>2. i = 1
              <8>1. i \in 1..Len(inbox[c])
                BY <3>1, <3>4
              <8> QED
                BY <6>1, <8>1
            <7> QED
              BY <6>1, <7>1, <7>2
          <6>3. \A q \in Caller : On(q) => executed[q] = 0
            <7>1. \A q \in Caller : On(q) => executed[q] # 1
              BY <1>0, <4>h, <6>1, <6>2 DEF Orderly
            <7>2. \A q \in Caller : executed[q] \in {0, 1}
              BY <1>0 DEF Once
            <7> QED
              BY <7>1, <7>2
          <6>4. \A q \in Caller : On(q)' => executed'[q] = 0
            BY <3>1, <6>3
          <6> QED
            <7>1. peer'[c] = "closing"
              BY <3>1, <6>1
            <7>2. redo'[c] => \A q \in Caller : ids'[q] = [conn |-> c, active |-> TRUE] => executed'[q] = 0
              BY <6>4
            <7>3. \A q \in Caller : ~(ids'[q] = [conn |-> c, active |-> TRUE] /\ executed'[q] = 1)
              <8> DEFINE rec == [conn |-> c, active |-> TRUE]
              <8>1. \A q \in Caller : ids'[q] = rec => executed'[q] = 0
                BY <6>4
              <8> HIDE DEF rec
              <8>2. \A q \in Caller : ~(ids'[q] = rec /\ executed'[q] = 1)
                BY <8>1
              <8> QED
                BY <8>2 DEF rec
            <7> QED
              BY <4>1, <4>2, <7>1, <7>2, <7>3 DEF Orderly
        <5> QED
          BY <5>2, <5>3
      <4> QED
        BY <3>2, <4>4, <4>5
    <3> QED
      BY <3>3, <3>4
  <2>3. CASE ReadEnd(d)
    <3>1. /\ Only(d) /\ Keeps(d) /\ Server /\ requests' = requests /\ ids' = ids /\ MayClose(d)
          /\ pc[d] = "reading" /\ pc'[d] = "select"
      BY <1>0, <2>3, ReadEndStep
    <3>2. Calm(d) /\ Recs
      BY <1>h, <1>i, <3>1 DEF Keeps, Recs
    <3>3. Still
      BY <1>o, <3>1
    <3> HIDE DEF Calm, Still
    <3> QED
      BY <1>k, <1>r, <2>d, <3>1, <3>2, <3>3
  <2>4. CASE Pull(d)
    <3>1. /\ Only(d) /\ Keeps(d) /\ pc[d] = "pull" /\ pc'[d] \in {"delete", "release"} /\ Server
          /\ requests' = requests /\ state' = state
          /\ \A p \in Caller : p # carries[d] => ids'[p] = ids[p]
          /\ \/ ids'[carries[d]] = [conn |-> ids[carries[d]].conn, active |-> FALSE]
             \/ ~ids[carries[d]].active /\ ids' = ids
      BY <1>0, <2>4, PullStep
    <3>2. ~ids'[carries[d]].active /\ Recs
      BY <3>1 DEF Recs
    <3>3. Calm(d)
      BY <1>h, <1>i, <3>1, <3>2 DEF Keeps, Reads
    <3> HIDE DEF Calm
    <3> QED
      BY <1>k, <1>r, <2>d, <3>1, <3>2, <3>3
  <2>5. CASE Delete(d) \/ Answer(d) \/ GiveBack(d)
    <3>1. /\ Only(d) /\ Keeps(d) /\ pc[d] \in Heard \ {"pull"} /\ pc'[d] \in {"answer", "giveback", "release"} /\ Server
          /\ requests' = requests /\ state' = state
      <4>1. CASE Delete(d)
        BY <1>0, <1>i, <4>1, DeleteStep
      <4>2. CASE Answer(d)
        BY <1>0, <1>i, <4>2, AnswerStep
      <4>3. CASE GiveBack(d)
        BY <1>0, <1>i, <4>3, GiveBackStep
      <4> QED
        BY <2>5, <4>1, <4>2, <4>3
    <3>2. Recs
      <4>1. CASE Delete(d)
        BY <1>0, <1>n, <4>1, DeleteStep DEF Recs
      <4>2. CASE Answer(d)
        BY <1>0, <4>2, AnswerStep DEF Recs
      <4>3. CASE GiveBack(d)
        BY <1>0, <4>3, GiveBackStep DEF Recs
      <4> QED
        BY <2>5, <4>1, <4>2, <4>3
    <3>3. Calm(d)
      BY <1>h, <1>i, <3>1 DEF Keeps
    <3> HIDE DEF Calm
    <3> QED
      BY <1>k, <1>r, <2>d, <3>1, <3>2, <3>3
  <2>6. CASE Release(d) \/ Closing(d)
    <3>1. /\ Only(d) /\ Server /\ requests' = requests /\ ids' = ids /\ Counted(d, -1) /\ redo'[d] = redo[d]
          /\ \/ pc[d] = "release" /\ pc'[d] = "reading"
             \/ pc[d] = "closing" /\ pc'[d] = "unlist"
      BY <1>0, <2>6, ReleaseStep
    <3>2. Calm(d) /\ Recs
      BY <1>h, <1>i, <3>1 DEF Recs
    <3>3. Still
      BY <1>m, <3>1
    <3> HIDE DEF Calm, Still
    <3> QED
      BY <1>k, <1>r, <2>d, <3>1, <3>2, <3>3
  <2> QED
    BY <1>3, <2>1, <2>2, <2>3, <2>4, <2>5, <2>6 DEF Reader
<1>4. ASSUME NEW p \in Caller, Begin(p) \/ CallStep(p) \/ TimeOut(p) \/ Cancel(p) PROVE Orderly(c)'
  <2>p. p \in Thread /\ p # c
    BY <1>c, Kinds
  <2>g. pc[p] \in Cancelling => ids[p].conn \in Conn
    BY CancelRecord DEF Gone
  <2>0. ASSUME Only(p), Server, requests' = requests, Still, Recs PROVE Orderly(c)'
    <3> HIDE DEF Still
    <3> QED
      BY <1>p, <2>0, <2>p
  <2>1. CASE Begin(p)
    <3>1. Only(p) /\ Server /\ requests' = requests /\ state' = state /\ ids' = ids
      BY <1>0, <2>1, BeginStep
    <3> QED
      BY <2>0, <3>1 DEF Recs
  <2>2. CASE Return(p)
    <3>1. Only(p) /\ Server /\ requests' = requests /\ state' = state /\ ids' = ids
      BY <1>0, <2>2, ReturnStep
    <3> QED
      BY <2>0, <3>1 DEF Recs
  <2>3. CASE SendCancel(p)
    <3>1. ids[p].conn \in Conn
      BY <2>3, <2>g DEF SendCancel, At, Cancelling
    <3>2. Only(p) /\ Server /\ requests' = requests /\ ids' = ids /\ MayClose(ids[p].conn)
      BY <1>0, <2>3, <3>1, SendCancelStep
    <3>3. Still
      BY <1>o, <3>1, <3>2
    <3> HIDE DEF Still
    <3> QED
      BY <2>0, <3>2, <3>3 DEF Recs
  <2>4. CASE DerefCancel(p)
    <3>1. ids[p].conn \in Conn
      BY <2>4, <2>g DEF DerefCancel, At, Cancelling
    <3>2. Only(p) /\ Server /\ requests' = requests /\ state' = state /\ ids' = ids
      BY <1>0, <2>4, <3>1, DerefCancelStep
    <3> QED
      BY <2>0, <3>2 DEF Recs
  <2>5. CASE DelCancel(p)
    <3>1. /\ Only(p) /\ Server /\ requests' = requests /\ state' = state
          /\ ids'[p] = NoRec /\ \A r \in Caller : r # p => ids'[r] = ids[r]
      BY <1>0, <2>5, DelCancelStep
    <3> QED
      BY <1>n, <2>0, <3>1 DEF Recs
  <2>6. CASE TimeOut(p)
    <3>1. /\ ids'[p] = NoRec /\ \A r \in Caller : r # p => ids'[r] = ids[r]
          /\ Server /\ requests' = requests /\ state' = state /\ UNCHANGED threadVars
      BY <1>0, <2>6, TimeOutStep
    <3>2. Only(p)
      BY <3>1 DEF Only
    <3> QED
      BY <1>n, <2>0, <3>1, <3>2 DEF Recs
  <2>7. CASE Cancel(p)
    <3>1. /\ Only(p) /\ Server /\ requests' = requests /\ state' = state
          /\ \A r \in Caller : r # p => ids'[r] = ids[r]
          /\ \/ ids'[p] = [conn |-> ids[p].conn, active |-> FALSE]
             \/ ids' = ids
      BY <1>0, <2>7, CancelStep
    <3> QED
      BY <2>0, <3>1 DEF Recs
  <2> QED
    BY <1>4, <2>1, <2>2, <2>3, <2>4, <2>5, <2>6, <2>7 DEF CallStep
<1>5. ASSUME NEW o \in OrbWorker, Pool(o) PROVE Orderly(c)'
  <2>o. o \in Thread /\ o # c
    BY Kinds
  <2>1. CASE TakeClose(o)
    <3>1. Only(o) /\ Server /\ requests' = requests /\ state' = state /\ ids' = ids
      BY <1>0, <2>1, TakeCloseStep
    <3> QED
      BY <1>p, <2>o, <3>1 DEF Recs
  <2>2. CASE TakeKill(o)
    <3>1. UNCHANGED threadVars /\ Server /\ requests' = requests /\ state' = state /\ ids' = ids
      BY <1>0, <2>2, TakeKillStep
    <3>2. Only(o)
      BY <3>1 DEF Only
    <3> QED
      BY <1>p, <2>o, <3>1, <3>2 DEF Recs
  <2> QED
    BY <1>5, <2>1, <2>2 DEF Pool
<1>6. ASSUME Shutdown PROVE Orderly(c)'
  <2>1. Only(Main) /\ Server /\ requests' = requests /\ state' = state /\ ids' = ids
    BY <1>0, <1>6, ShutdownStep
  <2>2. Main \in Thread /\ Main # c
    BY Kinds
  <2> QED
    BY <1>p, <2>1, <2>2 DEF Recs
<1>7. ASSUME NEW t \in Thread, invoke(t) PROVE Orderly(c)'
  <2>0. ASSUME Only(t), Server, Writes, Still, ids' = ids, pc'[t] \in Invoking \cup {"pending"}
               \/ t \notin Conn, redo'[t] = redo[t], pc[t] \in Invoking
        PROVE  Orderly(c)'
    <3>1. t = c => /\ pc'[c] \notin Heard \cup {"unlist", "select"} /\ (redo'[c] => redo[c]) /\ pc[c] # "pull"
      BY <1>i, <2>0
    <3>2. Recs
      BY <2>0 DEF Recs
    <3> HIDE DEF Still, Writes
    <3> QED
      BY <1>p, <2>0, <3>1, <3>2
  <2>1. CASE Lookup(t)
    <3>1. /\ Only(t) /\ pc[t] = "lookup" /\ pc'[t] \in {"ref", "connect"} /\ redo'[t] = redo[t]
          /\ Server /\ requests' = requests /\ state' = state /\ ids' = ids
      BY <1>0, <2>1, LookupStep
    <3> QED
      BY <1>i, <2>0, <3>1
  <2>2. CASE FindConn(t) \/ Cache(t)
    <3>1. /\ Only(t) /\ pc[t] \in {"connect", "cache"} /\ pc'[t] \in {"cache", "ref"} /\ redo'[t] = redo[t]
          /\ Server /\ requests' = requests /\ state' = state /\ ids' = ids
      BY <1>0, <2>2, FindStep
    <3> QED
      BY <1>i, <2>0, <3>1
  <2>3. CASE NewConn(t)
    <3>1. PICK n \in Conn : n = conns'
      BY <1>0, <2>3, NewConnStep
    <3>2. /\ pc[t] = "connect" /\ pc'[t] = "cache" /\ pc[n] = "idle" /\ pc'[n] = "select" /\ life[n] = "none"
          /\ \A u \in Thread : u # t /\ u # n => pc'[u] = pc[u]
          /\ \A e \in Conn : e # n => state'[e] = state[e]
          /\ Server /\ requests' = requests /\ ids' = ids /\ carries' = carries /\ redo' = redo
      BY <1>0, <2>3, <3>1, NewConnStep
    <3>3. CASE c = n
      <4>1. /\ peer[c] = "up" /\ inbox[c] = <<>> /\ \A q \in Caller : ids[q].conn # c
        BY <1>0, <3>2, <3>3 DEF Unborn
      <4>2. \A q \in Caller : ~On(q)'
        BY <1>n, <3>2, <4>1
      <4>3. ~redo'[c]
        BY <1>0, <1>c, <1>i, <3>2, <3>3 DEF ThreadShape, Place, KillsAt
      <4>4. \A i \in DOMAIN inbox'[c] : FALSE
        BY <3>2, <4>1
      <4> QED
        BY <3>2, <3>3, <4>1, <4>2, <4>3, <4>4 DEF Orderly
    <3>4. CASE c # n
      <4>1. pc'[c] \in {"closing", "unlist"} => pc[c] \in {"closing", "unlist"}
        BY <1>c, <3>2, <3>4
      <4>2. Hears(c)' => Hears(c)
        BY <1>c, <1>i, <3>2, <3>4 DEF Hears
      <4>3. \A q \in Caller : Reads(c, q) => Reads(c, q)'
        BY <1>c, <3>2, <3>4 DEF Reads
      <4> QED
        BY <1>0, <3>2, <4>1, <4>2, <4>3, OrderlyKept
    <3> QED
      BY <3>3, <3>4
  <2>4. CASE NoConnection(t)
    <3>1. /\ Only(t) /\ pc[t] = "connect" /\ redo'[t] = redo[t] /\ (t \in Conn => pc'[t] = "pending")
          /\ Server /\ requests' = requests /\ state' = state /\ ids' = ids
      BY <1>0, <2>4, NoConnectionStep
    <3> QED
      BY <1>i, <2>0, <3>1
  <2>5. CASE Ref(t)
    <3>1. /\ Only(t) /\ Keeps(t) /\ pc[t] = "ref" /\ pc'[t] = "add" /\ Counted(on[t], 1) /\ on[t] \in Conn
          /\ Server /\ requests' = requests /\ ids' = ids
      BY <1>0, <2>5, RefStep
    <3>2. Still
      BY <1>m, <3>1
    <3> HIDE DEF Still
    <3> QED
      BY <1>i, <2>0, <3>1, <3>2 DEF Keeps
  <2>6. CASE AddInvoke(t)
    <3>1. /\ Only(t) /\ Keeps(t) /\ pc[t] = "add" /\ pc'[t] = "output" /\ carries[t] \in Caller
          /\ Server /\ requests' = requests /\ state' = state
          /\ \/ ids' = ids
             \/ \A r \in Caller : r # carries[t] => ids'[r] = ids[r]
      BY <1>0, <2>6, AddStep
    <3>2. executed[carries[t]] = 0
      <4>1. Sends(t, carries[t])
        BY <1>i, <3>1 DEF Sends
      <4> QED
        BY <1>0, <3>1, <4>1 DEF Once
    <3>3. New
      BY <3>1, <3>2 DEF New
    <3>4. Calm(t)
      BY <1>h, <1>i, <3>1 DEF Keeps
    <3> HIDE DEF Calm
    <3> QED
      BY <1>k, <3>1, <3>3, <3>4
  <2>7. CASE Output(t)
    <3>1. /\ Only(t) /\ Keeps(t) /\ pc[t] = "output" /\ pc'[t] = "deref" /\ ids' = ids /\ on[t] \in Conn
          /\ Server /\ MayClose(on[t])
          /\ \A e \in Conn : e # on[t] => requests'[e] = requests[e]
          /\ requests'[on[t]] # requests[on[t]] => peer[on[t]] = "up"
      BY <1>0, <2>7, OutputStep
    <3>2. Still /\ Writes
      BY <1>o, <3>1
    <3> HIDE DEF Still, Writes
    <3> QED
      BY <1>i, <2>0, <3>1, <3>2 DEF Keeps
  <2>8. CASE ActiveDeref(t)
    <3>1. /\ Only(t) /\ pc[t] = "deref" /\ on[t] \in Conn /\ Counted(on[t], -1) /\ redo'[t] = redo[t]
          /\ Server /\ requests' = requests /\ ids' = ids
          /\ t \in Conn => pc'[t] = "pending"
      <4>1. \A r \in Caller : r \notin Conn
        BY Kinds
      <4>2. Oneway \subseteq Caller
        BY ConstantsAssumption DEF ConstantsAssumption
      <4>3. /\ Only(t) /\ pc[t] = "deref" /\ on[t] \in Conn /\ Counted(on[t], -1) /\ redo'[t] = redo[t]
            /\ Server /\ requests' = requests /\ ids' = ids
            /\ pc'[t] = "pending" \/ t \in Caller
        BY <1>0, <2>8, <4>2, ActiveDerefStep DEF Own
      <4> QED
        BY <4>1, <4>3
    <3>2. Still
      BY <1>m, <3>1
    <3> HIDE DEF Still
    <3> QED
      BY <1>i, <2>0, <3>1, <3>2
  <2> QED
    BY <1>7, <2>1, <2>2, <2>3, <2>4, <2>5, <2>6, <2>7, <2>8 DEF invoke
<1>8. ASSUME NEW t \in Thread, kill_conn(t) PROVE Orderly(c)'
  <2>0. ASSUME Only(t), Keeps(t), Server, requests' = requests, Still, Recs,
               pc[t] \in Killing, pc'[t] \in Killing \cup Invoking, pc'[t] # "unlist"
        PROVE  Orderly(c)'
    <3>1. t = c => /\ pc'[c] \notin Heard \cup {"unlist", "select"} /\ (redo'[c] => redo[c]) /\ pc[c] # "pull"
      BY <1>i, <2>0 DEF Keeps
    <3> HIDE DEF Still
    <3> QED
      BY <1>p, <2>0, <3>1
  <2>1. CASE Unlist(t)
    <3>1. /\ Only(t) /\ pc[t] = "unlist" /\ Server /\ requests' = requests /\ state' = state /\ ids' = ids
          /\ \/ pc'[t] = "uncache" /\ Keeps(t)
             \/ pc'[t] \in {"select", "done", "idle"} /\ ~redo'[t]
      BY <1>0, <2>1, UnlistStep DEF Left
    <3>2. Calm(t) /\ Recs
      BY <1>h, <1>i, <3>1 DEF Keeps, Recs
    <3> HIDE DEF Calm
    <3> QED
      BY <1>k, <1>r, <3>1, <3>2
  <2>2. CASE Uncache(t)
    <3>1. /\ Only(t) /\ Keeps(t) /\ pc[t] = "uncache" /\ pc'[t] = "shutdown" /\ Server /\ requests' = requests
          /\ ids' = ids /\ victim[t] \in Conn /\ state'[victim[t]].current = state[victim[t]].current
          /\ \A e \in Conn : e # victim[t] => state'[e] = state[e]
      BY <1>0, <2>2, UncacheStep
    <3>2. Still
      BY <3>1
    <3> HIDE DEF Still
    <3> QED
      BY <1>i, <2>0, <3>1, <3>2 DEF Recs
  <2>3. CASE ShutdownEffective(t) \/ TerminatedEffective(t)
    <3>1. /\ Only(t) /\ Keeps(t) /\ pc[t] \in {"shutdown", "terminated"} /\ pc'[t] \in {"join", "pending"}
          /\ Server /\ requests' = requests /\ ids' = ids /\ victim[t] \in Conn
          /\ state'[victim[t]].current = (IF state[victim[t]].new > state[victim[t]].current
                                           THEN state[victim[t]].new ELSE state[victim[t]].current)
          /\ \A e \in Conn : e # victim[t] => state'[e] = state[e]
      BY <1>0, <2>3, EffectiveStep
    <3>2. Still
      <4>1. CASE c = victim[t]
        <5>1. Stage(t, pc[t]) \in {2, 4} /\ Kills(t, c)
          BY <3>1, <4>1, Stages DEF Kills
        <5>2. Born(c)
          BY <1>0, <4>1, BornWhen
        <5>3. state[c].new \in {3, 4} /\ state[c].current \in {1, 2, 3}
          BY <1>0, <5>1, <5>2 DEF Phase, Staged
        <5> QED
          BY <3>1, <4>1, <5>3
      <4>2. CASE c # victim[t]
        BY <3>1, <4>2
      <4> QED
        BY <4>1, <4>2
    <3> HIDE DEF Still
    <3> QED
      BY <1>i, <2>0, <3>1, <3>2 DEF Recs
  <2>4. CASE Join(t)
    <3>1. /\ Only(t) /\ Keeps(t) /\ pc[t] = "join" /\ pc'[t] = "terminated" /\ victim[t] \in Conn
          /\ peer' = peer /\ requests' = requests /\ executed' = executed /\ ids' = ids
          /\ t = victim[t] \/ pc[victim[t]] = "done"
          /\ state'[victim[t]].current = state[victim[t]].current
          /\ \A e \in Conn : e # victim[t] => state'[e] = state[e] /\ inbox'[e] = inbox[e]
          /\ inbox'[victim[t]] = <<>>
      BY <1>0, <2>4, JoinStep
    <3>2. CASE c # victim[t]
      <4>1. Still /\ inbox'[c] = inbox[c]
        BY <3>1, <3>2
      <4>2. t = c => /\ pc'[c] \notin Heard \cup {"unlist", "select"} /\ (redo'[c] => redo[c]) /\ pc[c] # "pull"
        BY <1>i, <3>1 DEF Keeps
      <4>3. Recs
        BY <3>1 DEF Recs
      <4> HIDE DEF Still
      <4> QED
        BY <1>p, <3>1, <4>1, <4>2, <4>3
    <3>3. CASE c = victim[t]
      <4>1. pc'[c] \in {"terminated", "done"}
        BY <1>c, <3>1, <3>3 DEF Only
      <4>2. ~Hears(c)' /\ pc'[c] \notin {"closing", "unlist"}
        BY <1>h, <1>i, <4>1
      <4>3. redo'[c] = redo[c]
        BY <1>c, <3>1 DEF Only, Keeps
      <4>4. \A i \in DOMAIN inbox'[c] : FALSE
        BY <3>1, <3>3
      <4>5. redo'[c] => /\ peer'[c] = "closing"
                        /\ \A q \in Caller : On(q)' => executed'[q] = 0
        BY <1>0, <3>1, <4>3 DEF Orderly
      <4>6. peer'[c] # "up" => requests'[c] = {}
        BY <1>0, <3>1 DEF Orderly
      <4> QED
        BY <4>2, <4>4, <4>5, <4>6 DEF Orderly
    <3> QED
      BY <3>2, <3>3
  <2>5. CASE NextPending(t)
    <3>1. /\ Only(t) /\ pc[t] = "pending" /\ pc'[t] \in {"redo", "abort"} /\ redo'[t] = redo[t] /\ Server
          /\ requests' = requests /\ state' = state /\ ids' = ids
      BY <1>0, <2>5, NextPendingStep
    <3>2. t = c => /\ pc'[c] \notin Heard \cup {"unlist", "select"} /\ (redo'[c] => redo[c]) /\ pc[c] # "pull"
      BY <1>i, <3>1
    <3> QED
      BY <1>p, <3>1, <3>2 DEF Recs
  <2>6. CASE Abort(t) \/ Redo(t)
    <3>1. /\ Only(t) /\ Keeps(t) /\ pc[t] \in {"abort", "redo"} /\ Server /\ requests' = requests /\ state' = state
          /\ ids'[carries[t]] = NoRec /\ \A r \in Caller : r # carries[t] => ids'[r] = ids[r]
          /\ pc'[t] \in {"pending", "lookup"}
      BY <1>0, <2>6, DropStep
    <3>2. Recs
      BY <1>n, <3>1 DEF Recs
    <3> QED
      BY <1>i, <2>0, <3>1, <3>2
  <2>7. CASE KillEnd(t)
    <3>1. /\ Only(t) /\ pc[t] = "pending" /\ pc'[t] \in {"select", "done", "idle"} /\ ~redo'[t] /\ Server
          /\ requests' = requests /\ state' = state /\ ids' = ids
      BY <1>0, <2>7, KillEndStep DEF Left
    <3>2. t = c => ~Hears(c)'
      <4> SUFFICES ASSUME t = c PROVE ~Hears(c)'
        OBVIOUS
      <4>1. Stage(t, pc[t]) = 5
        BY <3>1, Stages
      <4>2. Kills(t, c)
        BY <1>0, <4>1, StageKills
      <4>3. Born(c)
        BY <1>0, <3>1, BornWhen DEF Born
      <4>4. state[c].current = 4
        BY <1>0, <4>1, <4>2, <4>3, PhaseStates
      <4> QED
        BY <1>i, <3>1, <4>4 DEF Hears
    <3>3. Calm(t) /\ Recs
      BY <3>1, <3>2 DEF Recs
    <3> HIDE DEF Calm
    <3> QED
      BY <1>k, <1>r, <3>1, <3>3
  <2> QED
    BY <1>8, <2>1, <2>2, <2>3, <2>4, <2>5, <2>6, <2>7 DEF kill_conn
<1>9. ASSUME NEW t \in Thread, Fail(t) PROVE Orderly(c)'
  <2>1. UNCHANGED threadVars /\ Server /\ requests' = requests /\ state' = state /\ ids' = ids
    BY <1>0, <1>9, FailStep
  <2>2. (Hears(c)' <=> Hears(c)) /\ \A q \in Caller : Reads(c, q)' <=> Reads(c, q)
    BY <2>1 DEF Hears, Reads
  <2> QED
    BY <1>0, <2>1, <2>2, OrderlyKept
<1> QED
  BY <1>1, <1>3, <1>4, <1>5, <1>6, <1>7, <1>8, <1>9, Steps

\* No step but the last touches fault, and all keep the shape.
LEMMA ShapeInv ==
  ASSUME Inv, Next
  PROVE  Shape' /\ (fault' = fault \/ \E t \in Thread : Fail(t))
<1> USE DEF serverVars, callVars, connVars, cacheVars, threadVars
<1>0. Shape
  BY Before
<1>1. ASSUME NEW c \in Conn, Serve(c) \/ Crash(c) \/ \E k \in {"close", "error"} : ServerCloses(c, k)
      PROVE  Shape' /\ fault' = fault
  BY <1>0, <1>1, PeerStep
<1>2. ASSUME NEW c \in Conn, Reader(c)
      PROVE  Shape' /\ fault' = fault
  <2>1. CASE Select(c) \/ LeaveLoop(c)
    BY <1>0, <2>1, SelectStep
  <2>2. CASE Read(c)
    BY <1>0, <2>2, ReadStep
  <2>3. CASE ReadEnd(c)
    BY <1>0, <2>3, ReadEndStep
  <2>4. CASE Pull(c)
    BY <1>0, <2>4, PullStep
  <2>5. CASE Delete(c)
    BY <1>0, <2>5, DeleteStep
  <2>6. CASE Answer(c)
    BY <1>0, <2>6, AnswerStep
  <2>7. CASE GiveBack(c)
    BY <1>0, <2>7, GiveBackStep
  <2>8. CASE Release(c) \/ Closing(c)
    BY <1>0, <2>8, ReleaseStep
  <2> QED
    BY <1>2, <2>1, <2>2, <2>3, <2>4, <2>5, <2>6, <2>7, <2>8 DEF Reader
<1>3. ASSUME NEW q \in Caller, Begin(q) \/ CallStep(q) \/ TimeOut(q) \/ Cancel(q)
      PROVE  Shape' /\ fault' = fault
  <2>1. CASE Begin(q)
    BY <1>0, <2>1, BeginStep
  <2>2. CASE Return(q)
    BY <1>0, <2>2, ReturnStep
  <2>3. CASE SendCancel(q)
    <3>1. pc[q] \in Gone
      BY <2>3 DEF SendCancel, At, Gone, Cancelling
    <3> QED
      BY <1>0, <2>3, <3>1, CancelRecord, SendCancelStep
  <2>4. CASE DerefCancel(q)
    <3>1. pc[q] \in Gone
      BY <2>4 DEF DerefCancel, At, Gone, Cancelling
    <3> QED
      BY <1>0, <2>4, <3>1, CancelRecord, DerefCancelStep
  <2>5. CASE DelCancel(q)
    BY <1>0, <2>5, DelCancelStep
  <2>6. CASE TimeOut(q)
    BY <1>0, <2>6, TimeOutStep
  <2>7. CASE Cancel(q)
    BY <1>0, <2>7, CancelStep
  <2> QED
    BY <1>3, <2>1, <2>2, <2>3, <2>4, <2>5, <2>6, <2>7 DEF CallStep
<1>4. ASSUME NEW o \in OrbWorker, Pool(o)
      PROVE  Shape' /\ fault' = fault
  <2>1. CASE TakeClose(o)
    BY <1>0, <2>1, TakeCloseStep
  <2>2. CASE TakeKill(o)
    BY <1>0, <2>2, TakeKillStep
  <2> QED
    BY <1>4, <2>1, <2>2 DEF Pool
<1>5. ASSUME Shutdown
      PROVE  Shape' /\ fault' = fault
  BY <1>0, <1>5, ShutdownStep
<1>6. ASSUME NEW t \in Thread, invoke(t)
      PROVE  Shape' /\ fault' = fault
  <2>1. CASE Lookup(t)
    BY <1>0, <2>1, LookupStep
  <2>2. CASE FindConn(t) \/ Cache(t)
    BY <1>0, <2>2, FindStep
  <2>3. CASE NewConn(t)
    BY <1>0, <2>3, NewConnStep
  <2>4. CASE NoConnection(t)
    BY <1>0, <2>4, NoConnectionStep
  <2>5. CASE Ref(t)
    BY <1>0, <2>5, RefStep
  <2>6. CASE AddInvoke(t)
    BY <1>0, <2>6, AddStep
  <2>7. CASE Output(t)
    BY <1>0, <2>7, OutputStep
  <2>8. CASE ActiveDeref(t)
    BY <1>0, <2>8, ActiveDerefStep
  <2> QED
    BY <1>6, <2>1, <2>2, <2>3, <2>4, <2>5, <2>6, <2>7, <2>8 DEF invoke
<1>7. ASSUME NEW t \in Thread, kill_conn(t)
      PROVE  Shape' /\ fault' = fault
  <2>1. CASE Unlist(t)
    BY <1>0, <2>1, UnlistStep
  <2>2. CASE Uncache(t)
    BY <1>0, <2>2, UncacheStep
  <2>3. CASE ShutdownEffective(t) \/ TerminatedEffective(t)
    BY <1>0, <2>3, EffectiveStep
  <2>4. CASE Join(t)
    BY <1>0, <2>4, JoinStep
  <2>5. CASE NextPending(t)
    BY <1>0, <2>5, NextPendingStep
  <2>6. CASE Abort(t) \/ Redo(t)
    BY <1>0, <2>6, DropStep
  <2>7. CASE KillEnd(t)
    BY <1>0, <2>7, KillEndStep
  <2> QED
    BY <1>7, <2>1, <2>2, <2>3, <2>4, <2>5, <2>6, <2>7 DEF kill_conn
<1>8. ASSUME NEW t \in Thread, Fail(t)
      PROVE  Shape'
  BY <1>0, <1>8, FailStep
<1> QED
  BY <1>1, <1>2, <1>3, <1>4, <1>5, <1>6, <1>7, <1>8, Steps

\* What no step changes holds on.
LEMMA Stutter ==
  ASSUME Inv, UNCHANGED vars
  PROVE  Inv'
<1> USE DEF vars, serverVars, callVars, connVars, cacheVars, threadVars
<1>1. Shape'
  BY DEF Inv, Shape, ThreadShape, DataShape, ServerShape, CallShape, ConnShape, CacheShape, IdShape,
         RestShape, LifeShape
<1>2. ASSUME NEW c \in Conn PROVE Unborn(c)' /\ Phase(c)' /\ Active(c)' /\ Refs(c)' /\ Orderly(c)'
  <2>0. Unborn(c) /\ Phase(c) /\ Active(c) /\ Refs(c) /\ Orderly(c)
    BY Before
  <2>1. Unborn(c)'
    BY <2>0 DEF Unborn
  <2>2. Phase(c)'
    BY <2>0 DEF Phase, Born, Kills
  <2>3. Active(c)'
    BY <2>0 DEF Active, Born, ActiveHolders, Entry
  <2>4. Refs(c)'
    BY <2>0 DEF Refs, Born, HeldRecs, Owned, Kills
  <2>5. Orderly(c)'
    BY <2>0 DEF Orderly, Hears, Replied, Reads
  <2> QED
    BY <2>1, <2>2, <2>3, <2>4, <2>5
<1>3. ASSUME NEW q \in Own PROVE Token(q)'
  <2>1. Token(q)
    BY Before
  <2> QED
    BY <2>1 DEF Token, Has, Adds, Answers, Deletes, Drops
<1>4. ASSUME NEW q \in Caller PROVE Outcome(q)' /\ Once(q)' /\ \A c \in Conn : Kept(q, c)'
  <2>0. Outcome(q) /\ Once(q) /\ \A c \in Conn : Kept(q, c)
    BY Before
  <2>1. Outcome(q)'
    BY <2>0 DEF Outcome, Adds, Answers
  <2>2. Once(q)'
    BY <2>0 DEF Once, Sends, Replied, Reads
  <2>3. \A c \in Conn : Kept(q, c)'
    BY <2>0 DEF Kept, Has, Adds, Answers
  <2> QED
    BY <2>1, <2>2, <2>3
<1>5. Slots'
  BY Before DEF Slots
<1> QED
  BY <1>1, <1>2, <1>3, <1>4, <1>5 DEF Inv, Parts

\* A connection is created, cached, used, broken and killed, a call is sent,
\* answered, given up and sent again, by any number of threads: the parts hold
\* all the time.
THEOREM Invariance == Spec => []Inv
<1>1. Init => Inv
  BY InitShape, InitParts DEF Inv
<1>2. Inv /\ [Next]_vars => Inv'
  <2> SUFFICES ASSUME Inv, [Next]_vars PROVE Inv'
    OBVIOUS
  <2>1. CASE Next
    <3>1. Shape'
      BY <2>1, ShapeInv
    <3>2. \A c \in Conn : Unborn(c)' /\ Phase(c)' /\ Active(c)' /\ Refs(c)' /\ Orderly(c)'
      BY <2>1, UnbornInv, PhaseInv, ActiveInv, RefsInv, OrderlyInv
    <3>3. \A q \in Own : Token(q)'
      BY <2>1, TokenInv
    <3>4. \A q \in Caller : Outcome(q)' /\ Once(q)' /\ \A c \in Conn : Kept(q, c)'
      BY <2>1, OutcomeInv, OnceInv, KeptInv
    <3>5. Slots'
      BY <2>1, SlotsInv
    <3> QED
      BY <3>1, <3>2, <3>3, <3>4, <3>5 DEF Inv, Parts
  <2>2. CASE UNCHANGED vars
    BY <2>2, Stutter
  <2> QED
    BY <2>1, <2>2
<1> QED
  BY <1>1, <1>2, PTL DEF Spec

-----------------------------------------------------------------------------
(***************************************************************************)
(* What follows from the invariant.                                        *)
(***************************************************************************)
\* A connection on which a call counts is open.
LEMMA Counts ==
  ASSUME Inv, NEW c \in Conn
  PROVE  /\ \A q \in Caller : Holder(q, c) => Born(c) /\ life[c] = "open" /\ refcnt[c] > 0
         /\ Owned(c) => Born(c) /\ life[c] = "open" /\ refcnt[c] > 0
         /\ refcnt[c] \in 0..(Cardinality(Caller) + 1)
<1>0. Shape /\ Unborn(c) /\ Phase(c) /\ Refs(c)
  BY Before
<1>1. Cardinality(HeldRecs(c)) \in Nat /\ Cardinality(HeldRecs(c)) <= Cardinality(Caller)
  BY Records
<1>2. \A q \in Caller : Holder(q, c) => Cardinality(HeldRecs(c)) # 0
  BY Records
<1>3. Cardinality(Caller) \in Nat
  BY ConstantsAssumption, FS_CardinalityType DEF ConstantsAssumption
<1>4. Born(c) => refcnt[c] = Cardinality(HeldRecs(c)) + (IF Owned(c) THEN 1 ELSE 0)
  BY <1>0 DEF Refs
<1>5. Born(c) /\ refcnt[c] > 0 => life[c] = "open"
  BY <1>0, BornWhen DEF Refs
<1>6. ~Born(c) => refcnt[c] = 0
  BY <1>0 DEF Unborn, Born
<1>7. \A q \in Caller : Holder(q, c) => Born(c)
  BY <1>0, BornWhen
<1>8. Owned(c) => Born(c)
  BY <1>0, BornWhen DEF Owned, Kills
<1> HIDE DEF Holder, Owned, Born
<1>9. /\ \A q \in Caller : Holder(q, c) => Born(c) /\ refcnt[c] > 0
      /\ Owned(c) => Born(c) /\ refcnt[c] > 0
  BY <1>1, <1>2, <1>4, <1>7, <1>8
<1>10. refcnt[c] \in 0..(Cardinality(Caller) + 1)
  BY <1>1, <1>3, <1>4, <1>6
<1> QED
  BY <1>5, <1>9, <1>10

\* What kill_conn() is given keeps its own reference meanwhile.
LEMMA Killed ==
  ASSUME Inv, NEW t \in Thread, pc[t] \in Killing \ {"unlist"}
  PROVE  victim[t] \in Conn /\ Owned(victim[t])
<1>1. ThreadShape /\ Stage(t, pc[t]) > 0
  BY Before, Stages DEF Killing
<1> QED
  BY <1>1, StageKills DEF Owned

\* No thread uses a deleted connection through a pointer that has a reference.
LEMMA NothingStale ==
  ASSUME Inv, NEW t \in Thread, UsesDeleted(t)
  PROVE  UsesLate(t)
<1>0. Shape /\ ThreadShape
  BY Before
<1>1. SUFFICES ASSUME ~UsesLate(t) PROVE FALSE
  OBVIOUS
<1>2. Uses(t, pc[t]) # NoConn /\ life[Uses(t, pc[t])] # "open"
  BY DEF UsesDeleted
<1>p. pc[t] \in PcOf(t)
  BY <1>0 DEF ThreadShape, Place
<1>u. /\ pc[t] \in Sending => Uses(t, pc[t]) = on[t]
      /\ pc[t] \in Cancelling => Uses(t, pc[t]) = ids[t].conn
      /\ pc[t] \in Killing => Uses(t, pc[t]) = victim[t]
      /\ pc[t] \in Reading => Uses(t, pc[t]) = t
      /\ pc[t] \notin Sending \cup Cancelling \cup Killing \cup Reading => Uses(t, pc[t]) = NoConn
  <2> DEFINE l == pc[t]
  <2>1. /\ l \in Sending => l \notin Cancelling \cup Killing \cup Reading
        /\ l \in Cancelling => l \notin Killing \cup Reading
        /\ l \in Killing => l \notin Reading
    BY DEF Sending, Cancelling, Killing, Reading, Handling
  <2> HIDE DEF l
  <2>2. /\ l \in Sending => Uses(t, l) = on[t]
        /\ l \in Cancelling => Uses(t, l) = ids[t].conn
        /\ l \in Killing => Uses(t, l) = victim[t]
        /\ l \in Reading => Uses(t, l) = t
        /\ l \notin Sending \cup Cancelling \cup Killing \cup Reading => Uses(t, l) = NoConn
    BY <2>1 DEF Uses
  <2> QED
    BY <2>2 DEF l
<1>3. CASE pc[t] \in Sending
  <2>1. Uses(t, pc[t]) = on[t]
    BY <1>3, <1>u
  <2>2. on[t] \in Conn
    BY <1>0, <1>3, Sender DEF HasOn
  <2>3. Holds(t, on[t])
    BY <1>3 DEF Holds
  <2>4. Unborn(on[t]) /\ Phase(on[t]) /\ Active(on[t])
    BY <2>2, Before
  <2> QED
    BY <1>0, <1>2, <2>1, <2>2, <2>3, <2>4, InUse
<1>4. CASE pc[t] \in Cancelling
  <2>1. t \in Caller
    BY <1>4, <1>p DEF PcOf, Cancelling, Invoking, Early, Reading, Handling, Killing
  <2>2. ids[t].conn \in Conn /\ Uses(t, pc[t]) = ids[t].conn
    BY <1>4, <1>u, <2>1, CancelRecord DEF Gone
  <2>3. Holder(t, ids[t].conn)
    BY <1>4 DEF Holder, Cancelling
  <2> QED
    BY <1>2, <2>1, <2>2, <2>3, Counts
<1>5. CASE pc[t] \in Killing
  <2>1. Uses(t, pc[t]) = victim[t]
    BY <1>5, <1>u
  <2>2. victim[t] \in Conn /\ (t \in Conn => victim[t] = t)
    BY <1>0, <1>5, KillersOf
  <2>3. CASE pc[t] = "unlist"
    <3>1. t \in Conn
      BY <1>1, <2>3 DEF UsesLate
    <3>2. life[t] = "open"
      BY <1>0, <2>3, <3>1, Before, BornWhen
    <3> QED
      BY <1>2, <2>1, <2>2, <3>1, <3>2
  <2>4. CASE pc[t] # "unlist"
    BY <1>2, <1>5, <2>1, <2>2, <2>4, Killed, Counts
  <2> QED
    BY <2>3, <2>4
<1>6. CASE pc[t] \in Reading
  <2>1. t \in Conn
    BY <1>6, <1>p DEF PcOf, Cancelling, Invoking, Early, Reading, Handling, Killing
  <2>2. Uses(t, pc[t]) = t
    BY <1>6, <1>u
  <2>3. pc[t] \notin {"idle", "done"}
    BY <1>6 DEF Reading, Handling
  <2>4. life[t] = "open"
    BY <1>0, <2>1, <2>3, Before, BornWhen
  <2> QED
    BY <1>2, <2>2, <2>4
<1>7. CASE pc[t] \notin Sending \cup Cancelling \cup Killing \cup Reading
  <2>1. Uses(t, pc[t]) = NoConn
    BY <1>7, <1>u
  <2> QED
    BY <1>2, <2>1
<1> QED
  BY <1>3, <1>4, <1>5, <1>6, <1>7

\* An assertion about a call fails for a call its caller gives up only.
LEMMA OvertakenOnly ==
  ASSUME Inv, NEW t \in Thread, AbortsCall(t)
  PROVE  carries[t] \in Impatient
<1>0. ThreadShape
  BY Before
<1>p. /\ Place(t, pc[t], on[t], victim[t], redo[t], carries[t])
      /\ pc[t] \in PcOf(t)
  BY <1>0 DEF ThreadShape, Place
<1>k. Own \subseteq Caller
  BY Kinds
<1>1. CASE At(t, "answer") /\ ~AnswerOK(carries[t])
  <2>1. pc[t] = "answer" /\ outcome[carries[t]] # "none"
    BY <1>1 DEF At, AnswerOK
  <2>2. t \in Conn
    BY <1>p, <2>1 DEF PcOf, Cancelling, Invoking, Early, Reading, Handling, Killing
  <2>3. carries[t] \in Caller
    BY <1>k, <2>1, <2>2, Before, HandledCall DEF Handling
  <2>4. outcome[carries[t]] = "none"
    BY <2>1, <2>2, <2>3, Before DEF Outcome, Answers
  <2> QED
    BY <2>1, <2>4
<1>2. CASE \E l \in {"abort", "redo"} : /\ At(t, l)
                                        /\ ~ids[carries[t]].active \/ (~AnswerOK(carries[t]) /\ l = "abort")
  <2>1. pc[t] \in {"abort", "redo"} /\ (~ids[carries[t]].active \/ outcome[carries[t]] # "none")
    BY <1>2 DEF At, AnswerOK
  <2>2. PICK q \in Own : q = carries[t]
    BY <1>0, <2>1, KillersOf DEF Killing
  <2>3. Drops(t, q) /\ Token(q) /\ Outcome(q)
    BY <1>k, <2>1, <2>2, Before DEF Drops
  <2>4. victim[t] \in Conn
    BY <1>0, <2>1, KillersOf DEF Killing
  <2>5. \/ ids[q] = [conn |-> victim[t], active |-> TRUE]
        \/ q \in Impatient
    BY <2>3 DEF Token
  <2>6. CASE ids[q] = [conn |-> victim[t], active |-> TRUE]
    <3>1. ids[q].conn \in Conn /\ ids[q].active
      BY <2>4, <2>6
    <3>2. outcome[q] = "none"
      BY <2>3, <3>1 DEF Outcome
    <3> QED
      BY <2>1, <2>2, <3>1, <3>2
  <2> QED
    BY <2>2, <2>5, <2>6
<1>3. CASE t \in Impatient
  <2>1. t \in Caller
    BY <1>3, Kinds
  <2> QED
    BY <1>3, <1>p, <2>1 DEF Place
<1>4. CASE pc[t] \in UsesRequest /\ Dropped(carries[t])
  <2>1. pc[t] \in {"add", "delete"} /\ status[carries[t]] = "gone"
    BY <1>4 DEF UsesRequest, Dropped
  <2>2. carries[t] \in Caller
    BY <1>k, <1>p, <2>1 DEF Place, Handles, Handling, Invoking, Early
  <2>3. Outcome(carries[t])
    BY <2>2, Before
  <2> QED
    BY <2>1, <2>2, <2>3 DEF Outcome
<1> QED
  BY <1>1, <1>2, <1>3, <1>4 DEF AbortsCall

\* No assertion about a connection fails.
LEMMA NoAbort ==
  ASSUME Inv, NEW t \in Thread
  PROVE  ~Aborts(t)
<1>0. Shape /\ ThreadShape /\ ConnShape /\ RestShape
  BY Before
<1>1. ~(t \in Conn /\ At(t, "giveback") /\ refcnt[t] = 0)
  <2> SUFFICES ASSUME t \in Conn, At(t, "giveback"), refcnt[t] = 0 PROVE FALSE
    OBVIOUS
  <2>1. pc[t] = "giveback"
    BY DEF At
  <2>2. PICK q \in Caller : q = carries[t]
    BY <1>0, <2>1, HandledCall DEF Handling
  <2>3. Holder(q, t)
    BY <2>1, <2>2 DEF Holder
  <2>4. refcnt[t] > 0
    BY <2>3, Counts
  <2> QED
    BY <2>4
<1>2. ~(t \in Caller /\ At(t, "derefcancel") /\ refcnt[ids[t].conn] = 0)
  <2> SUFFICES ASSUME t \in Caller, At(t, "derefcancel"), refcnt[ids[t].conn] = 0 PROVE FALSE
    OBVIOUS
  <2>1. pc[t] = "derefcancel"
    BY DEF At
  <2>2. PICK c \in Conn : c = ids[t].conn
    BY <2>1, CancelRecord DEF Gone, Cancelling
  <2>3. Holder(t, c)
    BY <2>1, <2>2 DEF Holder
  <2>4. refcnt[c] > 0
    BY <2>3, Counts
  <2> QED
    BY <2>2, <2>4
<1>3. ~(At(t, "pending") /\ refcnt[victim[t]] = 0)
  <2> SUFFICES ASSUME At(t, "pending"), refcnt[victim[t]] = 0 PROVE FALSE
    OBVIOUS
  <2>1. pc[t] \in Killing \ {"unlist"}
    BY DEF At, Killing
  <2>2. PICK c \in Conn : c = victim[t] /\ Owned(c)
    BY <2>1, Killed
  <2>3. refcnt[c] > 0
    BY <2>2, Counts
  <2> QED
    BY <2>2, <2>3
<1>4. ~(orb # <<>> /\ Head(orb).ev = "KillConn" /\ state[Head(orb).conn].current # S!Terminated)
  <2> SUFFICES ASSUME orb # <<>>, Head(orb).ev = "KillConn" PROVE state[Head(orb).conn].current = 4
    BY DEF S!Terminated
  <2>1. orb \in Seq(OrbMsg)
    BY <1>0 DEF RestShape
  <2>2. Head(orb) \in OrbMsg /\ 1 \in DOMAIN orb /\ orb[1] = Head(orb)
    BY <2>1
  <2>3. PICK c \in Conn : c = Head(orb).conn
    BY <2>2 DEF OrbMsg
  <2>4. orb[1] = KillMsg(c)
    BY <2>2, <2>3 DEF OrbMsg, KillMsg
  <2>5. Born(c) /\ Refs(c) /\ Phase(c)
    BY <1>0, <2>2, <2>3, Before, BornWhen
  <2>6. CountIn(orb, {KillMsg(c)}) # 0
    <3> DEFINE m == KillMsg(c)
    <3>1. orb[1] \in {m} /\ 1 \in DOMAIN orb
      BY <2>2, <2>4
    <3> HIDE DEF m
    <3>2. CountIn(orb, {m}) # 0
      BY <2>1, <3>1, NoneCount
    <3> QED
      BY <3>2 DEF m
  <2>7. refcnt[c] = 0
    BY <2>5, <2>6 DEF Refs
  <2>8. ~Owned(c)
    BY <2>7, Counts
  <2> QED
    BY <1>0, <2>3, <2>5, <2>8, PhaseStates
<1> QED
  BY <1>1, <1>2, <1>3, <1>4 DEF Aborts

\* What the process does not survive is one of two things.
LEMMA FailsOnly ==
  ASSUME Inv, NEW t \in Thread
  PROVE  FaultOf(t) \in {"late", "overtaken", "none"}
<1>1. /\ UsesDeleted(t) => UsesLate(t)
      /\ AbortsCall(t) => carries[t] \in Impatient
      /\ ~Aborts(t)
  BY NothingStale, OvertakenOnly, NoAbort
<1> QED
  BY <1>1 DEF FaultOf

\* No assertion of the client side fails and no deleted connection is used,
\* with any number of threads, except through a pointer kept without a
\* reference or for a call that is given up: NoFault.
THEOREM NoFaultEver == Spec => []NoFault
<1>1. Init => NoFault
  BY DEF Init, NoFault
<1>2. Inv /\ NoFault /\ [Next]_vars => NoFault'
  <2> SUFFICES ASSUME Inv, NoFault, [Next]_vars PROVE NoFault'
    OBVIOUS
  <2>1. CASE fault' = fault
    BY <2>1 DEF NoFault
  <2>2. ASSUME NEW t \in Thread, Fail(t) PROVE NoFault'
    BY <2>2, FailsOnly DEF Fail, NoFault
  <2> QED
    BY <2>1, <2>2, ShapeInv DEF vars
<1> QED
  BY <1>1, <1>2, Invariance, PTL DEF Spec

\* Both counts of each connection say who uses it: CountsExact.
THEOREM CountsAlwaysExact == Spec => []CountsExact
<1>1. Inv => ActiveRefsExact
  <2> SUFFICES ASSUME Inv, NEW c \in Conn, life[c] = "open"
               PROVE  state[c].active = Cardinality(ActiveHolders(c)) + (IF Entry(c) THEN 1 ELSE 0)
    BY DEF ActiveRefsExact
  <2> QED
    BY Before DEF Active, Born
<1>2. ASSUME Inv, NEW c \in Conn, life[c] = "open"
      PROVE  OwnRef(c) <=> Owned(c)
  <2>0. /\ ThreadShape /\ ConnShape /\ Phase(c) /\ Born(c)
        /\ \A t \in Thread : Place(t, pc[t], on[t], victim[t], redo[t], carries[t])
    BY <1>2, Before DEF Born, ThreadShape
  <2>1. /\ state[c].current \in 1..4 /\ (state[c].current <= 3 => Owned(c))
        /\ conns = c => state[c].current <= 2
    BY <2>0, PhaseStates
  <2>k. Killing = {"unlist", "uncache", "shutdown", "join", "terminated", "pending", "abort", "redo"}
        /\ Invoking = Sending \cup {"lookup", "connect", "cache", "ref"}
    BY DEF Killing, Invoking, Early, Sending
  <2>2. ASSUME state[c].current = 4, NEW t \in Thread, Kills(t, c) PROVE OwnRef(c)
    <3>1. Stage(t, pc[t]) = 5
      <4>1. Staged(Stage(t, pc[t]), 4, state[c].new) /\ Stage(t, pc[t]) \in 1..5
        BY <2>0, <2>2, Stages DEF Phase, Kills
      <4> QED
        BY <4>1 DEF Staged
    <3>2. victim[t] = c
      BY <2>2 DEF Kills
    <3>3. pc[t] \in {"pending", "abort", "redo"} \cup Invoking
      BY <3>1 DEF Stage
    <3> QED
      BY <1>2, <2>k, <3>2, <3>3 DEF OwnRef
  <2>3. ASSUME NEW t \in Thread, victim[t] = c,
               pc[t] \in {"pending", "abort", "redo"} \cup Sending \cup {"lookup", "connect", "cache", "ref"}
        PROVE  Kills(t, c)
    <3>1. KillsAt(t, pc[t])
      BY <2>0, <2>3 DEF Place
    <3>2. pc[t] \in {"pending", "abort", "redo"} \/ (t \in Conn /\ pc[t] \in Invoking)
      BY <2>3, <2>k, <3>1 DEF KillsAt, Sending
    <3>3. Stage(t, pc[t]) = 5
      BY <3>2, Stages
    <3> QED
      BY <2>3, <3>3 DEF Kills
  <2>4. Owned(c) => OwnRef(c)
    <3>1. CASE state[c].current # 4
      BY <1>2, <3>1 DEF OwnRef, S!Terminated
    <3>2. CASE state[c].current = 4
      BY <2>1, <2>2, <3>2 DEF Owned
    <3> QED
      BY <3>1, <3>2
  <2>5. OwnRef(c) => Owned(c)
    <3>1. CASE state[c].current # 4
      BY <2>1, <3>1
    <3>2. CASE state[c].current = 4
      BY <2>3, <3>2 DEF OwnRef, Owned, S!Terminated
    <3> QED
      BY <3>1, <3>2
  <2> QED
    BY <2>4, <2>5
<1>3. Inv => RefcntExact
  <2> SUFFICES ASSUME Inv PROVE RefcntExact
    OBVIOUS
  <2>1. ASSUME NEW c \in Conn, life[c] = "open"
        PROVE  refcnt[c] = Cardinality(HeldRecs(c)) + (IF OwnRef(c) THEN 1 ELSE 0)
    <3>1. OwnRef(c) <=> Owned(c)
      BY <1>2, <2>1
    <3>2. refcnt[c] = Cardinality(HeldRecs(c)) + (IF Owned(c) THEN 1 ELSE 0)
      BY <2>1, Before DEF Refs, Born
    <3> QED
      BY <3>1, <3>2
  <2>2. slots = Cardinality({c \in Conn : refcnt[c] > 0})
    BY Before DEF Slots
  <2> QED
    BY <2>1, <2>2 DEF RefcntExact
<1> QED
  BY <1>1, <1>3, Invariance, PTL DEF CountsExact

\* Every variable has its type, and the counts the bounds the number of threads
\* and of calls sets: TypeOK.
THEOREM TypeCorrect == Spec => []TypeOK
<1>1. ASSUME Inv PROVE TypeOK
  <2>0. Shape /\ ThreadShape /\ ServerShape /\ CallShape /\ ConnShape /\ CacheShape /\ IdShape /\ RestShape
    BY <1>1, Before
  <2>1. /\ peer \in [Conn -> {"up", "closing", "down"}] /\ requests \in [Conn -> SUBSET Caller]
        /\ executed \in [Caller -> 0..2]
    <3>1. \A q \in Caller : executed[q] \in 0..2
      BY <1>1, Before DEF Once
    <3> QED
      BY <2>0, <3>1 DEF ServerShape
  <2>2. \A c \in Conn : inbox[c] \in Seq([kind : Message, call : Caller \cup {NoCall}])
    <3>1. BackMsg \subseteq [kind : Message, call : Caller \cup {NoCall}]
      BY DEF BackMsg, Message
    <3>2. \A c \in Conn : inbox[c] \in Seq(BackMsg)
      BY <2>0 DEF ServerShape
    <3> DEFINE M == [kind : Message, call : Caller \cup {NoCall}]
    <3>3. BackMsg \subseteq M
      BY <3>1
    <3> HIDE DEF BackMsg, M
    <3>4. ASSUME NEW s \in Seq(BackMsg) PROVE s \in Seq(M)
      BY <3>3
    <3>5. \A c \in Conn : inbox[c] \in Seq(M)
      BY <3>2, <3>4
    <3> QED
      BY <3>5 DEF M
  <2>3. /\ life \in [Conn -> {"none", "open", "deleted"}]
        /\ state \in [Conn -> S!StateRefCnt(Cardinality(Thread) + 1)]
    <3>1. ASSUME NEW c \in Conn PROVE state[c] \in S!StateRefCnt(Cardinality(Thread) + 1)
      <4>1. state[c] \in ConnState /\ Cardinality(Thread) \in Nat
        BY <2>0, <3>1, Holders, FS_CardinalityType DEF ConnShape
      <4>2. state[c].active \in 0..(Cardinality(Thread) + 1)
        <5>1. CASE Born(c)
          <6>1. state[c].active = Cardinality(ActiveHolders(c)) + (IF Entry(c) THEN 1 ELSE 0)
            BY <1>1, <5>1, Before DEF Active
          <6>2. Cardinality(ActiveHolders(c)) \in Nat /\ Cardinality(ActiveHolders(c)) <= Cardinality(Thread)
            BY Holders
          <6> QED
            BY <4>1, <6>1, <6>2
        <5>2. CASE ~Born(c)
          <6>1. state[c].active = 0
            BY <1>1, <5>2, Before DEF Unborn, Born, S!Fresh
          <6> QED
            BY <4>1, <6>1
        <5> QED
          BY <5>1, <5>2
      <4> QED
        BY <4>1, <4>2 DEF ConnState, S!StateRefCnt
    <3> QED
      BY <2>0, <3>1 DEF ConnShape
  <2>4. refcnt \in [Conn -> 0..(Cardinality(Caller) + 1)] /\ slots \in 0..ConnLimit
    <3>1. \A c \in Conn : refcnt[c] \in 0..(Cardinality(Caller) + 1)
      BY <1>1, Counts
    <3>2. slots \in Nat /\ slots <= ConnLimit
      <4>1. IsFiniteSet({c \in Conn : refcnt[c] > 0})
        BY ConstantsAssumption, FS_Subset DEF ConstantsAssumption
      <4> QED
        BY <1>1, <4>1, Before, FS_CardinalityType DEF Slots
    <3>3. ConnLimit \in Nat
      BY ConstantsAssumption DEF ConstantsAssumption
    <3> QED
      BY <2>0, <3>1, <3>2, <3>3 DEF ConnShape
  <2>5. ids \in [Caller -> [conn : Conn \cup {NoConn}, active : BOOLEAN]]
    <3>1. Rec \cup {NoRec} \subseteq [conn : Conn \cup {NoConn}, active : BOOLEAN]
      <4>1. Rec \subseteq [conn : Conn \cup {NoConn}, active : BOOLEAN]
        BY DEF Rec
      <4> DEFINE no == FALSE
      <4>2. no \in BOOLEAN
        OBVIOUS
      <4> HIDE DEF no
      <4>3. [conn |-> NoConn, active |-> no] \in [conn : Conn \cup {NoConn}, active : BOOLEAN]
        BY <4>2
      <4>4. NoRec \in [conn : Conn \cup {NoConn}, active : BOOLEAN]
        BY <4>3 DEF NoRec, no
      <4> QED
        BY <4>1, <4>4
    <3> QED
      BY <2>0, <3>1 DEF IdShape
  <2>6. kept \subseteq Caller \X Conn /\ orb \in Seq([conn : Conn, ev : {"CloseConn", "KillConn"}])
    BY <2>0, Kinds DEF RestShape, OrbMsg
  <2> QED
    BY <2>0, <2>1, <2>2, <2>3, <2>4, <2>5, <2>6 DEF TypeOK, ThreadShape, CallShape, CacheShape, RestShape
<1> QED
  BY <1>1, Invariance, PTL

-----------------------------------------------------------------------------
(***************************************************************************)
(* The refinement.                                                         *)
(***************************************************************************)
\* An answer is the answer of the specification, or to a call that is gone.
LEMMA AnswerMaps ==
  ASSUME CallShape, NEW q \in Caller, Outcome(q),
         NEW o \in {"reply", "TRANSIENT", "COMM_FAILURE", "TIMEOUT"}, o = "reply" => executed[q] = 1,
         answer_invoke(q, o), executed' = executed
  PROVE  I!Answer(q) \/ UNCHANGED I!vars
<1>1. CASE status[q] \in {"pending", "answered"} /\ q \notin Oneway
  <2>1. /\ outcome[q] = "none" /\ outcome' = [outcome EXCEPT ![q] = o]
        /\ status' = [status EXCEPT ![q] = "answered"]
    BY <1>1 DEF answer_invoke, AnswerOK
  <2>2. status[q] = "pending"
    BY <1>1, <2>1 DEF Outcome
  <2> QED
    BY <2>1, <2>2 DEF I!Answer, I!Set
<1>2. CASE ~(status[q] \in {"pending", "answered"} /\ q \notin Oneway)
  BY <1>2 DEF answer_invoke, callVars, I!vars
<1> QED
  BY <1>1, <1>2

\* A oneway that goes back to its caller has been sent.
LEMMA BackMaps ==
  ASSUME Inv, NEW t \in Thread, pc[t] \in Invoking, Back(t), outcome' = outcome, executed' = executed
  PROVE  (\E q \in Caller : I!SendOnly(q)) \/ UNCHANGED I!vars
<1>1. CASE t \in Oneway /\ t \in Caller
  <2>1. status[t] = "pending"
    BY <1>1, Before DEF Outcome
  <2>2. status' = [status EXCEPT ![t] = "returned"]
    BY <1>1 DEF Back
  <2> QED
    BY <1>1, <2>1, <2>2 DEF I!SendOnly, I!Set
<1>2. CASE ~(t \in Oneway /\ t \in Caller)
  BY <1>2 DEF Back, I!vars
<1> QED
  BY <1>1, <1>2

\* Every step is one of the specification, or changes nothing there.
LEMMA NextMaps ==
  ASSUME Inv, Next
  PROVE  [I!Next]_(I!vars)
<1> USE DEF serverVars, callVars, connVars, cacheVars, threadVars
<1>0. Shape /\ ThreadShape /\ CallShape /\ ServerShape
  BY Before
<1>s. ASSUME UNCHANGED <<status, outcome, executed>> PROVE UNCHANGED I!vars
  BY <1>s DEF I!vars
<1>n. ASSUME NEW q \in Caller,
             I!Begin(q) \/ I!Execute(q) \/ I!Answer(q) \/ I!Return(q) \/ I!SendOnly(q) \/ I!GiveUp(q)
      PROVE  I!Next
  BY <1>n DEF I!Next
<1>1. ASSUME NEW c \in Conn, Serve(c) \/ Crash(c) \/ \E k \in {"close", "error"} : ServerCloses(c, k)
      PROVE  I!Next \/ UNCHANGED I!vars
  <2>1. CASE Serve(c)
    <3>1. PICK q \in requests[c] : executed' = [executed EXCEPT ![q] = @ + 1]
      BY <2>1 DEF Serve
    <3>2. q \in Caller
      BY <1>0, <3>1 DEF ServerShape
    <3>3. executed[q] = 0 /\ status[q] # "unsent"
      BY <3>1, <3>2, Before DEF Once, Outcome
    <3>4. executed' = [executed EXCEPT ![q] = 1] /\ UNCHANGED <<status, outcome>>
      <4>1. executed[q] + 1 = 1
        BY <3>3
      <4>2. executed' = [executed EXCEPT ![q] = 1]
        BY <3>1, <4>1
      <4> QED
        BY <2>1, <4>2 DEF Serve
    <3> QED
      BY <1>n, <3>2, <3>3, <3>4 DEF I!Execute
  <2>2. CASE Crash(c) \/ \E k \in {"close", "error"} : ServerCloses(c, k)
    BY <1>s, <2>2 DEF Crash, ServerCloses
  <2> QED
    BY <1>1, <2>1, <2>2
<1>2. ASSUME NEW c \in Conn, Reader(c)
      PROVE  I!Next \/ UNCHANGED I!vars
  <2>1. CASE Answer(c)
    <3>1. pc[c] = "answer" /\ answer_invoke(carries[c], "reply") /\ executed' = executed
      BY <2>1 DEF Answer, At
    <3>2. PICK q \in Caller : q = carries[c]
      BY <1>0, <3>1, HandledCall DEF Handling
    <3>3. executed[q] = 1 /\ Outcome(q)
      BY <3>1, <3>2, Before DEF Once
    <3>4. answer_invoke(q, "reply")
      BY <3>1, <3>2
    <3> QED
      BY <1>0, <1>n, <3>1, <3>3, <3>4, AnswerMaps
  <2>2. CASE ~Answer(c)
    BY <1>2, <1>s, <2>2 DEF Reader, Select, LeaveLoop, Read, ReadEnd, Pull, Delete, GiveBack, Release, Closing
  <2> QED
    BY <2>1, <2>2
<1>3. ASSUME NEW q \in Caller, Begin(q) \/ CallStep(q) \/ TimeOut(q) \/ Cancel(q)
      PROVE  I!Next \/ UNCHANGED I!vars
  <2>0. Outcome(q)
    BY Before
  <2>1. CASE Begin(q)
    <3>1. I!Begin(q)
      BY <2>0, <2>1 DEF Begin, Outcome, I!Begin, I!Set
    <3> QED
      BY <1>n, <3>1
  <2>2. CASE Return(q)
    <3>1. I!Return(q)
      BY <2>2 DEF Return, I!Return, I!Set
    <3> QED
      BY <1>n, <3>1
  <2>3. CASE TimeOut(q)
    <3>1. answer_invoke(q, "TIMEOUT") /\ executed' = executed
      BY <2>3 DEF TimeOut
    <3> QED
      BY <1>0, <1>n, <2>0, <3>1, AnswerMaps
  <2>4. CASE Cancel(q)
    <3>1. I!GiveUp(q)
      BY <2>0, <2>4 DEF Cancel, Outcome, I!GiveUp, I!Set
    <3> QED
      BY <1>n, <3>1
  <2>5. CASE SendCancel(q) \/ DerefCancel(q) \/ DelCancel(q)
    BY <1>s, <2>5 DEF SendCancel, DerefCancel, DelCancel
  <2> QED
    BY <1>3, <2>1, <2>2, <2>3, <2>4, <2>5 DEF CallStep
<1>4. ASSUME NEW o \in OrbWorker, Pool(o)
      PROVE  UNCHANGED I!vars
  BY <1>s, <1>4 DEF Pool, TakeClose, TakeKill
<1>5. ASSUME Shutdown
      PROVE  UNCHANGED I!vars
  BY <1>s, <1>5 DEF Shutdown
<1>6. ASSUME NEW t \in Thread, invoke(t)
      PROVE  I!Next \/ UNCHANGED I!vars
  <2>1. CASE NoConnection(t)
    <3>1. pc[t] \in Invoking /\ executed' = executed
      BY <2>1 DEF NoConnection, Invoking, Early
    <3>2. CASE Back(t) /\ UNCHANGED outcome
      BY <1>n, <3>1, <3>2, BackMaps
    <3>3. CASE answer_invoke(carries[t], "COMM_FAILURE")
      <4>1. PICK q \in Caller : q = carries[t]
        BY <1>0, <3>1, Invokers
      <4>2. Outcome(q) /\ answer_invoke(q, "COMM_FAILURE")
        BY <3>3, <4>1, Before
      <4> QED
        BY <1>0, <1>n, <3>1, <4>2, AnswerMaps
    <3> QED
      BY <2>1, <3>2, <3>3 DEF NoConnection
  <2>2. CASE ActiveDeref(t)
    <3>1. pc[t] \in Invoking /\ executed' = executed /\ Back(t) /\ UNCHANGED outcome
      BY <2>2 DEF ActiveDeref, At, Invoking
    <3> QED
      BY <1>n, <3>1, BackMaps
  <2>3. CASE ~NoConnection(t) /\ ~ActiveDeref(t)
    BY <1>6, <1>s, <2>3 DEF invoke, Lookup, FindConn, NewConn, Cache, Ref, AddInvoke, Output
  <2> QED
    BY <2>1, <2>2, <2>3
<1>7. ASSUME NEW t \in Thread, kill_conn(t)
      PROVE  I!Next \/ UNCHANGED I!vars
  <2>1. CASE Abort(t)
    <3>1. pc[t] = "abort" /\ answer_invoke(carries[t], "TRANSIENT") /\ executed' = executed
      BY <2>1 DEF Abort, At
    <3>2. PICK q \in Caller : q = carries[t]
      BY <1>0, <3>1, KillersOf, Kinds DEF Killing
    <3>3. Outcome(q) /\ answer_invoke(q, "TRANSIENT")
      BY <3>1, <3>2, Before
    <3> QED
      BY <1>0, <1>n, <3>1, <3>3, AnswerMaps
  <2>2. CASE ~Abort(t)
    BY <1>7, <1>s, <2>2 DEF kill_conn, Unlist, Uncache, ShutdownEffective, Join, TerminatedEffective,
                            NextPending, Redo, KillEnd
  <2> QED
    BY <2>1, <2>2
<1>8. ASSUME NEW t \in Thread, Fail(t)
      PROVE  UNCHANGED I!vars
  BY <1>s, <1>8 DEF Fail
<1> QED
  BY <1>1, <1>2, <1>3, <1>4, <1>5, <1>6, <1>7, <1>8, Steps

\* Each call is executed at most once and has one outcome, and "reply" means
\* that it was executed, for any number of callers and connections and however
\* often a call is sent again: ImplementsInvocation.
THEOREM Refinement == Spec => ImplementsInvocation
<1>1. Init => I!Init
  BY DEF Init, I!Init
<1>2. Inv /\ [Next]_vars => [I!Next]_(I!vars)
  <2>1. CASE UNCHANGED vars
    BY <2>1 DEF vars, callVars, serverVars, I!vars
  <2> QED
    BY <2>1, NextMaps
<1> QED
  BY <1>1, <1>2, Invariance, PTL DEF Spec, ImplementsInvocation, I!Spec
=============================================================================
