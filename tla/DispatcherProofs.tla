-------------------------- MODULE DispatcherProofs --------------------------
(***************************************************************************)
(* Proofs that the dispatcher of one thread keeps its lists in order, and  *)
(* that it implements EventLoop, for any events, timers, bounds and        *)
(* nesting of run().                                                       *)
(***************************************************************************)
EXTENDS Dispatcher, FiniteSetTheorems, SequenceTheorems, WellFoundedInduction, TLAPS

(***************************************************************************)
(* Induction, for sets: provers that cannot instantiate an operator can    *)
(* name the set of the numbers something is true of.                       *)
(***************************************************************************)

\* A set with 0 and the successor of each natural number in it has them all.
LEMMA SetInduction ==
  ASSUME NEW S, 0 \in S, \A n \in Nat : n \in S => n + 1 \in S
  PROVE  \A n \in Nat : n \in S
<1> SUFFICES ASSUME ~(\A n \in Nat : n \in S) PROVE FALSE
  OBVIOUS
<1> DEFINE T == Nat \ S
           R == OpToRel(<, Nat)
<1>1. T \subseteq Nat /\ T # {}
  OBVIOUS
<1>2. PICK x \in T : \A y \in T : ~(<<y, x>> \in R)
  <2> HIDE DEF T, R
  <2>1. IsWellFoundedOn(R, Nat)
    BY NatLessThanWellFounded DEF R
  <2> QED
    BY <1>1, <2>1, WFMin
<1>3. x \in Nat /\ x # 0
  OBVIOUS
<1>4. x - 1 \in Nat /\ x - 1 < x /\ (x - 1) + 1 = x
  BY <1>3
<1>5. x - 1 \in T => <<x - 1, x>> \in R
  BY <1>3, <1>4 DEF OpToRel
<1> QED
  BY <1>2, <1>4, <1>5

(***************************************************************************)
(* The positions of a list.                                                *)
(***************************************************************************)

\* Positions are finitely many.
LEMMA PlacesFinite ==
  ASSUME NEW n \in Nat, NEW K \in SUBSET (1..n)
  PROVE  IsFiniteSet(K) /\ Cardinality(K) \in 0..n
<1>1. IsFiniteSet(1..n) /\ Cardinality(1..n) = n
  BY FS_Interval
<1>2. IsFiniteSet(K) /\ Cardinality(K) <= n
  BY <1>1, FS_Subset
<1> QED
  BY <1>2, FS_CardinalityType

\* A later position has a higher rank.
LEMMA RankGrows ==
  ASSUME NEW n \in Nat, NEW K \in SUBSET (1..n), NEW i \in K, NEW j \in K, i < j
  PROVE  Rank(K, i) < Rank(K, j)
<1> DEFINE A == {k \in K : k <= i}
           B == {k \in K : k <= j}
<1>0. ASSUME NEW k \in K, k <= i
      PROVE  k <= j
  <2>1. k \in Int /\ i \in Int /\ j \in Int
    OBVIOUS
  <2> QED
    BY <1>0, <2>1
<1>1. A \in SUBSET B /\ j \in B /\ j \notin A
  <2>1. A \subseteq B
    BY <1>0
  <2>2. j \in Int /\ i \in Int
    OBVIOUS
  <2>3. j \in B /\ j \notin A
    BY <2>2
  <2> QED
    BY <2>1, <2>3
<1>2. B \in SUBSET (1..n) /\ A \in SUBSET (1..n)
  OBVIOUS
<1>3. Rank(K, i) = Cardinality(A) /\ Rank(K, j) = Cardinality(B)
  BY DEF Rank
<1> HIDE DEF A, B
<1>4. IsFiniteSet(B) /\ Cardinality(B) \in Nat /\ Cardinality(A) \in Nat
  BY <1>2, PlacesFinite
<1>5. Cardinality(A) <= Cardinality(B) /\ Cardinality(A) # Cardinality(B)
  BY <1>1, <1>4, FS_Subset
<1> QED
  BY <1>3, <1>4, <1>5

\* Positions are numbered by their ranks, without gaps, and Nth finds them.
LEMMA Numbering ==
  ASSUME NEW n \in Nat, NEW K \in SUBSET (1..n)
  PROVE  /\ Cardinality(K) \in 0..n
         /\ \A i \in K : Rank(K, i) \in 1..Cardinality(K) /\ Nth(K, Rank(K, i)) = i
         /\ \A r \in 1..Cardinality(K) : Nth(K, r) \in K /\ Rank(K, Nth(K, r)) = r
<1> DEFINE c == Cardinality(K)
           f == [i \in K |-> Rank(K, i)]
<1>1. IsFiniteSet(K) /\ c \in 0..n
  BY PlacesFinite
<1>2. ASSUME NEW i \in K
      PROVE  Rank(K, i) \in 1..c
  <2> DEFINE A == {k \in K : k <= i}
  <2>1. A \in SUBSET K /\ i \in A /\ A # {}
    OBVIOUS
  <2>2. Rank(K, i) = Cardinality(A)
    BY DEF Rank
  <2> HIDE DEF A
  <2>3. IsFiniteSet(A) /\ Cardinality(A) <= c
    BY <1>1, <2>1, FS_Subset
  <2>4. Cardinality(A) \in Nat /\ Cardinality(A) # 0
    BY <2>1, <2>3, FS_CardinalityType, FS_EmptySet
  <2> QED
    BY <1>1, <2>2, <2>3, <2>4
<1>3. ASSUME NEW i \in K, NEW j \in K, Rank(K, i) = Rank(K, j)
      PROVE  i = j
  <2>1. i \in Int /\ j \in Int
    OBVIOUS
  <2>2. Rank(K, i) \in Int /\ Rank(K, j) \in Int
    <3>1. \A k \in 1..c : k \in Int
      BY <1>1
    <3> QED
      BY <1>2, <3>1
  <2>3. CASE i < j
    <3>1. Rank(K, i) < Rank(K, j)
      BY <2>3, RankGrows
    <3> QED
      BY <1>3, <2>2, <3>1
  <2>4. CASE j < i
    <3>1. Rank(K, j) < Rank(K, i)
      BY <2>4, RankGrows
    <3> QED
      BY <1>3, <2>2, <3>1
  <2> QED
    BY <2>1, <2>3, <2>4
<1>4. f \in [K -> 1..c]
  BY <1>2
<1>5. f \in Injection(K, 1..c)
  BY <1>3, <1>4 DEF Injection, IsInjective
<1>6. IsFiniteSet(1..c) /\ Cardinality(1..c) = c
  BY <1>1, FS_Interval
<1>7. f \in Surjection(K, 1..c)
  <2> HIDE DEF f
  <2> QED
    BY <1>5, <1>6, FS_Injection
<1>8. ASSUME NEW r \in 1..c
      PROVE  \E i \in K : Rank(K, i) = r
  BY <1>7 DEF Surjection
<1>9. ASSUME NEW r \in 1..c
      PROVE  Nth(K, r) \in K /\ Rank(K, Nth(K, r)) = r
  BY <1>8 DEF Nth
<1>10. ASSUME NEW i \in K
       PROVE  Nth(K, Rank(K, i)) = i
  <2>1. Nth(K, Rank(K, i)) \in K /\ Rank(K, Nth(K, Rank(K, i))) = Rank(K, i)
    BY <1>2, <1>9
  <2> QED
    BY <1>3, <2>1
<1> QED
  BY <1>1, <1>2, <1>9, <1>10

\* What is numbered later comes later.
LEMMA NthGrows ==
  ASSUME NEW n \in Nat, NEW K \in SUBSET (1..n),
         NEW r \in 1..Cardinality(K), NEW q \in 1..Cardinality(K), r < q
  PROVE  Nth(K, r) < Nth(K, q)
<1>1. /\ Nth(K, r) \in K /\ Rank(K, Nth(K, r)) = r
      /\ Nth(K, q) \in K /\ Rank(K, Nth(K, q)) = q
  BY Numbering
<1>2. Nth(K, r) \in Int /\ Nth(K, q) \in Int /\ r \in Int /\ q \in Int
  <2>1. Cardinality(K) \in Int
    BY Numbering
  <2>2. \A k \in 1..Cardinality(K) : k \in Int
    BY <2>1
  <2>3. \A k \in K : k \in Int
    OBVIOUS
  <2>4. r \in Int /\ q \in Int
    BY <2>2
  <2> QED
    BY <1>1, <2>3, <2>4
<1>3. CASE Nth(K, q) < Nth(K, r)
  <2>1. Rank(K, Nth(K, q)) < Rank(K, Nth(K, r))
    BY <1>1, <1>3, RankGrows
  <2> QED
    BY <1>1, <1>2, <2>1
<1>4. CASE Nth(K, q) = Nth(K, r)
  BY <1>1, <1>2, <1>4
<1> QED
  BY <1>2, <1>3, <1>4

\* A set of first positions is known by their number.
LEMMA FirstOnes ==
  ASSUME NEW n \in Nat, NEW K \in SUBSET (1..n), \A i \in K : 1..i \subseteq K
  PROVE  Cardinality(K) \in 0..n /\ K = 1..Cardinality(K)
<1> DEFINE c == Cardinality(K)
<1>1. IsFiniteSet(K) /\ c \in 0..n
  BY PlacesFinite
<1>2. IsFiniteSet(1..c) /\ Cardinality(1..c) = c
  BY <1>1, FS_Interval
<1>3. ASSUME NEW i \in K
      PROVE  i \in 1..c
  <2>1. i \in Nat /\ i >= 1 /\ 1..i \in SUBSET K
    OBVIOUS
  <2>2. Cardinality(1..i) = i
    BY <2>1, FS_Interval
  <2>3. Cardinality(1..i) <= c
    BY <1>1, <2>1, FS_Subset
  <2> QED
    BY <1>1, <2>1, <2>2, <2>3
<1> QED
  BY <1>1, <1>2, <1>3, FS_Subset

\* Keep leaves what is at the positions kept, and nothing else.
LEMMA Kept ==
  ASSUME NEW S, NEW s \in Seq(S), NEW K \in SUBSET DOMAIN s
  PROVE  /\ Keep(s, K) \in Seq(S) /\ Len(Keep(s, K)) = Cardinality(K)
         /\ Cardinality(K) \in 0..Len(s)
         /\ \A r \in DOMAIN Keep(s, K) : Nth(K, r) \in K /\ Keep(s, K)[r] = s[Nth(K, r)]
         /\ \A i \in K : Rank(K, i) \in DOMAIN Keep(s, K) /\ Keep(s, K)[Rank(K, i)] = s[i]
<1> DEFINE n == Len(s)
<1>1. n \in Nat /\ DOMAIN s = 1..n
  BY LenProperties
<1>2. /\ Cardinality(K) \in 0..n
      /\ \A i \in K : Rank(K, i) \in 1..Cardinality(K) /\ Nth(K, Rank(K, i)) = i
      /\ \A r \in 1..Cardinality(K) : Nth(K, r) \in K
  BY <1>1, Numbering
<1> DEFINE c == Cardinality(K)
<1>3. Keep(s, K) = [r \in 1..c |-> s[Nth(K, r)]]
  BY DEF Keep
<1>4. \A r \in 1..c : s[Nth(K, r)] \in S
  BY <1>1, <1>2
<1>5. c \in Nat
  BY <1>1, <1>2
<1> HIDE DEF c, n
<1>6. Keep(s, K) \in Seq(S) /\ Len(Keep(s, K)) = c /\ DOMAIN Keep(s, K) = 1..c
  BY <1>3, <1>4, <1>5
<1> QED
  BY <1>2, <1>3, <1>6 DEF c, n

\* A function on the first positions is a list.
LEMMA IsSequence ==
  ASSUME NEW S, NEW n \in Nat, NEW f, f = [i \in 1..n |-> f[i]], \A i \in 1..n : f[i] \in S
  PROVE  f \in Seq(S) /\ Len(f) = n /\ DOMAIN f = 1..n
<1>1. f \in [1..n -> S]
  OBVIOUS
<1>2. f \in Seq(S) /\ DOMAIN f = 1..n
  BY <1>1, SeqDef
<1> QED
  BY <1>2, LenProperties

\* Two lists, one after the other ...
LEMMA Joined ==
  ASSUME NEW S, NEW p \in Seq(S), NEW q \in Seq(S)
  PROVE  p \o q \in Seq(S) /\ Len(p \o q) = Len(p) + Len(q)
BY ConcatProperties

\* ... and what is where in them.
LEMMA JoinedAt ==
  ASSUME NEW S, NEW p \in Seq(S), NEW q \in Seq(S), NEW i \in 1..(Len(p) + Len(q))
  PROVE  (p \o q)[i] = IF i <= Len(p) THEN p[i] ELSE q[i - Len(p)]
BY ConcatProperties, Zenon

(***************************************************************************)
(* The sums of a list of differences.                                      *)
(***************************************************************************)

\* f adds up the first n differences
Adds(f, ts, n) == f = [j \in 0..n |-> IF j = 0 THEN 0 ELSE f[j - 1] + ts[j].delta]

\* g is 0 at the head of a list of n differences and grows by each
AddsUp(g, ts, n) ==
  g[0] = 0 /\ \A j \in 1..n : ts[j].delta \in Int /\ g[j] = g[j - 1] + ts[j].delta

\* There are sums.
LEMMA SumsExist ==
  ASSUME NEW ts, NEW n \in Nat, \A j \in 1..n : ts[j].delta \in Int
  PROVE  \E f \in [0..n -> Int] : Adds(f, ts, n)
<1> DEFINE P(m) == m <= n => \E f \in [0..m -> Int] : Adds(f, ts, m)
           S == {m \in Nat : P(m)}
<1>1. 0 \in S
  <2> DEFINE f == [j \in 0..0 |-> 0]
  <2>1. f \in [0..0 -> Int]
    OBVIOUS
  <2>2. f = [j \in 0..0 |-> IF j = 0 THEN 0 ELSE f[j - 1] + ts[j].delta]
    OBVIOUS
  <2>3. Adds(f, ts, 0)
    BY <2>2 DEF Adds
  <2> HIDE DEF f
  <2>4. P(0)
    BY <2>1, <2>3
  <2> QED
    BY <2>4
<1>2. ASSUME NEW m \in Nat, m \in S
      PROVE  m + 1 \in S
  <2> SUFFICES ASSUME m + 1 <= n
               PROVE  \E f \in [0..(m + 1) -> Int] : Adds(f, ts, m + 1)
    OBVIOUS
  <2>1. m <= n
    OBVIOUS
  <2>2. PICK f \in [0..m -> Int] : Adds(f, ts, m)
    BY <1>2, <2>1
  <2> DEFINE g == [j \in 0..(m + 1) |-> IF j = m + 1 THEN f[m] + ts[m + 1].delta ELSE f[j]]
  <2>3. m + 1 \in 1..n /\ ts[m + 1].delta \in Int
    OBVIOUS
  <2>4. g \in [0..(m + 1) -> Int]
    <3>1. f[m] \in Int
      OBVIOUS
    <3>2. \A j \in 0..(m + 1) : j # m + 1 => f[j] \in Int
      OBVIOUS
    <3> QED
      BY <2>3, <3>1, <3>2
  <2>5. ASSUME NEW j \in 0..(m + 1)
        PROVE  g[j] = IF j = 0 THEN 0 ELSE g[j - 1] + ts[j].delta
    <3>1. CASE j = m + 1
      <4>1. j # 0 /\ j - 1 = m /\ m \in 0..(m + 1) /\ m # m + 1
        BY <3>1
      <4>2. g[j] = f[m] + ts[j].delta /\ g[m] = f[m]
        BY <3>1, <4>1
      <4> HIDE DEF g
      <4> QED
        BY <4>1, <4>2
    <3>2. CASE j # m + 1
      <4>1. j \in 0..m /\ g[j] = f[j]
        BY <3>2
      <4>2. f[j] = IF j = 0 THEN 0 ELSE f[j - 1] + ts[j].delta
        BY <2>2, <4>1 DEF Adds
      <4>3. j # 0 => j - 1 \in 0..(m + 1) /\ j - 1 # m + 1
        BY <4>1
      <4>4. j # 0 => g[j - 1] = f[j - 1]
        BY <4>3
      <4> HIDE DEF g
      <4> QED
        BY <4>1, <4>2, <4>4
    <3> QED
      BY <3>1, <3>2
  <2>6. Adds(g, ts, m + 1)
    <3> DEFINE h == [j \in 0..(m + 1) |-> IF j = 0 THEN 0 ELSE g[j - 1] + ts[j].delta]
    <3>1. \A j \in 0..(m + 1) : h[j] = g[j]
      <4> HIDE DEF g
      <4> QED
        BY <2>5
    <3>2. DOMAIN g = 0..(m + 1)
      OBVIOUS
    <3>3. g = h
      <4>1. g = [j \in 0..(m + 1) |-> g[j]]
        BY <3>2
      <4>2. h = [j \in 0..(m + 1) |-> h[j]]
        OBVIOUS
      <4> HIDE DEF g, h
      <4> QED
        BY <3>1, <4>1, <4>2
    <3> HIDE DEF g
    <3> QED
      BY <3>3 DEF Adds
  <2> HIDE DEF g
  <2> QED
    BY <2>4, <2>6
<1> HIDE DEF S
<1>3. n \in S
  BY <1>1, <1>2, SetInduction
<1> QED
  BY <1>3 DEF S

\* They are what can be added up step by step.
LEMMA SumsUnique ==
  ASSUME NEW ts, NEW n \in Nat, NEW f, Adds(f, ts, n), NEW g, AddsUp(g, ts, n)
  PROVE  \A j \in 0..n : f[j] = g[j]
<1> DEFINE S == {m \in Nat : m <= n => f[m] = g[m]}
<1>1. \A j \in 0..n : f[j] = IF j = 0 THEN 0 ELSE f[j - 1] + ts[j].delta
  BY DEF Adds
<1>2. 0 \in S
  BY <1>1 DEF AddsUp
<1>3. ASSUME NEW m \in Nat, m \in S
      PROVE  m + 1 \in S
  <2> SUFFICES ASSUME m + 1 <= n
               PROVE  f[m + 1] = g[m + 1]
    OBVIOUS
  <2>1. m + 1 \in 0..n /\ m + 1 \in 1..n /\ m + 1 # 0 /\ (m + 1) - 1 = m /\ m <= n
    OBVIOUS
  <2>2. f[m] = g[m]
    BY <1>3, <2>1
  <2>3. f[m + 1] = f[m] + ts[m + 1].delta
    BY <1>1, <2>1
  <2>4. g[m + 1] = g[m] + ts[m + 1].delta
    BY <2>1 DEF AddsUp
  <2> QED
    BY <2>2, <2>3, <2>4
<1> HIDE DEF S
<1>4. \A m \in Nat : m \in S
  BY <1>2, <1>3, SetInduction
<1> QED
  BY <1>4 DEF S

\* Delta is 0 at the head of the list and grows by each difference ...
LEMMA DeltaIs ==
  ASSUME NEW ts, NEW n \in Nat, NEW g, AddsUp(g, ts, n)
  PROVE  \A i \in 0..n : Delta(ts, i) = g[i] /\ Delta(ts, i) \in Int
<1> SUFFICES ASSUME NEW i \in 0..n
             PROVE  Delta(ts, i) = g[i] /\ Delta(ts, i) \in Int
  OBVIOUS
<1> DEFINE f == CHOOSE f : Adds(f, ts, i)
<1>1. i \in Nat /\ AddsUp(g, ts, i)
  <2>1. i \in Nat /\ \A j \in 1..i : j \in 1..n
    OBVIOUS
  <2> QED
    BY <2>1 DEF AddsUp
<1>2. \E h \in [0..i -> Int] : Adds(h, ts, i)
  BY <1>1, SumsExist DEF AddsUp
<1>3. Adds(f, ts, i)
  BY <1>2
<1>4. Delta(ts, i) = f[i]
  BY DEF Delta, Adds
<1> HIDE DEF f
<1>5. \A j \in 0..i : f[j] = g[j]
  BY <1>1, <1>3, SumsUnique
<1>6. PICK h \in [0..i -> Int] : Adds(h, ts, i)
  BY <1>2
<1>7. \A j \in 0..i : h[j] = g[j]
  BY <1>1, <1>6, SumsUnique
<1>8. i \in 0..i /\ h[i] \in Int
  BY <1>1
<1> QED
  BY <1>4, <1>5, <1>7, <1>8

\* ... which is all there is to know of it.
LEMMA DeltaStep ==
  ASSUME NEW ts, NEW n \in Nat, \A j \in 1..n : ts[j].delta \in Int
  PROVE  /\ Delta(ts, 0) = 0
         /\ \A i \in 0..n : Delta(ts, i) \in Int
         /\ \A i \in 1..n : Delta(ts, i) = Delta(ts, i - 1) + ts[i].delta
<1>1. PICK g \in [0..n -> Int] : Adds(g, ts, n)
  BY SumsExist
<1>2. \A j \in 0..n : g[j] = IF j = 0 THEN 0 ELSE g[j - 1] + ts[j].delta
  BY <1>1 DEF Adds
<1>3. AddsUp(g, ts, n) /\ g[0] = 0 /\ \A j \in 1..n : g[j] = g[j - 1] + ts[j].delta
  BY <1>2 DEF AddsUp
<1>4. \A i \in 0..n : Delta(ts, i) = g[i] /\ Delta(ts, i) \in Int
  BY <1>3, DeltaIs
<1>5. \A i \in 1..n : i \in 0..n /\ i - 1 \in 0..n
  OBVIOUS
<1> QED
  BY <1>3, <1>4, <1>5

(***************************************************************************)
(* The timers.                                                             *)
(***************************************************************************)

\* A timer is in the list once, and differences are positive, after the first.
TimerList(ts) ==
  /\ ts \in Seq(TimerEvent)
  /\ \A i, j \in DOMAIN ts : ts[i].id = ts[j].id => i = j
  /\ \A i \in DOMAIN ts : i # 1 => ts[i].delta >= 0

\* due and update_tevents, of any list and time
DueOf(ts, el) ==
  LET At1(t) == CHOOSE i \in DOMAIN ts : ts[i].id = t
  IN  [t \in {ts[i].id : i \in DOMAIN ts} |-> Delta(ts, At1(t)) - el]

Updated(ts, el) == IF ts = <<>> THEN ts ELSE [ts EXCEPT ![1].delta = @ - el]

\* What a list of timers is made of.
LEMMA TimersAre ==
  ASSUME NEW ts, TimerList(ts)
  PROVE  /\ Len(ts) \in Nat /\ DOMAIN ts = 1..Len(ts)
         /\ \A i \in 1..Len(ts) : ts[i] \in TimerEvent /\ ts[i].id \in Timer /\ ts[i].delta \in Int
         /\ Delta(ts, 0) = 0
         /\ \A i \in 0..Len(ts) : Delta(ts, i) \in Int
         /\ \A i \in 1..Len(ts) : Delta(ts, i) = Delta(ts, i - 1) + ts[i].delta
<1>1. Len(ts) \in Nat /\ DOMAIN ts = 1..Len(ts)
  BY LenProperties DEF TimerList
<1>2. \A i \in 1..Len(ts) : ts[i] \in TimerEvent
  BY <1>1 DEF TimerList
<1>3. \A i \in 1..Len(ts) : ts[i].id \in Timer /\ ts[i].delta \in Int
  BY <1>2 DEF TimerEvent
<1>4. /\ Delta(ts, 0) = 0
      /\ \A i \in 0..Len(ts) : Delta(ts, i) \in Int
      /\ \A i \in 1..Len(ts) : Delta(ts, i) = Delta(ts, i - 1) + ts[i].delta
  BY <1>1, <1>3, DeltaStep
<1> QED
  BY <1>1, <1>2, <1>3, <1>4

\* Later timers have longer times.
LEMMA TimesGrow ==
  ASSUME NEW ts, TimerList(ts)
  PROVE  \A i \in 1..Len(ts), j \in 1..Len(ts) : i <= j => Delta(ts, i) <= Delta(ts, j)
<1> SUFFICES ASSUME NEW i \in 1..Len(ts)
             PROVE  \A j \in 1..Len(ts) : i <= j => Delta(ts, i) <= Delta(ts, j)
  OBVIOUS
<1> DEFINE n == Len(ts)
           S == {m \in Nat : i + m <= n => Delta(ts, i) <= Delta(ts, i + m)}
<1>1. /\ n \in Nat /\ DOMAIN ts = 1..n
      /\ \A j \in 0..n : Delta(ts, j) \in Int
      /\ \A j \in 1..n : Delta(ts, j) = Delta(ts, j - 1) + ts[j].delta
      /\ \A j \in 1..n : ts[j].delta \in Int
  BY TimersAre
<1>2. \A j \in 1..n : j # 1 => ts[j].delta >= 0
  BY <1>1 DEF TimerList
<1>3. i \in 1..n /\ i \in Nat /\ i >= 1 /\ Delta(ts, i) \in Int
  BY <1>1
<1> HIDE DEF n
<1>4. 0 \in S
  BY <1>3
<1>5. ASSUME NEW m \in Nat, m \in S
      PROVE  m + 1 \in S
  <2> SUFFICES ASSUME i + (m + 1) <= n
               PROVE  Delta(ts, i) <= Delta(ts, i + (m + 1))
    OBVIOUS
  <2> DEFINE j == i + (m + 1)
  <2>1. j \in 1..n /\ j # 1 /\ j - 1 = i + m /\ i + m <= n /\ i + m \in 0..n
    BY <1>1, <1>3
  <2>2. Delta(ts, i) <= Delta(ts, i + m)
    BY <1>5, <2>1
  <2>3. Delta(ts, j) = Delta(ts, i + m) + ts[j].delta
    BY <1>1, <2>1
  <2>4. ts[j].delta \in Int /\ ts[j].delta >= 0 /\ Delta(ts, i + m) \in Int
    BY <1>1, <1>2, <2>1
  <2> HIDE DEF j
  <2>5. Delta(ts, i) <= Delta(ts, j)
    BY <1>3, <2>2, <2>3, <2>4
  <2> QED
    BY <2>5 DEF j
<1> HIDE DEF S
<1>6. \A m \in Nat : m \in S
  BY <1>4, <1>5, SetInduction
<1> SUFFICES ASSUME NEW j \in 1..n, i <= j
             PROVE  Delta(ts, i) <= Delta(ts, j)
  BY DEF n
<1>7. j - i \in Nat /\ i + (j - i) = j /\ j <= n
  BY <1>1, <1>3
<1> QED
  BY <1>6, <1>7 DEF S

\* The time left to a timer is known by its place.
LEMMA DueFacts ==
  ASSUME NEW ts, TimerList(ts), NEW el
  PROVE  /\ DOMAIN DueOf(ts, el) = {ts[i].id : i \in 1..Len(ts)}
         /\ \A i \in 1..Len(ts) : DueOf(ts, el)[ts[i].id] = Delta(ts, i) - el
<1>1. DOMAIN ts = 1..Len(ts)
  BY TimersAre
<1> SUFFICES ASSUME NEW i \in 1..Len(ts)
             PROVE  DueOf(ts, el)[ts[i].id] = Delta(ts, i) - el
  BY <1>1 DEF DueOf
<1> DEFINE j == CHOOSE j \in DOMAIN ts : ts[j].id = ts[i].id
<1>2. j \in DOMAIN ts /\ ts[j].id = ts[i].id
  BY <1>1
<1>3. j = i
  <2> HIDE DEF j
  <2> QED
    BY <1>1, <1>2 DEF TimerList
<1>4. DueOf(ts, el)[ts[i].id] = Delta(ts, j) - el
  BY <1>1 DEF DueOf
<1> QED
  BY <1>3, <1>4

\* These facts are all there is to know of the times left.
LEMMA DueIs ==
  ASSUME NEW ts, TimerList(ts), NEW el, NEW d,
         d = [t \in DOMAIN d |-> d[t]],
         DOMAIN d = {ts[i].id : i \in 1..Len(ts)},
         \A i \in 1..Len(ts) : d[ts[i].id] = Delta(ts, i) - el
  PROVE  DueOf(ts, el) = d
<1>1. /\ DOMAIN DueOf(ts, el) = {ts[i].id : i \in 1..Len(ts)}
      /\ \A i \in 1..Len(ts) : DueOf(ts, el)[ts[i].id] = Delta(ts, i) - el
  BY DueFacts
<1>2. DueOf(ts, el) = [t \in DOMAIN DueOf(ts, el) |-> DueOf(ts, el)[t]]
  BY DEF DueOf
<1>3. \A t \in DOMAIN d : DueOf(ts, el)[t] = d[t]
  BY <1>1
<1> QED
  BY <1>1, <1>2, <1>3

\* update_tevents() changes no time left.
LEMMA UpdateKeeps ==
  ASSUME NEW ts, TimerList(ts), NEW el \in Int
  PROVE  /\ TimerList(Updated(ts, el)) /\ Len(Updated(ts, el)) = Len(ts)
         /\ \A i \in 1..Len(ts) : Updated(ts, el)[i].id = ts[i].id
         /\ ts # <<>> => Updated(ts, el)[1].delta = ts[1].delta - el
         /\ Updated(ts, el) = <<>> <=> ts = <<>>
         /\ DueOf(Updated(ts, el), 0) = DueOf(ts, el)
<1> DEFINE us == Updated(ts, el)
           n == Len(ts)
<1>1. /\ n \in Nat /\ DOMAIN ts = 1..n
      /\ \A i \in 1..n : ts[i] \in TimerEvent /\ ts[i].id \in Timer /\ ts[i].delta \in Int
      /\ Delta(ts, 0) = 0
      /\ \A i \in 0..n : Delta(ts, i) \in Int
      /\ \A i \in 1..n : Delta(ts, i) = Delta(ts, i - 1) + ts[i].delta
  BY TimersAre
<1>2. ts # <<>> => 1 \in 1..n
  BY <1>1 DEF TimerList
<1>3. us = [i \in 1..n |-> IF i = 1 THEN [ts[1] EXCEPT !.delta = @ - el] ELSE ts[i]]
  <2>1. CASE ts = <<>>
    BY <1>1, <2>1 DEF Updated
  <2>2. CASE ts # <<>>
    BY <1>1, <1>2, <2>2 DEF Updated
  <2> QED
    BY <2>1, <2>2
<1>4. \A i \in 1..n : /\ us[i] \in TimerEvent /\ us[i].id = ts[i].id
                      /\ us[i].delta = IF i = 1 THEN ts[1].delta - el ELSE ts[i].delta
  <2> HIDE DEF us
  <2> QED
    BY <1>1, <1>3 DEF TimerEvent
<1>5. us \in Seq(TimerEvent) /\ Len(us) = n /\ DOMAIN us = 1..n
  <2> HIDE DEF us, n
  <2>1. us = [i \in 1..n |-> us[i]]
    BY <1>3
  <2> QED
    BY <1>1, <1>4, <2>1, IsSequence
<1> HIDE DEF us
<1>6. TimerList(us)
  <2>1. \A i, j \in DOMAIN us : us[i].id = us[j].id => i = j
    BY <1>1, <1>4, <1>5 DEF TimerList
  <2>2. \A i \in DOMAIN us : i # 1 => us[i].delta >= 0
    BY <1>1, <1>4, <1>5 DEF TimerList
  <2> QED
    BY <1>5, <2>1, <2>2 DEF TimerList
<1> DEFINE g == [i \in 0..n |-> IF i = 0 THEN 0 ELSE Delta(ts, i) - el]
<1>7. g[0] = 0
  BY <1>1
<1>8. ASSUME NEW i \in 1..n
      PROVE  us[i].delta \in Int /\ g[i] = g[i - 1] + us[i].delta
  <2>1. i \in 0..n /\ i - 1 \in 0..n /\ i # 0 /\ i \in Int
    BY <1>1
  <2>2. /\ us[i].delta = IF i = 1 THEN ts[i].delta - el ELSE ts[i].delta
        /\ Delta(ts, i) = Delta(ts, i - 1) + ts[i].delta
        /\ ts[i].delta \in Int /\ Delta(ts, i - 1) \in Int /\ Delta(ts, i) \in Int
    BY <1>1, <1>4, <2>1
  <2>3. g[i] = Delta(ts, i) - el
    BY <2>1
  <2>4. g[i - 1] = IF i = 1 THEN 0 ELSE Delta(ts, i - 1) - el
    BY <2>1
  <2>5. i = 1 => Delta(ts, i - 1) = 0
    BY <1>1
  <2> HIDE DEF g
  <2> QED
    BY <2>2, <2>3, <2>4, <2>5
<1>9. \A i \in 0..n : Delta(us, i) = g[i]
  <2> HIDE DEF g, n
  <2>1. AddsUp(g, us, n) /\ n \in Nat
    BY <1>1, <1>7, <1>8 DEF AddsUp
  <2> QED
    BY <2>1, DeltaIs
<1>10. DueOf(us, 0) = DueOf(ts, el)
  <2> DEFINE d == DueOf(ts, el)
  <2>1. d = [t \in DOMAIN d |-> d[t]]
    BY DEF DueOf
  <2>2. /\ DOMAIN d = {ts[i].id : i \in 1..n}
        /\ \A i \in 1..n : d[ts[i].id] = Delta(ts, i) - el
    BY DueFacts
  <2> HIDE DEF d
  <2>3. DOMAIN d = {us[i].id : i \in 1..n}
    BY <1>4, <2>2
  <2>4. \A i \in 1..n : d[us[i].id] = Delta(us, i) - 0
    <3> SUFFICES ASSUME NEW i \in 1..n
                 PROVE  d[us[i].id] = Delta(us, i) - 0
      OBVIOUS
    <3>1. i \in 0..n /\ i # 0 /\ Delta(ts, i) \in Int
      BY <1>1
    <3>2. g[i] = Delta(ts, i) - el
      BY <3>1
    <3> HIDE DEF g, n
    <3>3. Delta(us, i) = Delta(ts, i) - el
      BY <1>9, <3>1, <3>2
    <3>4. d[us[i].id] = Delta(ts, i) - el
      BY <1>4, <2>2
    <3> QED
      BY <3>1, <3>3, <3>4
  <2>5. DueOf(us, 0) = d
    <3> HIDE DEF n
    <3> QED
      BY <1>5, <1>6, <2>1, <2>3, <2>4, DueIs
  <2> QED
    BY <2>5 DEF d
<1>11. us = <<>> <=> ts = <<>>
  BY <1>1, <1>3, <1>5 DEF TimerList
<1> QED
  BY <1>2, <1>4, <1>5, <1>6, <1>10, <1>11 DEF us

\* the times d and that of a timer set to n
WithTimer(d, t, n) == [u \in DOMAIN d \cup {t} |-> IF u = t THEN n ELSE d[u]]

\* Insert leaves the times of the others alone.
LEMMA InsertKeeps ==
  ASSUME NEW ts, TimerList(ts), NEW t \in Timer, \A i \in DOMAIN ts : ts[i].id # t, NEW n \in Nat
  PROVE  /\ TimerList(Insert(ts, t, n))
         /\ DueOf(Insert(ts, t, n), 0) = WithTimer(DueOf(ts, 0), t, n)
<1> DEFINE m == Len(ts)
           before == {i \in DOMAIN ts : \A j \in 1..i : Delta(ts, j) <= n}
           k == Cardinality(before)
           left == n - Delta(ts, k)
           rest == [i \in 1..(m - k) |->
                      [ts[k + i] EXCEPT !.delta = IF i = 1 THEN @ - left ELSE @]]
           us == Insert(ts, t, n)
<1>1. /\ m \in Nat /\ DOMAIN ts = 1..m
      /\ \A i \in 1..m : ts[i] \in TimerEvent /\ ts[i].id \in Timer /\ ts[i].delta \in Int
      /\ Delta(ts, 0) = 0
      /\ \A i \in 0..m : Delta(ts, i) \in Int
      /\ \A i \in 1..m : Delta(ts, i) = Delta(ts, i - 1) + ts[i].delta
  BY TimersAre
<1>2. \A i \in 1..m : i # 1 => ts[i].delta >= 0
  BY <1>1 DEF TimerList
<1>3. k \in 0..m /\ before = 1..k
  <2>1. before \in SUBSET (1..m)
    BY <1>1
  <2>2. ASSUME NEW i \in before, NEW j \in 1..i
        PROVE  j \in before
    <3>1. i \in 1..m /\ i \in Int
      BY <1>1
    <3>2. j \in 1..m /\ \A l \in 1..j : l \in 1..i
      BY <1>1, <3>1
    <3> QED
      BY <1>1, <3>2
  <2> HIDE DEF before, m
  <2> QED
    BY <1>1, <2>1, <2>2, FirstOnes
<1>4. k > 0 => Delta(ts, k) <= n
  <2>1. k > 0 => k \in before
    <3> HIDE DEF before, m
    <3> QED
      BY <1>1, <1>3
  <2> QED
    BY <1>3, <2>1
<1>5. k < m => k + 1 \in 1..m /\ Delta(ts, k + 1) > n
  <2> SUFFICES ASSUME k < m, ~(Delta(ts, k + 1) > n)
               PROVE  FALSE
    <3> HIDE DEF before, m
    <3> QED
      BY <1>1, <1>3
  <2>1. k + 1 \in 1..m /\ Delta(ts, k + 1) <= n
    <3> HIDE DEF before, m
    <3>1. k + 1 \in 1..m
      BY <1>1, <1>3
    <3>2. Delta(ts, k + 1) \in Int
      BY <1>1, <3>1
    <3> QED
      BY <3>1, <3>2
  <2>2. ASSUME NEW j \in 1..(k + 1)
        PROVE  Delta(ts, j) <= n
    <3>1. CASE j = k + 1
      BY <2>1, <3>1
    <3>2. CASE j # k + 1
      <4>1. k \in Int
        <5> HIDE DEF before, m
        <5> QED
          BY <1>1, <1>3
      <4> HIDE DEF k
      <4>2. j \in 1..k
        BY <3>2, <4>1
      <4>3. j \in before
        BY <1>3, <4>2
      <4>4. j \in 1..j
        BY <4>1
      <4> QED
        BY <4>3, <4>4
    <3> QED
      BY <3>1, <3>2
  <2>3. k + 1 \in before
    <3> HIDE DEF k
    <3> QED
      BY <1>1, <2>1, <2>2
  <2> HIDE DEF before, m
  <2>4. k \in Int /\ k + 1 \in 1..k
    BY <1>1, <1>3, <2>3
  <2> QED
    BY <2>4
<1>6. us = SubSeq(ts, 1, k) \o <<[id |-> t, delta |-> left]>> \o rest
  BY DEF Insert
<1> HIDE DEF before
<1>7. /\ left \in Int /\ (k > 0 => left >= 0) /\ (k = 0 => left = n)
      /\ k \in 0..m /\ k \in Nat /\ m - k \in Nat /\ Delta(ts, k) \in Int
  <2>1. k \in 0..m /\ k \in Nat /\ m - k \in Nat /\ Delta(ts, k) \in Int
    <3> HIDE DEF k, m
    <3> QED
      BY <1>1, <1>3
  <2>2. left \in Int /\ (k > 0 => left >= 0)
    <3> HIDE DEF k
    <3> QED
      BY <1>4, <2>1
  <2>3. k = 0 => left = n
    <3> HIDE DEF k
    <3> QED
      BY <1>1
  <2> QED
    BY <2>1, <2>2, <2>3
<1> HIDE DEF left, k, us
\* what is where
<1> DEFINE first == SubSeq(ts, 1, k)
           new == <<[id |-> t, delta |-> left]>>
<1>8. /\ first \in Seq(TimerEvent) /\ Len(first) = k
      /\ \A i \in 1..k : first[i] = ts[i]
  <2>1. ts \in Seq(TimerEvent) /\ k \in 0..Len(ts)
    BY <1>7 DEF TimerList
  <2> HIDE DEF m
  <2>2. 1 \in 1..(Len(ts) + 1) /\ k \in (1 - 1)..Len(ts)
    BY <1>1, <2>1
  <2> QED
    BY <2>1, <2>2, <1>7
<1>9. new \in Seq(TimerEvent) /\ Len(new) = 1 /\ new[1] = [id |-> t, delta |-> left]
  BY <1>7 DEF TimerEvent
<1>10. /\ rest \in Seq(TimerEvent) /\ Len(rest) = m - k /\ DOMAIN rest = 1..(m - k)
       /\ \A i \in 1..(m - k) :
            /\ rest[i].id = ts[k + i].id
            /\ rest[i].delta = IF i = 1 THEN ts[k + 1].delta - left ELSE ts[k + i].delta
  <2>1. ASSUME NEW i \in 1..(m - k)
        PROVE  /\ rest[i] \in TimerEvent /\ rest[i].id = ts[k + i].id
               /\ rest[i].delta = IF i = 1 THEN ts[k + 1].delta - left ELSE ts[k + i].delta
    <3>1. k + i \in 1..m
      BY <1>1, <1>7
    <3>2. ts[k + i] \in TimerEvent
      BY <1>1, <3>1
    <3> QED
      BY <1>7, <3>2 DEF TimerEvent
  <2>2. rest = [i \in 1..(m - k) |-> rest[i]]
    OBVIOUS
  <2> HIDE DEF rest
  <2>3. \A i \in 1..(m - k) : rest[i] \in TimerEvent
    BY <2>1
  <2>4. m - k \in Nat
    BY <1>7
  <2>5. rest \in Seq(TimerEvent) /\ Len(rest) = m - k /\ DOMAIN rest = 1..(m - k)
    BY <2>2, <2>3, <2>4, IsSequence
  <2> QED
    BY <2>1, <2>4, <2>5
<1> HIDE DEF first, new, rest
<1>11. /\ us \in Seq(TimerEvent) /\ Len(us) = m + 1 /\ DOMAIN us = 1..(m + 1)
       /\ \A i \in 1..k : us[i] = ts[i]
       /\ us[k + 1] = [id |-> t, delta |-> left]
       /\ \A i \in 1..(m - k) : us[k + 1 + i] = rest[i]
  <2>1. us = first \o new \o rest
    BY <1>6 DEF first, new
  <2> DEFINE fn == first \o new
  <2>2. /\ fn \in Seq(TimerEvent) /\ Len(fn) = k + 1
        /\ \A i \in 1..k : fn[i] = ts[i]
        /\ fn[k + 1] = [id |-> t, delta |-> left]
    <3> HIDE DEF m
    <3>1. fn \in Seq(TimerEvent) /\ Len(fn) = k + 1
      <4>1. first \o new \in Seq(TimerEvent)
        BY <1>8, <1>9, Joined
      <4>2. Len(first \o new) = Len(first) + Len(new)
        BY <1>8, <1>9, Joined, Zenon
      <4> QED
        BY <1>8, <1>9, <4>1, <4>2
    <3>2. ASSUME NEW i \in 1..(k + 1)
          PROVE  fn[i] = IF i <= k THEN first[i] ELSE new[i - k]
      <4>1. i \in 1..(Len(first) + Len(new))
        BY <1>8, <1>9
      <4>2. first \in Seq(TimerEvent) /\ new \in Seq(TimerEvent)
        BY <1>8, <1>9
      <4>3. fn[i] = IF i <= Len(first) THEN first[i] ELSE new[i - Len(first)]
        BY <4>1, <4>2, JoinedAt, Zenon
      <4> QED
        BY <1>8, <4>3
    <3>3. \A i \in 1..k : i \in 1..(k + 1) /\ i <= k
      BY <1>7
    <3>4. k + 1 \in 1..(k + 1) /\ ~(k + 1 <= k) /\ (k + 1) - k = 1
      BY <1>7
    <3> QED
      BY <1>8, <1>9, <3>1, <3>2, <3>3, <3>4
  <2> HIDE DEF fn, m
  <2>3. us = fn \o rest
    BY <2>1 DEF fn
  <2>4. us \in Seq(TimerEvent) /\ Len(us) = m + 1
    <3>1. (k + 1) + (m - k) = m + 1
      BY <1>1, <1>7
    <3>2. fn \o rest \in Seq(TimerEvent)
      BY <1>10, <2>2, Joined
    <3>3. Len(fn \o rest) = Len(fn) + Len(rest)
      BY <1>10, <2>2, Joined, Zenon
    <3> QED
      BY <1>10, <2>2, <2>3, <3>1, <3>2, <3>3
  <2>5. DOMAIN us = 1..(m + 1)
    BY <2>4, LenProperties
  <2>6. ASSUME NEW i \in 1..(m + 1)
        PROVE  us[i] = IF i <= k + 1 THEN fn[i] ELSE rest[i - (k + 1)]
    <3>1. (k + 1) + (m - k) = m + 1
      BY <1>1, <1>7
    <3> QED
      <4>1. i \in 1..(Len(fn) + Len(rest))
        BY <1>10, <2>2, <3>1
      <4>2. fn \in Seq(TimerEvent) /\ rest \in Seq(TimerEvent)
        BY <1>10, <2>2
      <4>3. (fn \o rest)[i] = IF i <= Len(fn) THEN fn[i] ELSE rest[i - Len(fn)]
        BY <4>1, <4>2, JoinedAt, Zenon
      <4> QED
        BY <2>2, <2>3, <4>3
  <2>7. \A i \in 1..(k + 1) : i \in 1..(m + 1) /\ i <= k + 1
    BY <1>1, <1>7
  <2>8. \A i \in 1..k : i \in 1..(k + 1)
    BY <1>7
  <2>9. k + 1 \in 1..(k + 1)
    BY <1>7
  <2>10. ASSUME NEW i \in 1..(m - k)
         PROVE  us[k + 1 + i] = rest[i]
    <3>1. k + 1 + i \in 1..(m + 1) /\ ~(k + 1 + i <= k + 1) /\ (k + 1 + i) - (k + 1) = i
      BY <1>1, <1>7
    <3> QED
      BY <2>6, <3>1
  <2> QED
    BY <2>2, <2>4, <2>5, <2>6, <2>7, <2>8, <2>9, <2>10
<1> HIDE DEF m
\* the place in us of each timer
<1>12. ASSUME NEW i \in 1..(m + 1)
       PROVE  /\ i \in 1..k =>
                   us[i].id = ts[i].id /\ us[i].delta = ts[i].delta /\ i \in 1..m
              /\ i = k + 1 => us[i].id = t /\ us[i].delta = left
              /\ i \notin 1..(k + 1) =>
                   /\ i - 1 \in 1..m /\ us[i].id = ts[i - 1].id
                   /\ us[i].delta = IF i = k + 2 THEN ts[i - 1].delta - left ELSE ts[i - 1].delta
  <2>1. CASE i \in 1..k
    <3>1. i # k + 1 /\ i \in 1..(k + 1) /\ i \in 1..m
      BY <1>1, <1>7, <2>1
    <3> QED
      BY <1>11, <2>1, <3>1
  <2>2. CASE i = k + 1
    <3>1. i \notin 1..k /\ i \in 1..(k + 1)
      BY <1>7, <2>2
    <3> QED
      BY <1>11, <2>2, <3>1
  <2>3. CASE i \notin 1..(k + 1)
    <3> DEFINE j == i - (k + 1)
    <3>1. /\ j \in 1..(m - k) /\ k + 1 + j = i /\ k + j = i - 1 /\ i - 1 \in 1..m
          /\ i \notin 1..k /\ i # k + 1 /\ (j = 1 <=> i = k + 2) /\ (j = 1 => k + 1 = i - 1)
      BY <1>1, <1>7, <2>3
    <3> HIDE DEF j
    <3>2. us[i] = rest[j]
      BY <1>11, <3>1
    <3>3. rest[j].id = ts[i - 1].id
      BY <1>10, <3>1
    <3>4. rest[j].delta = IF j = 1 THEN ts[k + 1].delta - left ELSE ts[i - 1].delta
      BY <1>10, <3>1
    <3> QED
      BY <3>1, <3>2, <3>3, <3>4
  <2>4. i \in 1..(k + 1) => i \in 1..k \/ i = k + 1
    BY <1>7
  <2> QED
    BY <2>1, <2>2, <2>3, <2>4
\* the times
<1> DEFINE g == [i \in 0..(m + 1) |-> IF i <= k THEN Delta(ts, i)
                                      ELSE IF i = k + 1 THEN n ELSE Delta(ts, i - 1)]
<1>13. g[0] = 0
  BY <1>1, <1>7
<1>14. ASSUME NEW i \in 1..(m + 1)
       PROVE  us[i].delta \in Int /\ g[i] = g[i - 1] + us[i].delta
  <2>0. i \in Nat /\ i \in 0..(m + 1) /\ i - 1 \in 0..(m + 1)
    BY <1>1
  <2>1. CASE i \in 1..k
    <3>1. i <= k /\ i - 1 <= k /\ i \in 1..m
      BY <1>1, <1>7, <2>1
    <3>2. g[i] = Delta(ts, i) /\ g[i - 1] = Delta(ts, i - 1)
      BY <2>0, <3>1
    <3> HIDE DEF g
    <3> QED
      BY <1>1, <1>12, <2>1, <3>1, <3>2
  <2>2. CASE i = k + 1
    <3>1. ~(i <= k) /\ i - 1 <= k /\ i - 1 = k
      BY <1>7, <2>2
    <3>2. g[i] = n /\ g[i - 1] = Delta(ts, k)
      BY <2>0, <2>2, <3>1
    <3>3. us[i].delta = left /\ left = n - Delta(ts, k)
      BY <1>12, <2>2 DEF left
    <3> HIDE DEF g
    <3> QED
      BY <1>7, <3>2, <3>3
  <2>3. CASE i \notin 1..(k + 1)
    <3>1. /\ i - 1 \in 1..m /\ i - 1 \in 0..m /\ (i - 1) - 1 \in 0..m
          /\ ~(i <= k) /\ i # k + 1 /\ ~(i - 1 <= k) /\ (i - 1 = k + 1 <=> i = k + 2)
      BY <1>1, <1>7, <2>0, <2>3
    <3>2. g[i] = Delta(ts, i - 1)
      BY <2>0, <3>1
    <3>3. g[i - 1] = IF i = k + 2 THEN n ELSE Delta(ts, (i - 1) - 1)
      BY <2>0, <3>1
    <3>4. /\ Delta(ts, i - 1) = Delta(ts, (i - 1) - 1) + ts[i - 1].delta
          /\ Delta(ts, i - 1) \in Int /\ Delta(ts, (i - 1) - 1) \in Int /\ ts[i - 1].delta \in Int
      BY <1>1, <3>1
    <3>5. us[i].delta = IF i = k + 2 THEN ts[i - 1].delta - left ELSE ts[i - 1].delta
      BY <1>12, <2>3
    <3>6. i = k + 2 => (i - 1) - 1 = k /\ left = n - Delta(ts, k)
      BY <1>7 DEF left
    <3> HIDE DEF g
    <3>7. us[i].delta \in Int
      BY <1>7, <3>4, <3>5
    <3>8. CASE i = k + 2
      <4>1. Delta(ts, (i - 1) - 1) = Delta(ts, k) /\ left = n - Delta(ts, k)
        BY <3>6, <3>8
      <4>2. us[i].delta = ts[i - 1].delta - left /\ g[i - 1] = n
        BY <3>3, <3>5, <3>8
      <4> QED
        BY <1>7, <3>2, <3>4, <3>7, <4>1, <4>2
    <3>9. CASE i # k + 2
      BY <3>2, <3>3, <3>4, <3>5, <3>7, <3>9
    <3> QED
      BY <3>8, <3>9
  <2>4. i \in 1..(k + 1) => i \in 1..k \/ i = k + 1
    BY <1>7
  <2> QED
    BY <2>1, <2>2, <2>3, <2>4
<1>15. \A i \in 0..(m + 1) : Delta(us, i) = g[i]
  <2> HIDE DEF g
  <2>1. AddsUp(g, us, m + 1)
    BY <1>13, <1>14 DEF AddsUp
  <2>2. m + 1 \in Nat
    BY <1>1
  <2> QED
    BY <2>1, <2>2, DeltaIs
<1>16. TimerList(us)
  <2>1. ASSUME NEW i \in 1..(m + 1), NEW j \in 1..(m + 1), us[i].id = us[j].id
        PROVE  i = j
    <3> DEFINE old(l) == IF l \in 1..k THEN l ELSE l - 1
    <3>1. \A l \in 1..(m + 1) : l # k + 1 => old(l) \in 1..m /\ us[l].id = ts[old(l)].id
      <4> SUFFICES ASSUME NEW l \in 1..(m + 1), l # k + 1
                   PROVE  old(l) \in 1..m /\ us[l].id = ts[old(l)].id
        OBVIOUS
      <4>1. l \in 1..k \/ l \notin 1..(k + 1)
        BY <1>7
      <4>2. l \notin 1..(k + 1) => l \notin 1..k
        BY <1>7
      <4> QED
        BY <1>12, <4>1, <4>2
    <3>2. \A l \in 1..(m + 1) : us[l].id = t => l = k + 1
      BY <1>1, <3>1
    <3>3. k + 1 \in 1..(m + 1) /\ us[k + 1].id = t
      <4>1. k + 1 \in 1..(m + 1)
        BY <1>1, <1>7
      <4> QED
        BY <1>12, <4>1
    <3>4. CASE i = k + 1 \/ j = k + 1
      BY <2>1, <3>2, <3>3, <3>4
    <3>5. CASE i # k + 1 /\ j # k + 1
      <4>1. old(i) = old(j)
        <5>1. /\ old(i) \in 1..m /\ us[i].id = ts[old(i)].id
              /\ old(j) \in 1..m /\ us[j].id = ts[old(j)].id
          BY <3>1, <3>5
        <5> HIDE DEF old
        <5> QED
          BY <1>1, <2>1, <5>1 DEF TimerList
      <4>2. i \in Int /\ j \in Int
        BY <1>1
      <4>3. (i \in 1..k => i <= k) /\ (i \notin 1..k => i - 1 > k)
        BY <1>1, <1>7, <3>5
      <4>4. (j \in 1..k => j <= k) /\ (j \notin 1..k => j - 1 > k)
        BY <1>1, <1>7, <3>5
      <4> QED
        BY <1>7, <4>1, <4>2, <4>3, <4>4
    <3> QED
      BY <3>4, <3>5
  <2>2. ASSUME NEW i \in 1..(m + 1), i # 1
        PROVE  us[i].delta >= 0
    <3>1. CASE i \in 1..k
      BY <1>2, <1>12, <2>2, <3>1
    <3>2. CASE i = k + 1
      <4>1. k > 0 /\ us[i].delta = left
        BY <1>7, <1>12, <2>2, <3>2
      <4> QED
        BY <1>7, <4>1
    <3>3. CASE i \notin 1..(k + 1)
      <4>1. i - 1 \in 1..m /\ us[i].delta =
               IF i = k + 2 THEN ts[i - 1].delta - left ELSE ts[i - 1].delta
        BY <1>12, <3>3
      <4>2. CASE i = k + 2
        <5>1. k < m /\ k + 1 = i - 1 /\ k \in 0..m /\ (k + 1) - 1 = k
          BY <1>1, <1>7, <4>1, <4>2
        <5>2. Delta(ts, k + 1) > n /\ Delta(ts, k + 1) = Delta(ts, k) + ts[k + 1].delta
          BY <1>1, <1>5, <4>1, <5>1
        <5>3. left = n - Delta(ts, k) /\ us[i].delta = ts[k + 1].delta - left
          BY <4>1, <4>2, <5>1 DEF left
        <5>4. ts[k + 1].delta \in Int
          BY <1>1, <4>1, <5>1
        <5> QED
          BY <1>7, <5>2, <5>3, <5>4
      <4>3. CASE i # k + 2
        <5>1. i - 1 # 1
          BY <1>1, <1>7, <3>3, <4>3
        <5> QED
          BY <1>2, <4>1, <4>3, <5>1
      <4> QED
        BY <4>2, <4>3
    <3>4. i \in 1..(k + 1) => i \in 1..k \/ i = k + 1
      BY <1>7
    <3> QED
      BY <3>1, <3>2, <3>3, <3>4
  <2> QED
    BY <1>11, <2>1, <2>2 DEF TimerList
<1> DEFINE old == DueOf(ts, 0)
           d == [u \in DOMAIN old \cup {t} |-> IF u = t THEN n ELSE old[u]]
<1>17. /\ DOMAIN old = {ts[i].id : i \in 1..m}
       /\ \A i \in 1..m : old[ts[i].id] = Delta(ts, i) - 0
  BY DueFacts DEF m
<1> HIDE DEF old
<1>18. DOMAIN d = {us[i].id : i \in 1..(m + 1)}
  <2>1. ASSUME NEW i \in 1..(m + 1)
        PROVE  us[i].id \in DOMAIN d
    <3>1. i \in 1..k \/ i = k + 1 \/ i \notin 1..(k + 1)
      BY <1>7
    <3> QED
      BY <1>12, <1>17, <3>1
  <2>2. ASSUME NEW i \in 1..m
        PROVE  \E j \in 1..(m + 1) : us[j].id = ts[i].id
    <3>1. CASE i \in 1..k
      <4>1. i \in 1..(m + 1)
        BY <1>1
      <4> QED
        BY <1>12, <3>1, <4>1
    <3>2. CASE i \notin 1..k
      <4>1. i + 1 \in 1..(m + 1) /\ i + 1 \notin 1..(k + 1) /\ (i + 1) - 1 = i
        BY <1>1, <1>7, <3>2
      <4> QED
        BY <1>12, <4>1
    <3> QED
      BY <3>1, <3>2
  <2>3. k + 1 \in 1..(m + 1) /\ us[k + 1].id = t
    <3>1. k + 1 \in 1..(m + 1)
      BY <1>1, <1>7
    <3> QED
      BY <1>12, <3>1
  <2> QED
    BY <1>17, <2>1, <2>2, <2>3
<1>19. ASSUME NEW i \in 1..(m + 1)
       PROVE  d[us[i].id] = Delta(us, i) - 0
  <2>0. i \in Nat /\ i \in 0..(m + 1)
    BY <1>1
  <2>1. CASE i \in 1..k
    <3>1. us[i].id = ts[i].id /\ i \in 1..m /\ ts[i].id # t /\ i <= k
      <4>1. us[i].id = ts[i].id /\ i \in 1..m
        BY <1>12, <2>1
      <4>2. i <= k
        BY <1>7, <2>1
      <4> QED
        BY <1>1, <4>1, <4>2
    <3>2. d[us[i].id] = Delta(ts, i) - 0
      BY <1>17, <3>1
    <3>3. g[i] = Delta(ts, i)
      BY <2>0, <3>1
    <3> HIDE DEF d, g
    <3> QED
      BY <1>15, <2>0, <3>2, <3>3
  <2>2. CASE i = k + 1
    <3>1. us[i].id = t /\ ~(i <= k)
      BY <1>7, <1>12, <2>2
    <3>2. d[us[i].id] = n
      BY <3>1
    <3>3. g[i] = n
      BY <2>0, <2>2, <3>1
    <3> HIDE DEF d, g
    <3> QED
      BY <1>15, <2>0, <3>2, <3>3
  <2>3. CASE i \notin 1..(k + 1)
    <3>1. us[i].id = ts[i - 1].id /\ i - 1 \in 1..m /\ ts[i - 1].id # t /\ ~(i <= k) /\ i # k + 1
      <4>1. us[i].id = ts[i - 1].id /\ i - 1 \in 1..m
        BY <1>12, <2>3
      <4>2. ~(i <= k) /\ i # k + 1
        BY <1>7, <2>0, <2>3
      <4> QED
        BY <1>1, <4>1, <4>2
    <3>2. d[us[i].id] = Delta(ts, i - 1) - 0
      BY <1>17, <3>1
    <3>3. g[i] = Delta(ts, i - 1)
      BY <2>0, <3>1
    <3> HIDE DEF d, g
    <3> QED
      BY <1>15, <2>0, <3>2, <3>3
  <2>4. i \in 1..(k + 1) => i \in 1..k \/ i = k + 1
    BY <1>7
  <2> QED
    BY <2>1, <2>2, <2>3, <2>4
<1>20. DueOf(us, 0) = d
  <2>1. d = [u \in DOMAIN d |-> d[u]]
    OBVIOUS
  <2> HIDE DEF d
  <2> QED
    BY <1>11, <1>16, <1>18, <1>19, <2>1, DueIs
<1> QED
  BY <1>16, <1>20 DEF us, old, WithTimer

\* Without the timers of a callback object, the others have their times.
LEMMA WithoutKeeps ==
  ASSUME TimerList(tevents), NEW cb, NEW el \in Int
  PROVE  /\ TimerList(WithoutTimers(cb))
         /\ DueOf(WithoutTimers(cb), el) =
              [t \in {u \in DOMAIN DueOf(tevents, el) : Owner[u] # cb} |-> DueOf(tevents, el)[t]]
<1> DEFINE ts == tevents
           m == Len(ts)
           K == Others(cb)
           c == Cardinality(K)
           time(r) == IF r = 0 THEN 0 ELSE Delta(ts, Nth(K, r))
           us == WithoutTimers(cb)
<1>1. /\ m \in Nat /\ DOMAIN ts = 1..m
      /\ \A i \in 1..m : ts[i] \in TimerEvent /\ ts[i].id \in Timer /\ ts[i].delta \in Int
      /\ \A i \in 0..m : Delta(ts, i) \in Int
  BY TimersAre
<1>2. K \in SUBSET (1..m) /\ K = {i \in 1..m : Owner[ts[i].id] # cb}
  BY <1>1 DEF Others
<1>3. /\ c \in 0..m /\ c \in Nat
      /\ \A i \in K : Rank(K, i) \in 1..c /\ Nth(K, Rank(K, i)) = i
      /\ \A r \in 1..c : Nth(K, r) \in K /\ Rank(K, Nth(K, r)) = r
  <2> HIDE DEF K, m
  <2>1. /\ c \in 0..m
        /\ \A i \in K : Rank(K, i) \in 1..c /\ Nth(K, Rank(K, i)) = i
        /\ \A r \in 1..c : Nth(K, r) \in K /\ Rank(K, Nth(K, r)) = r
    BY <1>1, <1>2, Numbering
  <2> HIDE DEF c
  <2> QED
    BY <1>1, <2>1
<1>4. us = [r \in 1..c |-> [ts[Nth(K, r)] EXCEPT !.delta = time(r) - time(r - 1)]]
  BY DEF WithoutTimers
<1> HIDE DEF us, K, c, m
<1>5. \A r \in 1..c : Nth(K, r) \in 1..m /\ Nth(K, r) \in 0..m
  BY <1>1, <1>2, <1>3
<1>6. ASSUME NEW r \in 1..c
      PROVE  r \in Nat /\ r # 0 /\ r - 1 \in 0..c /\ (r # 1 => r - 1 \in 1..c /\ r - 1 < r)
  BY <1>3
<1>7. \A r \in 0..c : time(r) \in Int
  <2> SUFFICES ASSUME NEW r \in 0..c
               PROVE  time(r) \in Int
    OBVIOUS
  <2>1. r # 0 => r \in 1..c
    BY <1>3
  <2> QED
    BY <1>1, <1>5, <2>1
<1>8. ASSUME NEW r \in 1..c
      PROVE  /\ us[r] \in TimerEvent /\ us[r].id = ts[Nth(K, r)].id
             /\ us[r].delta = time(r) - time(r - 1) /\ us[r].delta \in Int
  <2>1. us[r] = [ts[Nth(K, r)] EXCEPT !.delta = time(r) - time(r - 1)]
    BY <1>4
  <2>2. ts[Nth(K, r)] \in TimerEvent
    BY <1>1, <1>5
  <2>3. time(r) \in Int /\ time(r - 1) \in Int
    <3>1. r \in 0..c /\ r - 1 \in 0..c
      BY <1>3
    <3> HIDE DEF time
    <3> QED
      BY <1>7, <3>1
  <2> HIDE DEF time
  <2>4. time(r) - time(r - 1) \in Int
    BY <2>3
  <2> QED
    BY <2>1, <2>2, <2>4 DEF TimerEvent
<1>9. us \in Seq(TimerEvent) /\ Len(us) = c /\ DOMAIN us = 1..c
  <2>1. us = [r \in 1..c |-> us[r]]
    BY <1>4
  <2> QED
    BY <1>3, <1>8, <2>1, IsSequence
<1>10. TimerList(us)
  <2>1. ASSUME NEW r \in 1..c, NEW q \in 1..c, us[r].id = us[q].id
        PROVE  r = q
    <3>1. Nth(K, r) = Nth(K, q)
      BY <1>1, <1>5, <1>8, <2>1 DEF TimerList
    <3> QED
      BY <1>3, <3>1
  <2>2. ASSUME NEW r \in 1..c, r # 1
        PROVE  us[r].delta >= 0
    <3>1. r - 1 \in 1..c /\ r - 1 < r /\ r # 0 /\ r - 1 # 0
      BY <1>3, <2>2
    <3>2. Nth(K, r - 1) < Nth(K, r)
      BY <1>1, <1>2, <3>1, NthGrows DEF c
    <3>3. /\ Nth(K, r - 1) \in 1..m /\ Nth(K, r) \in 1..m
          /\ Nth(K, r - 1) \in 0..m /\ Nth(K, r) \in 0..m
      BY <1>5, <3>1
    <3>4. Nth(K, r - 1) <= Nth(K, r)
      <4>1. Nth(K, r - 1) \in Int /\ Nth(K, r) \in Int
        BY <1>1, <3>3
      <4> QED
        BY <3>2, <4>1
    <3>5. Delta(ts, Nth(K, r - 1)) <= Delta(ts, Nth(K, r))
      BY <3>3, <3>4, TimesGrow DEF m
    <3>6. us[r].delta = Delta(ts, Nth(K, r)) - Delta(ts, Nth(K, r - 1))
      BY <1>8, <3>1
    <3>7. Delta(ts, Nth(K, r)) \in Int /\ Delta(ts, Nth(K, r - 1)) \in Int
      BY <1>1, <3>3
    <3> QED
      BY <3>5, <3>6, <3>7
  <2> QED
    BY <1>9, <2>1, <2>2 DEF TimerList
<1>11. \A r \in 1..c : Delta(us, r) = Delta(ts, Nth(K, r))
  <2> DEFINE g == [r \in 0..c |-> time(r)]
  <2>1. g[0] = 0
    BY <1>3
  <2>2. ASSUME NEW r \in 1..c
        PROVE  us[r].delta \in Int /\ g[r] = g[r - 1] + us[r].delta
    <3>1. r \in 0..c /\ r - 1 \in 0..c
      BY <1>3
    <3> HIDE DEF time
    <3>2. g[r] = time(r) /\ g[r - 1] = time(r - 1)
      BY <3>1
    <3>3. time(r) \in Int /\ time(r - 1) \in Int
      BY <1>7, <3>1
    <3> QED
      BY <1>8, <3>2, <3>3
  <2>3. \A r \in 0..c : Delta(us, r) = g[r]
    <3> HIDE DEF g, time
    <3>1. AddsUp(g, us, c) /\ c \in Nat
      BY <1>3, <2>1, <2>2 DEF AddsUp
    <3> QED
      BY <3>1, DeltaIs
  <2>4. \A r \in 1..c : r \in 0..c /\ r # 0
    BY <1>3
  <2> QED
    BY <2>3, <2>4
<1> HIDE DEF time
<1> DEFINE old == DueOf(ts, el)
           d == [t \in {u \in DOMAIN old : Owner[u] # cb} |-> old[t]]
<1>12. /\ DOMAIN old = {ts[i].id : i \in 1..m}
       /\ \A i \in 1..m : old[ts[i].id] = Delta(ts, i) - el
  BY DueFacts DEF m
<1> HIDE DEF old
<1>13. DOMAIN d = {us[r].id : r \in 1..c}
  <2>1. ASSUME NEW r \in 1..c
        PROVE  us[r].id \in DOMAIN d
    <3>1. Nth(K, r) \in K /\ Nth(K, r) \in 1..m
      BY <1>3, <1>5
    <3>2. Owner[ts[Nth(K, r)].id] # cb /\ us[r].id = ts[Nth(K, r)].id
      BY <1>2, <1>8, <3>1
    <3> QED
      BY <1>12, <3>1, <3>2
  <2>2. ASSUME NEW t \in DOMAIN d
        PROVE  \E r \in 1..c : t = us[r].id
    <3>1. PICK i \in 1..m : t = ts[i].id
      BY <1>12
    <3>2. i \in K
      BY <1>2, <3>1
    <3>3. Rank(K, i) \in 1..c /\ Nth(K, Rank(K, i)) = i
      BY <1>3, <3>2
    <3>4. us[Rank(K, i)].id = ts[i].id
      BY <1>8, <3>3
    <3> QED
      BY <3>1, <3>3, <3>4
  <2> QED
    BY <2>1, <2>2
<1>14. ASSUME NEW r \in 1..c
       PROVE  d[us[r].id] = Delta(us, r) - el
  <2>1. us[r].id \in DOMAIN d
    BY <1>13
  <2>2. d[us[r].id] = old[us[r].id]
    BY <2>1
  <2> HIDE DEF d
  <2>3. us[r].id = ts[Nth(K, r)].id /\ Nth(K, r) \in 1..m
    BY <1>5, <1>8
  <2>4. old[us[r].id] = Delta(ts, Nth(K, r)) - el
    BY <1>12, <2>3
  <2> QED
    BY <1>11, <2>2, <2>4
<1>15. DueOf(us, el) = d
  <2>1. d = [u \in DOMAIN d |-> d[u]]
    OBVIOUS
  <2> HIDE DEF d
  <2> QED
    BY <1>9, <1>10, <1>13, <1>14, <2>1, DueIs
<1> QED
  BY <1>10, <1>15 DEF us, old

\* the list without its first timer, as CallTimer leaves it
Popped(ts) == [i \in 1..(Len(ts) - 1) |->
                 [ts[i + 1] EXCEPT !.delta = IF i = 1 THEN @ + ts[1].delta ELSE @]]

\* The first timer has the least time, and the others keep theirs without it.
LEMMA PopKeeps ==
  ASSUME NEW ts, TimerList(ts), ts # <<>>
  PROVE  /\ 1 \in DOMAIN ts /\ ts[1].id \in Timer /\ ts[1].delta \in Int
         /\ ts[1].id \in DOMAIN DueOf(ts, 0)
         /\ DueOf(ts, 0)[ts[1].id] = ts[1].delta
         /\ \A u \in DOMAIN DueOf(ts, 0) : ts[1].delta <= DueOf(ts, 0)[u]
         /\ TimerList(Popped(ts))
         /\ DueOf(Popped(ts), 0) =
              [t \in DOMAIN DueOf(ts, 0) \ {ts[1].id} |-> DueOf(ts, 0)[t]]
<1> DEFINE m == Len(ts)
           us == Popped(ts)
           old == DueOf(ts, 0)
<1>1. /\ m \in Nat /\ DOMAIN ts = 1..m
      /\ \A i \in 1..m : ts[i] \in TimerEvent /\ ts[i].id \in Timer /\ ts[i].delta \in Int
      /\ Delta(ts, 0) = 0
      /\ \A i \in 0..m : Delta(ts, i) \in Int
      /\ \A i \in 1..m : Delta(ts, i) = Delta(ts, i - 1) + ts[i].delta
  BY TimersAre
<1>2. 1 \in 1..m /\ m - 1 \in Nat
  <2>1. m # 0
    BY <1>1, EmptySeq DEF TimerList
  <2> HIDE DEF m
  <2> QED
    BY <1>1, <2>1
<1>3. /\ DOMAIN old = {ts[i].id : i \in 1..m}
      /\ \A i \in 1..m : old[ts[i].id] = Delta(ts, i) - 0
  BY DueFacts
<1>4. us = [i \in 1..(m - 1) |->
              [ts[i + 1] EXCEPT !.delta = IF i = 1 THEN @ + ts[1].delta ELSE @]]
  BY DEF Popped
<1>5. \A i \in 1..m, j \in 1..m : i <= j => Delta(ts, i) <= Delta(ts, j)
  BY TimesGrow
<1> HIDE DEF m, us, old
<1>6. \A i \in 1..(m - 1) : i + 1 \in 1..m /\ i \in 0..m /\ i + 1 \in 0..m /\ i \in Nat
  BY <1>1
<1>7. Delta(ts, 1) = ts[1].delta /\ ts[1].delta \in Int
  <2>1. 1 - 1 = 0
    OBVIOUS
  <2>2. Delta(ts, 1) = 0 + ts[1].delta
    BY <1>1, <1>2, <2>1
  <2> QED
    BY <1>1, <1>2, <2>2
<1>8. old[ts[1].id] = ts[1].delta
  BY <1>2, <1>3, <1>7
<1>9. \A u \in DOMAIN old : ts[1].delta <= old[u]
  <2> SUFFICES ASSUME NEW i \in 1..m
               PROVE  ts[1].delta <= old[ts[i].id]
    BY <1>3
  <2>1. 1 <= i /\ i \in 0..m
    BY <1>1
  <2>2. Delta(ts, 1) <= Delta(ts, i) /\ Delta(ts, i) \in Int
    BY <1>1, <1>2, <1>5, <2>1
  <2> QED
    BY <1>3, <1>7, <2>2
<1>10. ASSUME NEW i \in 1..(m - 1)
       PROVE  /\ us[i] \in TimerEvent /\ us[i].id = ts[i + 1].id /\ us[i].delta \in Int
              /\ us[i].delta = IF i = 1 THEN ts[i + 1].delta + ts[1].delta ELSE ts[i + 1].delta
  <2>1. us[i] = [ts[i + 1] EXCEPT !.delta = IF i = 1 THEN @ + ts[1].delta ELSE @]
    BY <1>4
  <2>2. ts[i + 1] \in TimerEvent
    BY <1>1, <1>6
  <2> QED
    BY <1>7, <2>1, <2>2 DEF TimerEvent
<1>11. us \in Seq(TimerEvent) /\ Len(us) = m - 1 /\ DOMAIN us = 1..(m - 1)
  <2>1. us = [i \in 1..(m - 1) |-> us[i]]
    BY <1>4
  <2> QED
    BY <1>2, <1>10, <2>1, IsSequence
<1>12. TimerList(us)
  <2>1. ASSUME NEW i \in 1..(m - 1), NEW j \in 1..(m - 1), us[i].id = us[j].id
        PROVE  i = j
    <3>1. ts[i + 1].id = ts[j + 1].id /\ i + 1 \in 1..m /\ j + 1 \in 1..m
      BY <1>6, <1>10, <2>1
    <3>2. i + 1 = j + 1
      BY <1>1, <3>1 DEF TimerList
    <3> QED
      BY <1>6, <3>2
  <2>2. ASSUME NEW i \in 1..(m - 1), i # 1
        PROVE  us[i].delta >= 0
    <3>1. i + 1 \in DOMAIN ts /\ i + 1 # 1
      BY <1>1, <1>6
    <3> QED
      BY <1>10, <2>2, <3>1 DEF TimerList
  <2> QED
    BY <1>11, <2>1, <2>2 DEF TimerList
<1>13. \A i \in 1..(m - 1) : Delta(us, i) = Delta(ts, i + 1)
  <2> DEFINE g == [i \in 0..(m - 1) |-> IF i = 0 THEN 0 ELSE Delta(ts, i + 1)]
  <2>1. g[0] = 0
    BY <1>2
  <2>2. ASSUME NEW i \in 1..(m - 1)
        PROVE  us[i].delta \in Int /\ g[i] = g[i - 1] + us[i].delta
    <3>1. /\ i \in 0..(m - 1) /\ i - 1 \in 0..(m - 1) /\ i # 0 /\ (i = 1 <=> i - 1 = 0)
          /\ (i + 1) - 1 = i /\ (i - 1) + 1 = i
      BY <1>2
    <3>2. g[i] = Delta(ts, i + 1)
      BY <3>1
    <3>3. g[i - 1] = IF i = 1 THEN 0 ELSE Delta(ts, i)
      BY <3>1
    <3> HIDE DEF g
    <3>4. Delta(ts, i + 1) = Delta(ts, i) + ts[i + 1].delta /\ Delta(ts, i) \in Int /\ ts[i + 1].delta \in Int
      BY <1>1, <1>6, <3>1
    <3> QED
      BY <1>7, <1>10, <3>2, <3>3, <3>4
  <2>3. \A i \in 0..(m - 1) : Delta(us, i) = g[i]
    <3> HIDE DEF g
    <3>1. AddsUp(g, us, m - 1) /\ m - 1 \in Nat
      BY <1>2, <2>1, <2>2 DEF AddsUp
    <3> QED
      BY <3>1, DeltaIs
  <2>4. \A i \in 1..(m - 1) : i \in 0..(m - 1) /\ i # 0
    BY <1>2
  <2> QED
    BY <2>3, <2>4
<1> DEFINE d == [t \in DOMAIN old \ {ts[1].id} |-> old[t]]
<1>14. \A i \in 1..m : i # 1 => i - 1 \in 1..(m - 1) /\ (i - 1) + 1 = i
  BY <1>1
<1>15. DOMAIN d = {us[i].id : i \in 1..(m - 1)}
  <2>1. ASSUME NEW i \in 1..(m - 1)
        PROVE  us[i].id \in DOMAIN d
    <3>1. us[i].id = ts[i + 1].id /\ i + 1 \in 1..m /\ i + 1 # 1
      BY <1>6, <1>10
    <3>2. ts[i + 1].id # ts[1].id
      BY <1>1, <1>2, <3>1 DEF TimerList
    <3> QED
      BY <1>3, <3>1, <3>2
  <2>2. ASSUME NEW t \in DOMAIN d
        PROVE  \E i \in 1..(m - 1) : t = us[i].id
    <3>1. PICK i \in 1..m : t = ts[i].id /\ i # 1
      BY <1>3
    <3>2. i - 1 \in 1..(m - 1) /\ us[i - 1].id = ts[i].id
      BY <1>10, <1>14, <3>1
    <3> QED
      BY <3>1, <3>2
  <2> QED
    BY <2>1, <2>2
<1>16. ASSUME NEW i \in 1..(m - 1)
       PROVE  d[us[i].id] = Delta(us, i) - 0
  <2>1. us[i].id \in DOMAIN d
    BY <1>15
  <2>2. d[us[i].id] = old[us[i].id]
    BY <2>1
  <2> HIDE DEF d
  <2>3. us[i].id = ts[i + 1].id /\ i + 1 \in 1..m
    BY <1>6, <1>10
  <2>4. old[us[i].id] = Delta(ts, i + 1) - 0
    BY <1>3, <2>3
  <2> QED
    BY <1>13, <2>2, <2>4
<1>17. DueOf(us, 0) = d
  <2>1. d = [u \in DOMAIN d |-> d[u]]
    OBVIOUS
  <2> HIDE DEF d
  <2> QED
    BY <1>11, <1>12, <1>15, <1>16, <2>1, DueIs
<1> QED
  BY <1>1, <1>2, <1>3, <1>7, <1>8, <1>9, <1>12, <1>17 DEF us, old

(***************************************************************************)
(* The inductive invariant.                                                *)
(***************************************************************************)

\* Only the innermost run is not in a callback.
Nesting == \A i \in DOMAIN runs : i # Len(runs) => runs[i].at \in {"file", "timer"}

\* An entry is marked only during a pass that will erase it.
Marked == \A i \in DOMAIN fevents : fevents[i].deleted => locked > 0 /\ modified

\* The sleep ends when the first timer is due.
SleepFits ==
  At("wait") /\ tevents # <<>> =>
    sleep <= IF tevents[1].delta - elapsed > 0 THEN tevents[1].delta - elapsed ELSE 0

Inv ==
  /\ TypeOK /\ TimerList(tevents) /\ Nesting
  /\ Marked /\ IteratorsStay /\ PollsetMatches /\ SleepFits

(***************************************************************************)
(* The calls of run().                                                     *)
(***************************************************************************)

\* The innermost run is the last one.
LEMMA TopIs ==
  ASSUME runs \in Seq(Run), runs # <<>>
  PROVE  /\ Len(runs) \in Nat /\ Len(runs) \in 1..Len(runs) /\ DOMAIN runs = 1..Len(runs)
         /\ Top = runs[Len(runs)] /\ Top \in Run
<1>1. Len(runs) \in Nat /\ DOMAIN runs = 1..Len(runs)
  BY LenProperties
<1>2. Len(runs) # 0
  BY EmptySeq
<1>3. Len(runs) \in 1..Len(runs)
  BY <1>1, <1>2
<1>4. Top = runs[Len(runs)]
  BY DEF Top, Last
<1> QED
  BY <1>1, <1>3, <1>4

\* A step of the innermost run leaves the others where they are.
LEMMA NewTop ==
  ASSUME runs \in Seq(Run), runs # <<>>, NEW r \in Run, runs' = [runs EXCEPT ![Len(runs)] = r]
  PROVE  /\ runs' \in Seq(Run) /\ runs' # <<>> /\ Len(runs') = Len(runs)
         /\ DOMAIN runs' = 1..Len(runs) /\ runs'[Len(runs)] = r /\ Top' = r
         /\ \A i \in 1..Len(runs) : i # Len(runs) => runs'[i] = runs[i]
<1> DEFINE n == Len(runs)
<1>1. n \in Nat /\ n \in 1..n /\ DOMAIN runs = 1..n
  BY TopIs
<1>2. /\ runs' = [i \in 1..n |-> IF i = n THEN r ELSE runs[i]]
      /\ \A i \in 1..n : runs[i] \in Run
  <2>1. \A i \in 1..n : runs[i] \in Run
    BY <1>1
  <2>2. runs' = [i \in DOMAIN runs |-> IF i = n THEN r ELSE runs[i]]
    BY Zenon
  <2> QED
    BY <1>1, <2>1, <2>2
<1> HIDE DEF n
<1>3. runs' = [i \in 1..n |-> runs'[i]] /\ \A i \in 1..n : runs'[i] \in Run
  BY <1>2
<1>4. runs' \in Seq(Run) /\ Len(runs') = n /\ DOMAIN runs' = 1..n
  BY <1>1, <1>3, IsSequence
<1>5. runs'[n] = r /\ \A i \in 1..n : i # n => runs'[i] = runs[i]
  BY <1>1, <1>2
<1>6. runs' # <<>>
  BY <1>1, <1>4
<1>7. Top' = r
  BY <1>4, <1>5 DEF Top, Last
<1> QED
  BY <1>4, <1>5, <1>6, <1>7 DEF n

\* A nested run comes after the others.
LEMMA NewRun ==
  ASSUME runs \in Seq(Run), NEW r \in Run, runs' = Append(runs, r)
  PROVE  /\ runs' \in Seq(Run) /\ runs' # <<>>
         /\ Len(runs) \in Nat /\ Len(runs') = Len(runs) + 1
         /\ DOMAIN runs = 1..Len(runs) /\ DOMAIN runs' = 1..(Len(runs) + 1)
         /\ runs'[Len(runs) + 1] = r /\ Top' = r
         /\ \A i \in 1..Len(runs) : runs'[i] = runs[i]
<1>1. Len(runs) \in Nat /\ DOMAIN runs = 1..Len(runs)
  BY LenProperties
<1>2. /\ runs' \in Seq(Run) /\ runs' # <<>> /\ Len(runs') = Len(runs) + 1
      /\ runs'[Len(runs) + 1] = r /\ \A i \in 1..Len(runs) : runs'[i] = runs[i]
  BY AppendProperties
<1>3. DOMAIN runs' = 1..(Len(runs) + 1)
  BY <1>2, LenProperties
<1>4. Top' = r
  BY <1>2 DEF Top, Last
<1> QED
  BY <1>1, <1>2, <1>3, <1>4

\* When the innermost run returns, the others are left.
LEMMA RunOver ==
  ASSUME runs \in Seq(Run), runs # <<>>, runs' = Front(runs)
  PROVE  /\ runs' \in Seq(Run) /\ Len(runs) \in Nat /\ Len(runs') = Len(runs) - 1
         /\ Len(runs) - 1 \in Nat
         /\ DOMAIN runs' = 1..(Len(runs) - 1)
         /\ \A i \in 1..(Len(runs) - 1) : i \in 1..Len(runs) /\ runs'[i] = runs[i]
<1> DEFINE n == Len(runs)
<1>1. n \in Nat /\ n \in 1..n /\ DOMAIN runs = 1..n
  BY TopIs
<1>2. runs' = [i \in 1..(n - 1) |-> runs[i]]
  BY <1>1 DEF Front
<1>3. \A i \in 1..n : runs[i] \in Run
  BY <1>1
<1> HIDE DEF n
<1>4. n - 1 \in Nat /\ \A i \in 1..(n - 1) : i \in 1..n
  BY <1>1
<1>5. runs' = [i \in 1..(n - 1) |-> runs'[i]] /\ \A i \in 1..(n - 1) : runs'[i] \in Run
  BY <1>2, <1>3, <1>4
<1>6. runs' \in Seq(Run) /\ Len(runs') = n - 1 /\ DOMAIN runs' = 1..(n - 1)
  BY <1>4, <1>5, IsSequence
<1> QED
  BY <1>1, <1>2, <1>4, <1>6 DEF n

\* What a run may become.
LEMMA Becomes ==
  ASSUME NEW r \in Run
  PROVE  /\ r.at \in {"wait", "files", "file", "timers", "timer"}
         /\ r.pos \in 1..(MaxEvents + 1) /\ r.ready \in SUBSET Fd
         /\ r.at = "wait" => /\ \A hits \in SUBSET Fd : [r EXCEPT !.at = "files", !.ready = hits] \in Run
                             /\ [r EXCEPT !.at = "timers"] \in Run
         /\ r.at = "file" => \A p \in 1..(MaxEvents + 1) : [r EXCEPT !.at = "files", !.pos = p] \in Run
         /\ r.at = "timer" => [r EXCEPT !.at = "timers"] \in Run
<1>1. CASE r \in Fresh
  BY <1>1 DEF Run, Fresh
<1>2. CASE r \in Called
  BY <1>2 DEF Run, Called
<1> QED
  BY <1>1, <1>2 DEF Run

\* the runs in the middle of a pass over fevents
Passes(rs) == {i \in DOMAIN rs : rs[i].at \in {"files", "file"}}

\* locked counts them.
LEMMA LockedIs ==
  ASSUME NEW rs \in Seq(Run)
  PROVE  /\ IsFiniteSet(Passes(rs)) /\ Cardinality(Passes(rs)) \in Nat
         /\ Cardinality(Passes(rs)) > 0 <=> Passes(rs) # {}
<1>1. Len(rs) \in Nat /\ DOMAIN rs = 1..Len(rs)
  BY LenProperties
<1>2. Passes(rs) \in SUBSET (1..Len(rs))
  BY <1>1 DEF Passes
<1>3. IsFiniteSet(Passes(rs)) /\ Cardinality(Passes(rs)) \in Nat
  BY <1>1, <1>2, PlacesFinite
<1> QED
  BY <1>3, FS_EmptySet

\* the innermost run goes on from one place to another
Moves(from, to) == At(from) /\ \E r \in Run : r.at = to /\ runs' = [runs EXCEPT ![Len(runs)] = r]

\* The others stay; the number of passes changes with this one.
LEMMA MovesKeep ==
  ASSUME runs \in Seq(Run), NEW from, NEW to, Moves(from, to)
  PROVE  /\ runs' \in Seq(Run) /\ runs' # <<>> /\ Len(runs') = Len(runs)
         /\ Len(runs) \in Nat /\ Len(runs) \in 1..Len(runs)
         /\ DOMAIN runs = 1..Len(runs) /\ DOMAIN runs' = 1..Len(runs)
         /\ runs[Len(runs)].at = from /\ runs'[Len(runs)].at = to /\ Top'.at = to
         /\ \A i \in 1..Len(runs) : i # Len(runs) => runs'[i] = runs[i]
         /\ Nesting => Nesting'
         /\ locked \in Nat /\ locked' \in Nat
         /\ (from \in {"files", "file"} <=> to \in {"files", "file"}) => locked' = locked
<1>1. PICK r \in Run : r.at = to /\ runs' = [runs EXCEPT ![Len(runs)] = r]
  BY DEF Moves
<1>2. runs # <<>> /\ Top.at = from
  BY DEF Moves, At
<1>3. /\ Len(runs) \in Nat /\ Len(runs) \in 1..Len(runs) /\ DOMAIN runs = 1..Len(runs)
      /\ runs[Len(runs)].at = from
  BY <1>2, TopIs
<1>4. /\ runs' \in Seq(Run) /\ runs' # <<>> /\ Len(runs') = Len(runs)
      /\ DOMAIN runs' = 1..Len(runs) /\ runs'[Len(runs)].at = to /\ Top'.at = to
      /\ \A i \in 1..Len(runs) : i # Len(runs) => runs'[i] = runs[i]
  BY <1>1, <1>2, NewTop
<1>5. Nesting => Nesting'
  BY <1>3, <1>4 DEF Nesting
<1>6. locked = Cardinality(Passes(runs)) /\ locked' = Cardinality(Passes(runs'))
  BY DEF locked, Passes
<1>7. locked \in Nat /\ locked' \in Nat
  BY <1>4, <1>6, LockedIs
<1>8. ASSUME from \in {"files", "file"} <=> to \in {"files", "file"}
      PROVE  locked' = locked
  <2>1. Passes(runs') = Passes(runs)
    BY <1>3, <1>4, <1>8 DEF Passes
  <2> QED
    BY <1>6, <2>1
<1> QED
  BY <1>3, <1>4, <1>5, <1>7, <1>8

\* Handlers that move the innermost run.
LEMMA Movers ==
  ASSUME Inv
  PROVE  /\ Return => Moves("file", "files") \/ Moves("timer", "timers")
         /\ \A hits \in SUBSET Fd : Ready(hits) => Moves("wait", "files")
         /\ TimeUp => Moves("wait", "timers")
         /\ Interrupted => Moves("wait", "timers")
         /\ CallFile => Moves("files", "file")
         /\ FilesDone => Moves("files", "timers")
         /\ CallTimer => Moves("timers", "timer")
<1>1. runs \in Seq(Run)
  BY DEF Inv, TypeOK
<1>2. /\ MaxEvents \in Nat /\ Len(fevents) \in Nat /\ Len(fevents) <= MaxEvents
      /\ DOMAIN fevents = 1..Len(fevents) /\ 1 \in 1..(MaxEvents + 1)
      /\ \A i \in 1..Len(fevents) : fevents[i].w \in Watch
  <2>1. MaxEvents \in Nat
    BY ConstantsAssumption
  <2>2. fevents \in Seq(FileEvent) /\ Len(fevents) <= MaxEvents
    BY DEF Inv, TypeOK
  <2>3. Len(fevents) \in Nat /\ DOMAIN fevents = 1..Len(fevents)
    BY <2>2, LenProperties
  <2>4. \A i \in 1..Len(fevents) : fevents[i] \in FileEvent
    BY <2>2, <2>3
  <2>5. \A i \in 1..Len(fevents) : fevents[i].w \in Watch
    BY <2>4 DEF FileEvent
  <2> QED
    BY <2>1, <2>2, <2>3, <2>5
<1>3. /\ \A i \in 1..Len(fevents) : i \in 1..(MaxEvents + 1) /\ i + 1 \in 1..(MaxEvents + 1)
      /\ {} \in SUBSET Fd
  BY <1>2
<1>4. runs # <<>> => /\ Len(runs) \in DOMAIN runs /\ Top = runs[Len(runs)]
                     /\ Top \in Run /\ Top.pos \in 1..(MaxEvents + 1) /\ Top.ready \in SUBSET Fd
  BY <1>1, TopIs, Becomes
<1>5. ASSUME Return
      PROVE  Moves("file", "files") \/ Moves("timer", "timers")
  <2>1. CASE At("file")
    <3>1. runs # <<>> /\ Top.at = "file"
      BY <2>1 DEF At
    <3>2. Top.pos \in DOMAIN fevents
      BY <1>4, <3>1 DEF Inv, IteratorsStay
    <3>3. Top.pos + 1 \in 1..(MaxEvents + 1)
      BY <1>2, <1>3, <3>2
    <3> DEFINE r == [Top EXCEPT !.at = "files", !.pos = @ + 1]
    <3>4. r \in Run
      BY <1>4, <3>1, <3>3, Becomes
    <3>5. r.at = "files"
      <4>1. CASE Top \in Fresh
        BY <4>1 DEF Fresh
      <4>2. CASE Top \in Called
        BY <4>2 DEF Called
      <4> QED
        BY <1>4, <3>1, <4>1, <4>2 DEF Run
    <3>6. runs' = [runs EXCEPT ![Len(runs)] = r]
      BY <1>5, <3>1 DEF Return, SetTop
    <3> QED
      BY <2>1, <3>4, <3>5, <3>6 DEF Moves
  <2>2. CASE At("timer")
    <3>1. runs # <<>> /\ Top.at = "timer"
      BY <2>2 DEF At
    <3> DEFINE r == [Top EXCEPT !.at = "timers"]
    <3>2. r \in Run
      BY <1>4, <3>1, Becomes
    <3>3. r.at = "timers"
      <4>1. CASE Top \in Fresh
        BY <4>1 DEF Fresh
      <4>2. CASE Top \in Called
        BY <4>2 DEF Called
      <4> QED
        BY <1>4, <3>1, <4>1, <4>2 DEF Run
    <3>4. runs' = [runs EXCEPT ![Len(runs)] = r]
      BY <1>5, <3>1 DEF Return, SetTop
    <3> QED
      BY <2>2, <3>2, <3>3, <3>4 DEF Moves
  <2> QED
    BY <1>5, <2>1, <2>2 DEF Return, InUser
<1>6. ASSUME NEW hits \in SUBSET Fd, Ready(hits)
      PROVE  Moves("wait", "files")
  <2>1. At("wait") /\ runs # <<>> /\ Top.at = "wait"
    BY <1>6 DEF Ready, At
  <2> DEFINE ready == IF poll THEN {} ELSE hits
             r == [Top EXCEPT !.at = "files", !.ready = ready]
  <2>2. ready \in SUBSET Fd
    BY <1>3
  <2>3. runs' = [runs EXCEPT ![Len(runs)] = r]
    BY <1>6 DEF Ready, SetTop
  <2> HIDE DEF ready
  <2>4. r \in Run
    BY <1>4, <2>1, <2>2, Becomes
  <2>5. r.at = "files"
    <3>1. CASE Top \in Fresh
      BY <3>1 DEF Fresh
    <3>2. CASE Top \in Called
      BY <3>2 DEF Called
    <3> QED
      BY <1>4, <2>1, <3>1, <3>2 DEF Run
  <2> QED
    BY <2>1, <2>3, <2>4, <2>5 DEF Moves
<1>7. ASSUME TimeUp \/ Interrupted
      PROVE  Moves("wait", "timers")
  <2>1. At("wait") /\ runs # <<>> /\ Top.at = "wait"
    BY <1>7 DEF TimeUp, Interrupted, At
  <2> DEFINE r == [Top EXCEPT !.at = "timers"]
  <2>2. runs' = [runs EXCEPT ![Len(runs)] = r]
    BY <1>7 DEF TimeUp, Interrupted, SetTop
  <2>3. r \in Run
    BY <1>4, <2>1, Becomes
  <2>4. r.at = "timers"
    <3>1. CASE Top \in Fresh
      BY <3>1 DEF Fresh
    <3>2. CASE Top \in Called
      BY <3>2 DEF Called
    <3> QED
      BY <1>4, <2>1, <3>1, <3>2 DEF Run
  <2> QED
    BY <2>1, <2>2, <2>3, <2>4 DEF Moves
<1>8. ASSUME CallFile
      PROVE  Moves("files", "file")
  <2>1. At("files") /\ runs # <<>> /\ Top.at = "files"
    BY <1>8 DEF CallFile, At
  <2>2. PICK i \in Top.pos..Len(fevents) :
          SetTop([at |-> "file", pos |-> i, ready |-> Top.ready, call |-> fevents[i].w])
    BY <1>8 DEF CallFile
  <2>3. i \in 1..Len(fevents)
    BY <1>2, <1>4, <2>1
  <2> DEFINE r == [at |-> "file", pos |-> i, ready |-> Top.ready, call |-> fevents[i].w]
  <2>4. r \in Called
    BY <1>2, <1>3, <1>4, <2>1, <2>3 DEF Called
  <2> QED
    BY <2>1, <2>2, <2>4 DEF Moves, SetTop, Run
<1>9. ASSUME FilesDone
      PROVE  Moves("files", "timers")
  <2> DEFINE r == [at |-> "timers", pos |-> 1, ready |-> {}]
  <2>1. r \in Fresh
    BY <1>2, <1>3 DEF Fresh
  <2> QED
    BY <1>9, <2>1 DEF Moves, FilesDone, SetTop, Run
<1>10. ASSUME CallTimer
       PROVE  Moves("timers", "timer")
  <2> DEFINE r == [at |-> "timer", pos |-> 1, ready |-> {}, call |-> update_tevents[1].id]
  <2>1. tevents # <<>> /\ TimerList(tevents)
    BY <1>10 DEF CallTimer, Inv
  <2>2. 1 \in DOMAIN tevents /\ tevents[1].id \in Timer
    BY <2>1, PopKeeps
  <2>3. update_tevents[1].id = tevents[1].id
    <3>1. tevents[1] \in TimerEvent
      BY <2>1, <2>2 DEF TimerList
    <3>2. update_tevents[1] = [tevents[1] EXCEPT !.delta = @ - elapsed]
      BY <2>1, <2>2 DEF update_tevents
    <3> QED
      BY <3>1, <3>2 DEF TimerEvent
  <2>4. r \in Called
    BY <1>2, <1>3, <2>2, <2>3 DEF Called
  <2>5. At("timers") /\ SetTop(r)
    BY <1>10 DEF CallTimer
  <2> QED
    BY <2>4, <2>5 DEF Moves, SetTop, Run
<1> QED
  BY <1>5, <1>6, <1>7, <1>8, <1>9, <1>10

\* run() begins in a callback or outside, RunEnd is the end of the innermost
\* run, and other actions are none of any run's.
LEMMA Begins ==
  ASSUME Inv, run
  PROVE  /\ runs' \in Seq(Run) /\ runs' # <<>> /\ Len(runs) \in Nat /\ Len(runs') = Len(runs) + 1
         /\ DOMAIN runs = 1..Len(runs) /\ DOMAIN runs' = 1..(Len(runs) + 1)
         /\ runs'[Len(runs) + 1].at = "wait" /\ Top'.at = "wait"
         /\ \A i \in 1..Len(runs) : runs'[i] = runs[i]
         /\ Nesting' /\ locked \in Nat /\ locked' = locked
<1> DEFINE r == [at |-> "wait", pos |-> 1, ready |-> {}]
<1>1. r \in Run
  <2>1. MaxEvents \in Nat
    BY ConstantsAssumption
  <2>2. 1 \in 1..(MaxEvents + 1) /\ {} \in SUBSET Fd
    BY <2>1
  <2> QED
    BY <2>2 DEF Run, Fresh
<1>2. runs \in Seq(Run) /\ runs' = Append(runs, r)
  BY DEF Inv, TypeOK, run
<1>3. r.at = "wait"
  OBVIOUS
<1> HIDE DEF r
<1>4. /\ runs' \in Seq(Run) /\ runs' # <<>> /\ Len(runs) \in Nat /\ Len(runs') = Len(runs) + 1
      /\ DOMAIN runs = 1..Len(runs) /\ DOMAIN runs' = 1..(Len(runs) + 1)
      /\ runs'[Len(runs) + 1] = r /\ Top' = r
      /\ \A i \in 1..Len(runs) : runs'[i] = runs[i]
  BY <1>1, <1>2, NewRun
<1>5. Nesting'
  <2> SUFFICES ASSUME NEW i \in 1..(Len(runs) + 1), i # Len(runs) + 1
               PROVE  runs'[i].at \in {"file", "timer"}
    BY <1>4 DEF Nesting
  <2>1. i \in 1..Len(runs) /\ runs # <<>>
    BY <1>2, <1>4
  <2>2. runs'[i] = runs[i]
    BY <1>4, <2>1
  <2>3. CASE i = Len(runs)
    <3>1. At("file") \/ At("timer")
      BY <2>1 DEF run, InUser
    <3>2. Top = runs[i]
      BY <1>2, <2>1, <2>3, TopIs
    <3> QED
      BY <2>2, <3>1, <3>2 DEF At
  <2>4. CASE i # Len(runs)
    BY <1>4, <2>1, <2>2, <2>4 DEF Inv, Nesting
  <2> QED
    BY <2>3, <2>4
<1>6. Passes(runs') = Passes(runs)
  <2>1. \A i \in 1..(Len(runs) + 1) : i \in 1..Len(runs) \/ i = Len(runs) + 1
    BY <1>4
  <2>2. \A i \in 1..Len(runs) : i \in 1..(Len(runs) + 1)
    BY <1>4
  <2> QED
    BY <1>3, <1>4, <2>1, <2>2 DEF Passes
<1>7. locked = Cardinality(Passes(runs)) /\ locked' = Cardinality(Passes(runs'))
  BY DEF locked, Passes
<1>8. locked \in Nat
  BY <1>2, <1>7, LockedIs
<1> QED
  BY <1>3, <1>4, <1>5, <1>6, <1>7, <1>8

\* The end of a run leaves the others, each in a callback.
LEMMA Ends ==
  ASSUME Inv, RunEnd
  PROVE  /\ runs' \in Seq(Run) /\ Len(runs) \in Nat /\ Len(runs') = Len(runs) - 1
         /\ Len(runs) - 1 \in Nat
         /\ DOMAIN runs = 1..Len(runs) /\ DOMAIN runs' = 1..(Len(runs) - 1)
         /\ runs[Len(runs)].at = "timers"
         /\ \A i \in 1..(Len(runs) - 1) : i \in 1..Len(runs) /\ runs'[i] = runs[i]
         /\ Nesting' /\ locked \in Nat /\ locked' = locked
         /\ \A i \in DOMAIN runs' : runs'[i].at \in {"file", "timer"}
<1>1. runs \in Seq(Run) /\ runs # <<>> /\ Top.at = "timers" /\ runs' = Front(runs)
  BY DEF Inv, TypeOK, RunEnd, At
<1>2. /\ Len(runs) \in Nat /\ Len(runs) \in 1..Len(runs) /\ DOMAIN runs = 1..Len(runs)
      /\ runs[Len(runs)].at = "timers"
  BY <1>1, TopIs
<1>3. /\ runs' \in Seq(Run) /\ Len(runs') = Len(runs) - 1 /\ Len(runs) - 1 \in Nat
      /\ DOMAIN runs' = 1..(Len(runs) - 1)
      /\ \A i \in 1..(Len(runs) - 1) : i \in 1..Len(runs) /\ runs'[i] = runs[i]
  BY <1>1, RunOver
<1>4. \A i \in DOMAIN runs' : runs'[i].at \in {"file", "timer"}
  <2> SUFFICES ASSUME NEW i \in 1..(Len(runs) - 1)
               PROVE  runs'[i].at \in {"file", "timer"}
    BY <1>3
  <2>0. \A n \in Nat : \A j \in 1..(n - 1) : j # n
    OBVIOUS
  <2>1. i \in DOMAIN runs /\ i # Len(runs) /\ runs'[i] = runs[i]
    BY <1>2, <1>3, <2>0
  <2> QED
    BY <2>1 DEF Inv, Nesting
<1>5. Nesting'
  BY <1>4 DEF Nesting
<1>6. Passes(runs') = Passes(runs)
  <2>0. \A n \in Nat : \A i \in 1..n : i \in 1..(n - 1) \/ i = n
    OBVIOUS
  <2>1. \A i \in 1..Len(runs) : i \in 1..(Len(runs) - 1) \/ i = Len(runs)
    BY <1>2, <2>0
  <2> QED
    BY <1>2, <1>3, <2>1 DEF Passes
<1>7. locked = Cardinality(Passes(runs)) /\ locked' = Cardinality(Passes(runs'))
  BY DEF locked, Passes
<1>8. locked \in Nat
  BY <1>1, <1>7, LockedIs
<1> QED
  BY <1>2, <1>3, <1>4, <1>5, <1>6, <1>7, <1>8

\* What only depends on the runs stays with them.
LEMMA Stays ==
  ASSUME Inv, runs' = runs
  PROVE  locked \in Nat /\ locked' = locked /\ Nesting' /\ Top' = Top
<1>1. locked = Cardinality(Passes(runs)) /\ locked' = Cardinality(Passes(runs'))
  BY DEF locked, Passes
<1>2. runs \in Seq(Run)
  BY DEF Inv, TypeOK
<1>3. locked \in Nat
  BY <1>1, <1>2, LockedIs
<1> QED
  BY <1>1, <1>3 DEF Inv, Nesting, Top

\* The pass that begins is one more.
LEMMA PassBegins ==
  ASSUME Inv, Moves("wait", "files")
  PROVE  locked \in Nat /\ locked' = locked + 1
<1>1. /\ runs \in Seq(Run) /\ runs' \in Seq(Run)
      /\ DOMAIN runs = 1..Len(runs) /\ DOMAIN runs' = 1..Len(runs) /\ Len(runs) \in 1..Len(runs)
      /\ runs[Len(runs)].at = "wait" /\ runs'[Len(runs)].at = "files"
      /\ \A i \in 1..Len(runs) : i # Len(runs) => runs'[i] = runs[i]
  <2>1. runs \in Seq(Run)
    BY DEF Inv, TypeOK
  <2> QED
    BY <2>1, MovesKeep
<1>2. Passes(runs') = Passes(runs) \cup {Len(runs)} /\ Len(runs) \notin Passes(runs)
  BY <1>1 DEF Passes
<1>3. IsFiniteSet(Passes(runs)) /\ Cardinality(Passes(runs)) \in Nat
  BY <1>1, LockedIs
<1>4. Cardinality(Passes(runs')) = Cardinality(Passes(runs)) + 1
  BY <1>2, <1>3, FS_AddElement
<1> QED
  BY <1>3, <1>4 DEF locked, Passes

\* The pass that ends is one less, and the last one is alone.
LEMMA PassEnds ==
  ASSUME Inv, Moves("files", "timers")
  PROVE  /\ locked \in Nat /\ locked >= 1 /\ locked' = locked - 1
         /\ locked = 1 => \A i \in DOMAIN runs' : runs'[i].at # "file"
<1>1. /\ runs \in Seq(Run) /\ runs' \in Seq(Run)
      /\ DOMAIN runs = 1..Len(runs) /\ DOMAIN runs' = 1..Len(runs) /\ Len(runs) \in 1..Len(runs)
      /\ runs[Len(runs)].at = "files" /\ runs'[Len(runs)].at = "timers"
      /\ \A i \in 1..Len(runs) : i # Len(runs) => runs'[i] = runs[i]
  <2>1. runs \in Seq(Run)
    BY DEF Inv, TypeOK
  <2> QED
    BY <2>1, MovesKeep
<1>2. Passes(runs') = Passes(runs) \ {Len(runs)} /\ Len(runs) \in Passes(runs)
  BY <1>1 DEF Passes
<1>3. /\ IsFiniteSet(Passes(runs)) /\ Cardinality(Passes(runs)) \in Nat
      /\ Cardinality(Passes(runs)) > 0 <=> Passes(runs) # {}
      /\ Cardinality(Passes(runs')) \in Nat
      /\ Cardinality(Passes(runs')) > 0 <=> Passes(runs') # {}
  BY <1>1, LockedIs
<1>4. Cardinality(Passes(runs')) = Cardinality(Passes(runs)) - 1
  BY <1>2, <1>3, FS_RemoveElement
<1>5. locked = Cardinality(Passes(runs)) /\ locked' = Cardinality(Passes(runs'))
  BY DEF locked, Passes
<1>6. locked >= 1
  BY <1>2, <1>3, <1>5
<1>7. ASSUME locked = 1, NEW i \in DOMAIN runs', runs'[i].at = "file"
      PROVE  FALSE
  <2>1. Passes(runs') = {}
    BY <1>3, <1>4, <1>5, <1>7
  <2> QED
    BY <1>7, <2>1 DEF Passes
<1> QED
  BY <1>3, <1>4, <1>5, <1>6, <1>7

\* A run that makes the callback of a file event is in a pass.
LEMMA CallbackLocks ==
  ASSUME Inv, NEW i \in DOMAIN runs, runs[i].at = "file"
  PROVE  locked > 0
<1>1. runs \in Seq(Run)
  BY DEF Inv, TypeOK
<1>2. Passes(runs) # {} /\ locked = Cardinality(Passes(runs))
  BY DEF Passes, locked
<1> QED
  BY <1>1, <1>2, LockedIs

(***************************************************************************)
(* The list of file events.                                                *)
(***************************************************************************)

FilesOK(fe) == fe \in Seq(FileEvent) /\ Len(fe) <= MaxEvents

\* What the list of file events is made of.
LEMMA EntriesAre ==
  ASSUME NEW fe, FilesOK(fe)
  PROVE  /\ MaxEvents \in Nat /\ Len(fe) \in Nat /\ DOMAIN fe = 1..Len(fe)
         /\ \A i \in 1..Len(fe) : /\ fe[i] \in FileEvent /\ fe[i].w \in Watch
                                  /\ fe[i].deleted \in BOOLEAN /\ fe[i].idx \in 0..MaxEvents
<1>1. Len(fe) \in Nat /\ DOMAIN fe = 1..Len(fe)
  BY LenProperties DEF FilesOK
<1>2. \A i \in 1..Len(fe) : fe[i] \in FileEvent
  BY <1>1 DEF FilesOK
<1>3. MaxEvents \in Nat
  BY ConstantsAssumption
<1> QED
  BY <1>1, <1>2, <1>3 DEF FileEvent

\* a list made from fe has only entries of fe, those deleted apart ...
NoneNew(fe, ge) ==
  \A r \in DOMAIN ge : ~ge[r].deleted =>
    \E i \in DOMAIN fe : ~fe[i].deleted /\ fe[i].w = ge[r].w /\ fe[i].idx = ge[r].idx

\* ... and its entries are where they were
InPlace(fe, ge) ==
  \A i \in DOMAIN fe : i \in DOMAIN ge /\ ge[i].w = fe[i].w

\* the events registered
Watches(fe) == {fe[i].w : i \in Live(fe)}

\* An event that is registered comes after the others.
LEMMA Registered ==
  ASSUME FilesOK(fevents), NEW w \in Watch, file_event(w)
  PROVE  /\ FilesOK(fevents') /\ InPlace(fevents, fevents')
         /\ Len(fevents) \in Nat /\ DOMAIN fevents = 1..Len(fevents)
         /\ DOMAIN fevents' = 1..(Len(fevents) + 1)
         /\ \A i \in 1..Len(fevents) : i \in DOMAIN fevents' /\ fevents'[i] = fevents[i]
         /\ fevents'[Len(fevents) + 1] = [w |-> w, deleted |-> FALSE, idx |-> 0]
         /\ Watches(fevents') = Watches(fevents) \cup {w}
<1> DEFINE n == Len(fevents)
           e == [w |-> w, deleted |-> FALSE, idx |-> 0]
<1>1. n \in Nat /\ DOMAIN fevents = 1..n /\ MaxEvents \in Nat /\ n < MaxEvents
  BY EntriesAre DEF file_event
<1>2. e \in FileEvent
  BY <1>1 DEF FileEvent
<1>3. fevents \in Seq(FileEvent) /\ fevents' = Append(fevents, e)
  BY DEF FilesOK, file_event
<1> HIDE DEF e
<1>4. /\ fevents' \in Seq(FileEvent) /\ Len(fevents') = n + 1
      /\ fevents'[n + 1] = e /\ \A i \in 1..n : fevents'[i] = fevents[i]
  BY <1>2, <1>3, AppendProperties
<1>5. DOMAIN fevents' = 1..(n + 1)
  BY <1>4, LenProperties
<1> HIDE DEF n
<1>6. FilesOK(fevents')
  BY <1>1, <1>4 DEF FilesOK
<1>7. \A i \in 1..n : i \in DOMAIN fevents'
  BY <1>1, <1>5
<1>8. InPlace(fevents, fevents')
  BY <1>1, <1>4, <1>7 DEF InPlace
<1>9. Watches(fevents') = Watches(fevents) \cup {w}
  <2>1. n + 1 \in DOMAIN fevents' /\ e.w = w /\ e.deleted = FALSE
    BY <1>1, <1>5 DEF e
  <2>2. \A i \in DOMAIN fevents' : i \in 1..n \/ i = n + 1
    BY <1>1, <1>5
  <2>3. Live(fevents') = Live(fevents) \cup {n + 1}
    BY <1>1, <1>4, <1>7, <2>1, <2>2 DEF Live
  <2>4. \A i \in Live(fevents) : fevents'[i] = fevents[i]
    BY <1>1, <1>4 DEF Live
  <2> QED
    BY <1>4, <2>1, <2>3, <2>4 DEF Watches
<1> QED
  BY <1>1, <1>4, <1>5, <1>6, <1>7, <1>8, <1>9 DEF n, e

\* Erasing entries moves the others, and changes nothing else.
LEMMA Erased ==
  ASSUME FilesOK(fevents), NEW K \in SUBSET DOMAIN fevents
  PROVE  /\ FilesOK(Keep(fevents, K)) /\ NoneNew(fevents, Keep(fevents, K))
         /\ \A r \in DOMAIN Keep(fevents, K) :
              \E i \in K : Keep(fevents, K)[r] = fevents[i]
         /\ \A i \in K : \E r \in DOMAIN Keep(fevents, K) : Keep(fevents, K)[r] = fevents[i]
<1> DEFINE ge == Keep(fevents, K)
<1>1. fevents \in Seq(FileEvent) /\ Len(fevents) \in Nat /\ MaxEvents \in Nat /\ Len(fevents) <= MaxEvents
  BY EntriesAre DEF FilesOK
<1>2. /\ ge \in Seq(FileEvent) /\ Len(ge) = Cardinality(K) /\ Cardinality(K) \in 0..Len(fevents)
      /\ \A r \in DOMAIN ge : Nth(K, r) \in K /\ ge[r] = fevents[Nth(K, r)]
      /\ \A i \in K : Rank(K, i) \in DOMAIN ge /\ ge[Rank(K, i)] = fevents[i]
  BY <1>1, Kept
<1> HIDE DEF ge
<1>3. FilesOK(ge)
  <2>1. \A c \in 0..Len(fevents) : c <= MaxEvents
    BY <1>1
  <2> QED
    BY <1>2, <2>1 DEF FilesOK
<1>4. \A r \in DOMAIN ge : \E i \in K : ge[r] = fevents[i]
  BY <1>2
<1>5. \A i \in K : \E r \in DOMAIN ge : ge[r] = fevents[i]
  BY <1>2
<1>6. NoneNew(fevents, ge)
  BY <1>4 DEF NoneNew
<1> QED
  BY <1>3, <1>4, <1>5, <1>6 DEF ge

\* Removal leaves the events of others registered, and no others.
LEMMA RemovedFiles ==
  ASSUME FilesOK(fevents), NEW cb, NEW kinds
  PROVE  /\ FilesOK(WithoutFiles(cb, kinds)) /\ NoneNew(fevents, WithoutFiles(cb, kinds))
         /\ locked > 0 => InPlace(fevents, WithoutFiles(cb, kinds))
         /\ locked > 0 =>
              \A i \in DOMAIN WithoutFiles(cb, kinds) : WithoutFiles(cb, kinds)[i].deleted =>
                i \in DOMAIN fevents /\ (fevents[i].deleted \/ Removed(cb, kinds, fevents[i]))
         /\ ~(locked > 0) =>
              \A r \in DOMAIN WithoutFiles(cb, kinds) :
                \E i \in DOMAIN fevents : WithoutFiles(cb, kinds)[r] = fevents[i]
         /\ Watches(WithoutFiles(cb, kinds)) =
              {w \in Watches(fevents) : w.cb # cb \/ w.ev \notin kinds}
<1> DEFINE n == Len(fevents)
           ge == WithoutFiles(cb, kinds)
           K == Unremoved(cb, kinds)
<1>1. /\ n \in Nat /\ DOMAIN fevents = 1..n /\ fevents \in Seq(FileEvent) /\ n <= MaxEvents
      /\ \A i \in 1..n : fevents[i] \in FileEvent
  BY EntriesAre DEF FilesOK
<1>2. CASE locked > 0
  <2>1. ge = [i \in 1..n |-> [fevents[i] EXCEPT !.deleted = @ \/ Removed(cb, kinds, fevents[i])]]
    BY <1>1, <1>2 DEF WithoutFiles
  <2> HIDE DEF ge, n
  <2>2. ASSUME NEW i \in 1..n
        PROVE  /\ ge[i] \in FileEvent /\ ge[i].w = fevents[i].w /\ ge[i].idx = fevents[i].idx
               /\ ge[i].deleted = (fevents[i].deleted \/ Removed(cb, kinds, fevents[i]))
    <3>1. ge[i] = [fevents[i] EXCEPT !.deleted = fevents[i].deleted \/ Removed(cb, kinds, fevents[i])]
      BY <2>1
    <3>2. fevents[i] \in FileEvent
      BY <1>1
    <3>3. Removed(cb, kinds, fevents[i]) \in BOOLEAN
      BY DEF Removed
    <3> DEFINE b == fevents[i].deleted \/ Removed(cb, kinds, fevents[i])
    <3>4. b \in BOOLEAN /\ ge[i] = [fevents[i] EXCEPT !.deleted = b]
      BY <3>1, <3>2, <3>3 DEF FileEvent
    <3> HIDE DEF b
    <3>5. ge[i] \in FileEvent /\ ge[i].w = fevents[i].w /\ ge[i].idx = fevents[i].idx /\ ge[i].deleted = b
      BY <3>2, <3>4 DEF FileEvent
    <3> QED
      BY <3>5 DEF b
  <2>3. ge \in Seq(FileEvent) /\ Len(ge) = n /\ DOMAIN ge = 1..n
    <3>1. ge = [i \in 1..n |-> ge[i]]
      BY <2>1
    <3> QED
      BY <1>1, <2>2, <3>1, IsSequence
  <2>4. FilesOK(ge) /\ InPlace(fevents, ge)
    BY <1>1, <2>2, <2>3 DEF FilesOK, InPlace
  <2>5. NoneNew(fevents, ge)
    BY <1>1, <2>2, <2>3 DEF NoneNew
  <2>6. \A i \in DOMAIN ge : ge[i].deleted =>
          i \in DOMAIN fevents /\ (fevents[i].deleted \/ Removed(cb, kinds, fevents[i]))
    BY <1>1, <2>2, <2>3
  <2>7. Live(ge) = {i \in Live(fevents) : ~Removed(cb, kinds, fevents[i])}
    BY <1>1, <2>2, <2>3 DEF Live
  <2>8. \A i \in Live(fevents) : i \in 1..n
    BY <1>1 DEF Live
  <2>9. Watches(ge) = {fevents[i].w : i \in {j \in Live(fevents) : ~Removed(cb, kinds, fevents[j])}}
    BY <2>2, <2>7, <2>8 DEF Watches
  <2>10. Watches(ge) = {w \in Watches(fevents) : w.cb # cb \/ w.ev \notin kinds}
    BY <2>9 DEF Watches, Removed
  <2> QED
    BY <1>2, <2>4, <2>5, <2>6, <2>10 DEF ge
<1>3. CASE ~(locked > 0)
  <2>1. ge = Keep(fevents, K)
    BY <1>3 DEF WithoutFiles
  <2>2. K \in SUBSET DOMAIN fevents /\ K = {i \in DOMAIN fevents : ~Removed(cb, kinds, fevents[i])}
    BY DEF Unremoved
  <2> HIDE DEF ge, K, n
  <2>3. /\ FilesOK(ge) /\ NoneNew(fevents, ge)
        /\ \A r \in DOMAIN ge : \E i \in K : ge[r] = fevents[i]
        /\ \A i \in K : \E r \in DOMAIN ge : ge[r] = fevents[i]
    BY <2>1, <2>2, Erased
  <2>4. \A r \in DOMAIN ge : \E i \in DOMAIN fevents : ge[r] = fevents[i]
    BY <2>2, <2>3
  <2>5. Watches(ge) = {w \in Watches(fevents) : w.cb # cb \/ w.ev \notin kinds}
    <3>1. ASSUME NEW r \in Live(ge)
          PROVE  /\ ge[r].w \in Watches(fevents)
                 /\ ge[r].w.cb # cb \/ ge[r].w.ev \notin kinds
      <4>1. PICK i \in K : ge[r] = fevents[i]
        BY <2>3 DEF Live
      <4>2. i \in Live(fevents)
        BY <2>2, <4>1 DEF Live
      <4> QED
        BY <2>2, <4>1, <4>2 DEF Watches, Removed
    <3>2. ASSUME NEW i \in Live(fevents), fevents[i].w.cb # cb \/ fevents[i].w.ev \notin kinds
          PROVE  fevents[i].w \in Watches(ge)
      <4>1. i \in K
        BY <2>2, <3>2 DEF Live, Removed
      <4>2. PICK r \in DOMAIN ge : ge[r] = fevents[i]
        BY <2>3, <4>1
      <4>3. r \in Live(ge)
        BY <4>2 DEF Live
      <4> QED
        BY <4>2, <4>3 DEF Watches
    <3>3. \A w \in Watches(ge) : \E r \in Live(ge) : w = ge[r].w
      BY DEF Watches
    <3>4. \A w \in Watches(fevents) : \E i \in Live(fevents) : w = fevents[i].w
      BY DEF Watches
    <3> QED
      BY <3>1, <3>2, <3>3, <3>4
  <2> QED
    BY <1>3, <2>3, <2>4, <2>5 DEF ge
<1> QED
  BY <1>2, <1>3

\* unlock() forgets the deleted entries and nothing else.
LEMMA Unlocked ==
  ASSUME FilesOK(fevents), unlock
  PROVE  /\ FilesOK(fevents') /\ NoneNew(fevents, fevents')
         /\ Watches(fevents') = Watches(fevents)
         /\ \/ locked = 1 /\ modified /\ (\A i \in DOMAIN fevents' : ~fevents'[i].deleted)
            \/ ~(locked = 1 /\ modified) /\ fevents' = fevents /\ modified' = modified
<1>1. CASE locked = 1 /\ modified
  <2> DEFINE K == Live(fevents)
  <2>1. fevents' = Keep(fevents, K)
    BY <1>1 DEF unlock
  <2>2. K \in SUBSET DOMAIN fevents /\ K = {i \in DOMAIN fevents : ~fevents[i].deleted}
    BY DEF Live
  <2> HIDE DEF K
  <2>3. /\ FilesOK(fevents') /\ NoneNew(fevents, fevents')
        /\ \A r \in DOMAIN fevents' : \E i \in K : fevents'[r] = fevents[i]
        /\ \A i \in K : \E r \in DOMAIN fevents' : fevents'[r] = fevents[i]
    BY <2>1, <2>2, Erased
  <2>4. \A r \in DOMAIN fevents' : ~fevents'[r].deleted
    BY <2>2, <2>3
  <2>5. Live(fevents') = DOMAIN fevents'
    BY <2>4 DEF Live
  <2>6. Watches(fevents') = Watches(fevents)
    <3>1. \A w \in Watches(fevents') : w \in Watches(fevents)
      BY <2>3, <2>5 DEF Watches, K
    <3>2. \A w \in Watches(fevents) : w \in Watches(fevents')
      BY <2>3, <2>5 DEF Watches, K
    <3> QED
      BY <3>1, <3>2
  <2> QED
    BY <1>1, <2>3, <2>4, <2>6
<1>2. CASE ~(locked = 1 /\ modified)
  <2>1. fevents' = fevents /\ modified' = modified
    BY <1>2 DEF unlock
  <2> QED
    BY <1>2, <2>1 DEF NoneNew
<1> QED
  BY <1>1, <1>2

\* A new pollset has the events registered, each at the index of its entry.
LEMMA Built ==
  ASSUME FilesOK(fevents), build_pollset
  PROVE  /\ FilesOK(fevents') /\ InPlace(fevents, fevents')
         /\ DOMAIN fevents' = DOMAIN fevents
         /\ \A i \in DOMAIN fevents : fevents'[i].deleted = fevents[i].deleted
         /\ Watches(fevents') = Watches(fevents)
         /\ pollset \in Seq([fd : Fd, hit : BOOLEAN]) => pollset' \in Seq([fd : Fd, hit : BOOLEAN])
         /\ rebuild \in BOOLEAN => rebuild' \in BOOLEAN
         /\ \/ fevents' = fevents /\ pollset' = pollset
            \/ \A i \in Live(fevents') : /\ fevents'[i].idx \in DOMAIN pollset'
                                         /\ pollset'[fevents'[i].idx].fd = Kind(fevents'[i].w)
<1> DEFINE n == Len(fevents)
           K == Live(fevents)
<1>1. /\ n \in Nat /\ DOMAIN fevents = 1..n /\ n <= MaxEvents /\ MaxEvents \in Nat
      /\ \A i \in 1..n : fevents[i] \in FileEvent /\ fevents[i].w \in Watch
  BY EntriesAre DEF FilesOK
<1>2. CASE ~poll \/ ~rebuild
  <2>1. fevents' = fevents /\ pollset' = pollset /\ rebuild' = rebuild
    BY <1>2 DEF build_pollset
  <2> QED
    BY <2>1 DEF InPlace
<1>3. CASE poll /\ rebuild
  <2>1. /\ fevents' = [i \in DOMAIN fevents |-> IF fevents[i].deleted THEN fevents[i]
                                                ELSE [fevents[i] EXCEPT !.idx = Rank(K, i)]]
        /\ pollset' = [r \in 1..Cardinality(K) |-> [fd |-> Kind(fevents[Nth(K, r)].w), hit |-> FALSE]]
        /\ rebuild' = FALSE
    BY <1>3 DEF build_pollset, NewPollset
  <2>2. K \in SUBSET (1..n) /\ K = {i \in 1..n : ~fevents[i].deleted}
    BY <1>1 DEF Live
  <2> HIDE DEF K, n
  <2>3. /\ Cardinality(K) \in 0..n
        /\ \A i \in K : Rank(K, i) \in 1..Cardinality(K) /\ Nth(K, Rank(K, i)) = i
        /\ \A r \in 1..Cardinality(K) : Nth(K, r) \in K /\ Rank(K, Nth(K, r)) = r
    BY <1>1, <2>2, Numbering
  <2>4. \A i \in K : Rank(K, i) \in 0..MaxEvents
    <3>1. \A r \in 1..Cardinality(K) : r \in 0..MaxEvents
      BY <1>1, <2>3
    <3> QED
      BY <2>3, <3>1
  <2>5. ASSUME NEW i \in 1..n
        PROVE  /\ fevents'[i] \in FileEvent /\ fevents'[i].w = fevents[i].w
               /\ fevents'[i].deleted = fevents[i].deleted
               /\ i \in K => fevents'[i].idx = Rank(K, i)
    <3>1. CASE fevents[i].deleted
      BY <1>1, <2>1, <2>2, <3>1
    <3>2. CASE ~fevents[i].deleted
      <4>1. fevents'[i] = [fevents[i] EXCEPT !.idx = Rank(K, i)] /\ i \in K
        BY <1>1, <2>1, <2>2, <3>2
      <4>2. Rank(K, i) \in 0..MaxEvents /\ fevents[i] \in FileEvent
        BY <1>1, <2>4, <4>1
      <4> QED
        BY <4>1, <4>2 DEF FileEvent
    <3> QED
      BY <3>1, <3>2
  <2>6. fevents' \in Seq(FileEvent) /\ Len(fevents') = n /\ DOMAIN fevents' = 1..n
    <3>1. fevents' = [i \in 1..n |-> fevents'[i]]
      BY <1>1, <2>1
    <3> QED
      BY <1>1, <2>5, <3>1, IsSequence
  <2>7. FilesOK(fevents') /\ InPlace(fevents, fevents')
    BY <1>1, <2>5, <2>6 DEF FilesOK, InPlace
  <2>8. Live(fevents') = K
    BY <2>2, <2>5, <2>6 DEF Live
  <2>9. Watches(fevents') = Watches(fevents)
    <3>1. \A i \in K : fevents'[i].w = fevents[i].w
      BY <2>2, <2>5
    <3> QED
      BY <2>8, <3>1 DEF Watches, K
  <2>10. \A r \in 1..Cardinality(K) :
           pollset'[r] \in [fd : Fd, hit : BOOLEAN] /\ pollset'[r].fd = Kind(fevents[Nth(K, r)].w)
    <3> SUFFICES ASSUME NEW r \in 1..Cardinality(K)
                 PROVE  pollset'[r] \in [fd : Fd, hit : BOOLEAN] /\ pollset'[r].fd = Kind(fevents[Nth(K, r)].w)
      OBVIOUS
    <3>1. pollset'[r] = [fd |-> Kind(fevents[Nth(K, r)].w), hit |-> FALSE]
      BY <2>1
    <3>2. Nth(K, r) \in 1..n
      BY <2>2, <2>3
    <3>3. Kind(fevents[Nth(K, r)].w) \in Fd
      BY <1>1, <3>2 DEF Fd
    <3> QED
      BY <3>1, <3>3
  <2>11. pollset' \in Seq([fd : Fd, hit : BOOLEAN]) /\ DOMAIN pollset' = 1..Cardinality(K)
    <3>1. pollset' = [r \in 1..Cardinality(K) |-> pollset'[r]]
      BY <2>1
    <3>2. Cardinality(K) \in Nat
      BY <1>1, <2>3
    <3> QED
      BY <2>10, <3>1, <3>2, IsSequence
  <2>12. ASSUME NEW i \in Live(fevents')
         PROVE  /\ fevents'[i].idx \in DOMAIN pollset'
                /\ pollset'[fevents'[i].idx].fd = Kind(fevents'[i].w)
    <3>1. i \in K /\ i \in 1..n
      BY <2>2, <2>8
    <3>2. fevents'[i].idx = Rank(K, i) /\ fevents'[i].w = fevents[i].w
      BY <2>5, <3>1
    <3>3. Rank(K, i) \in 1..Cardinality(K) /\ Nth(K, Rank(K, i)) = i
      BY <2>3, <3>1
    <3> QED
      BY <2>10, <2>11, <3>2, <3>3
  <2> QED
    BY <1>1, <2>1, <2>5, <2>6, <2>7, <2>9, <2>11, <2>12
<1> QED
  BY <1>2, <1>3 DEF build_pollset

(***************************************************************************)
(* The steps keep the invariant, part by part.                             *)
(***************************************************************************)

\* What the parts of the invariant say of single variables.
LEMMA State ==
  ASSUME Inv
  PROVE  /\ runs \in Seq(Run) /\ Len(runs) \in Nat /\ DOMAIN runs = 1..Len(runs)
         /\ FilesOK(fevents) /\ Len(fevents) \in Nat /\ DOMAIN fevents = 1..Len(fevents)
         /\ elapsed \in Int /\ sleep \in Nat /\ 0 \in 0..MaxElapsed /\ MaxElapsed \in Nat
         /\ MaxDepth \in Nat /\ NoTimerSleep \in Nat
         /\ update_tevents = Updated(tevents, elapsed)
<1>1. runs \in Seq(Run) /\ FilesOK(fevents) /\ sleep \in Nat /\ elapsed \in 0..MaxElapsed
  BY DEF Inv, TypeOK, FilesOK
<1>2. Len(runs) \in Nat /\ DOMAIN runs = 1..Len(runs)
  BY <1>1, LenProperties
<1>3. Len(fevents) \in Nat /\ DOMAIN fevents = 1..Len(fevents)
  BY <1>1, EntriesAre
<1>4. MaxElapsed \in Nat /\ MaxDepth \in Nat /\ NoTimerSleep \in Nat
  BY ConstantsAssumption
<1>5. elapsed \in Int /\ 0 \in 0..MaxElapsed
  BY <1>1, <1>4
<1>6. update_tevents = Updated(tevents, elapsed)
  BY DEF update_tevents, Updated
<1> QED
  BY <1>1, <1>2, <1>3, <1>4, <1>5, <1>6

\* A new timer goes into the list brought up to date.
LEMMA Sets ==
  ASSUME Inv, NEW t \in Timer, NEW n \in Timeout, tm_event(t, n)
  PROVE  /\ TimerList(Updated(tevents, elapsed)) /\ n \in Nat
         /\ \A i \in DOMAIN Updated(tevents, elapsed) : Updated(tevents, elapsed)[i].id # t
         /\ tevents' = Insert(Updated(tevents, elapsed), t, n) /\ elapsed' = 0
<1> DEFINE us == Updated(tevents, elapsed)
<1>1. TimerList(tevents)
  BY DEF Inv
<1>2. /\ TimerList(us) /\ Len(us) = Len(tevents)
      /\ \A i \in 1..Len(tevents) : us[i].id = tevents[i].id
  BY <1>1, State, UpdateKeeps
<1>3. tevents' = Insert(us, t, n) /\ elapsed' = 0 /\ \A i \in DOMAIN tevents : tevents[i].id # t
  BY State DEF tm_event
<1> HIDE DEF us
<1>4. DOMAIN us = 1..Len(us) /\ DOMAIN tevents = 1..Len(tevents)
  BY <1>1, <1>2, TimersAre
<1>5. n \in Nat
  BY ConstantsAssumption
<1>6. \A i \in DOMAIN us : us[i].id # t
  BY <1>2, <1>3, <1>4
<1> QED
  BY <1>2, <1>3, <1>5, <1>6 DEF us

\* The timers remain a list of differences, none of them negative but the first.
LEMMA TimersStep ==
  ASSUME Inv, Next
  PROVE  TimerList(tevents') /\ elapsed' \in 0..MaxElapsed
<1>1. /\ TimerList(tevents) /\ elapsed \in 0..MaxElapsed /\ 0 \in 0..MaxElapsed
      /\ elapsed \in Int /\ MaxElapsed \in Nat /\ update_tevents = Updated(tevents, elapsed)
  BY State DEF Inv, TypeOK
<1>2. TimerList(Updated(tevents, elapsed))
  BY <1>1, UpdateKeeps
<1>3. ASSUME NEW t \in Timer, NEW n \in Timeout, tm_event(t, n)
      PROVE  TimerList(tevents') /\ elapsed' \in 0..MaxElapsed
  <2>1. /\ n \in Nat /\ tevents' = Insert(Updated(tevents, elapsed), t, n) /\ elapsed' = 0
        /\ \A i \in DOMAIN Updated(tevents, elapsed) : Updated(tevents, elapsed)[i].id # t
    BY <1>3, Sets
  <2>2. TimerList(Insert(Updated(tevents, elapsed), t, n))
    BY <1>2, <2>1, InsertKeeps
  <2> QED
    BY <1>1, <2>1, <2>2
<1>4. ASSUME NEW cb, NEW kinds, remove(cb, kinds)
      PROVE  TimerList(tevents') /\ elapsed' \in 0..MaxElapsed
  <2>1. TimerList(WithoutTimers(cb))
    BY <1>1, WithoutKeeps
  <2>2. elapsed' = elapsed /\ (tevents' = tevents \/ tevents' = WithoutTimers(cb))
    BY <1>4 DEF remove
  <2> QED
    BY <1>1, <2>1, <2>2
<1>5. CASE CallTimer
  <2>1. /\ elapsed' = 0 /\ tevents # <<>>
        /\ tevents' = Popped(Updated(tevents, elapsed))
    BY <1>1, <1>5 DEF CallTimer, Popped
  <2>2. Updated(tevents, elapsed) # <<>>
    BY <1>1, <2>1, UpdateKeeps
  <2>3. TimerList(Popped(Updated(tevents, elapsed)))
    BY <1>2, <2>2, PopKeeps
  <2> QED
    BY <1>1, <2>1, <2>3
<1>6. CASE run \/ RunEnd
  <2>1. tevents' = Updated(tevents, elapsed) /\ elapsed' = 0
    BY <1>1, <1>6 DEF run, RunEnd
  <2> QED
    BY <1>1, <1>2, <2>1
<1>7. CASE Tick
  <2>1. tevents' = tevents /\ (elapsed' = elapsed \/ (elapsed < MaxElapsed /\ elapsed' = elapsed + 1))
    BY <1>7 DEF Tick
  <2>2. elapsed' \in 0..MaxElapsed
    BY <1>1, <2>1
  <2> QED
    BY <1>1, <2>1, <2>2
<1>8. ASSUME tevents' = tevents, elapsed' = elapsed
      PROVE  TimerList(tevents') /\ elapsed' \in 0..MaxElapsed
  BY <1>1, <1>8
<1>9. CASE \E w \in Watch : file_event(w)
  BY <1>8, <1>9 DEF file_event, timeVars
<1>10. CASE \E hits \in SUBSET Fd : Ready(hits)
  BY <1>8, <1>10 DEF Ready, timeVars
<1>11. CASE Return \/ TimeUp \/ Interrupted \/ CallFile \/ FilesDone
  BY <1>8, <1>11 DEF Return, TimeUp, Interrupted, CallFile, FilesDone, timeVars
<1> QED
  BY <1>3, <1>4, <1>5, <1>6, <1>7, <1>9, <1>10, <1>11 DEF Next, Turn

\* Every step but the end of a run leaves the depth as it is, or run() adds one.
LEMMA RunsStep ==
  ASSUME Inv, Next
  PROVE  runs' \in Seq(Run) /\ Len(runs') <= MaxDepth /\ Nesting'
<1>1. /\ runs \in Seq(Run) /\ Len(runs) \in Nat /\ Len(runs) <= MaxDepth /\ Nesting
      /\ MaxDepth \in Nat
  BY State DEF Inv, TypeOK
<1>2. ASSUME NEW from, NEW to, Moves(from, to)
      PROVE  runs' \in Seq(Run) /\ Len(runs') <= MaxDepth /\ Nesting'
  BY <1>1, <1>2, MovesKeep
<1>3. ASSUME runs' = runs
      PROVE  runs' \in Seq(Run) /\ Len(runs') <= MaxDepth /\ Nesting'
  BY <1>1, <1>3, Stays
<1>4. CASE Return \/ TimeUp \/ Interrupted \/ CallFile \/ FilesDone \/ CallTimer
  BY <1>2, <1>4, Movers
<1>5. CASE \E hits \in SUBSET Fd : Ready(hits)
  BY <1>2, <1>5, Movers
<1>6. CASE run
  <2>1. runs' \in Seq(Run) /\ Len(runs') = Len(runs) + 1 /\ Nesting'
    BY <1>6, Begins
  <2>2. Len(runs) < MaxDepth
    BY <1>6 DEF run
  <2>3. Len(runs') <= MaxDepth
    BY <1>1, <2>1, <2>2
  <2> QED
    BY <2>1, <2>3
<1>7. CASE RunEnd
  <2>1. runs' \in Seq(Run) /\ Len(runs') = Len(runs) - 1 /\ Nesting'
    BY <1>7, Ends
  <2>2. Len(runs') <= MaxDepth
    BY <1>1, <2>1
  <2> QED
    BY <2>1, <2>2
<1>8. CASE Tick
  BY <1>3, <1>8 DEF Tick
<1>9. CASE \E w \in Watch : file_event(w)
  BY <1>3, <1>9 DEF file_event
<1>10. CASE \E t \in Timer, n \in Timeout : tm_event(t, n)
  BY <1>3, <1>10 DEF tm_event
<1>11. CASE \E cb \in Cb, kinds \in E!Kinds : remove(cb, kinds)
  BY <1>3, <1>11 DEF remove
<1> QED
  BY <1>4, <1>5, <1>6, <1>7, <1>8, <1>9, <1>10, <1>11 DEF Next, Turn

\* poll() changes what has happened to the entries of pollset, no descriptor.
LEMMA OnlyHits ==
  ASSUME pollset \in Seq([fd : Fd, hit : BOOLEAN]), NEW h \in [DOMAIN pollset -> BOOLEAN],
         pollset' = [i \in DOMAIN pollset |-> [pollset[i] EXCEPT !.hit = h[i]]]
  PROVE  /\ pollset' \in Seq([fd : Fd, hit : BOOLEAN]) /\ DOMAIN pollset' = DOMAIN pollset
         /\ \A i \in DOMAIN pollset : pollset'[i].fd = pollset[i].fd
<1>1. Len(pollset) \in Nat /\ DOMAIN pollset = 1..Len(pollset)
  BY LenProperties
<1> DEFINE PE == [fd : Fd, hit : BOOLEAN]
<1>2. \A i \in 1..Len(pollset) : pollset[i] \in [fd : Fd, hit : BOOLEAN] /\ h[i] \in BOOLEAN
  <2>1. pollset \in Seq(PE)
    OBVIOUS
  <2> HIDE DEF PE
  <2>2. \A i \in 1..Len(pollset) : pollset[i] \in PE
    BY <1>1, <2>1
  <2>3. \A i \in 1..Len(pollset) : h[i] \in BOOLEAN
    BY <1>1
  <2> QED
    BY <2>2, <2>3 DEF PE
<1>3. \A i \in 1..Len(pollset) : pollset'[i] = [pollset[i] EXCEPT !.hit = h[i]]
  BY <1>1
<1>4. ASSUME NEW i \in 1..Len(pollset)
      PROVE  pollset'[i] \in [fd : Fd, hit : BOOLEAN] /\ pollset'[i].fd = pollset[i].fd
  <2>1. pollset[i] \in [fd : Fd, hit : BOOLEAN] /\ h[i] \in BOOLEAN
    BY <1>2
  <2>2. pollset'[i] = [pollset[i] EXCEPT !.hit = h[i]]
    BY <1>3
  <2> QED
    BY <2>1, <2>2
<1>5. pollset' = [i \in 1..Len(pollset) |-> pollset'[i]]
  BY <1>1
<1> QED
  BY <1>1, <1>4, <1>5, IsSequence

\* Ready, time-out and interruption do just that.
LEMMA Polled ==
  ASSUME Inv, TimeUp \/ Interrupted \/ \E hits \in SUBSET Fd : Ready(hits)
  PROVE  /\ pollset' \in Seq([fd : Fd, hit : BOOLEAN]) /\ DOMAIN pollset' = DOMAIN pollset
         /\ \A i \in DOMAIN pollset : pollset'[i].fd = pollset[i].fd
<1>1. pollset \in Seq([fd : Fd, hit : BOOLEAN])
  BY DEF Inv, TypeOK
<1>2. CASE TimeUp
  <2> DEFINE h == [i \in DOMAIN pollset |-> FALSE]
  <2>1. h \in [DOMAIN pollset -> BOOLEAN]
    OBVIOUS
  <2>2. pollset' = [i \in DOMAIN pollset |-> [pollset[i] EXCEPT !.hit = h[i]]]
    BY <1>2 DEF TimeUp
  <2> QED
    BY <1>1, <2>1, <2>2, OnlyHits
<1>3. CASE Interrupted
  <2>1. PICK hits \in SUBSET DOMAIN pollset :
          pollset' = [i \in DOMAIN pollset |-> [pollset[i] EXCEPT !.hit = i \in hits]]
    BY <1>3 DEF Interrupted
  <2> DEFINE h == [i \in DOMAIN pollset |-> i \in hits]
  <2>2. h \in [DOMAIN pollset -> BOOLEAN]
    OBVIOUS
  <2>3. pollset' = [i \in DOMAIN pollset |-> [pollset[i] EXCEPT !.hit = h[i]]]
    BY <2>1
  <2> QED
    BY <1>1, <2>2, <2>3, OnlyHits
<1>4. CASE \E hits \in SUBSET Fd : Ready(hits)
  <2>1. PICK hits \in SUBSET Fd : Ready(hits)
    BY <1>4
  <2>2. CASE poll
    <3> DEFINE h == [i \in DOMAIN pollset |-> pollset[i].fd \in hits]
    <3>1. h \in [DOMAIN pollset -> BOOLEAN]
      OBVIOUS
    <3>2. pollset' = [i \in DOMAIN pollset |-> [pollset[i] EXCEPT !.hit = h[i]]]
      BY <2>1, <2>2 DEF Ready
    <3> QED
      BY <1>1, <3>1, <3>2, OnlyHits
  <2>3. CASE ~poll
    <3>1. pollset' = pollset
      BY <2>1, <2>3 DEF Ready
    <3> QED
      BY <1>1, <3>1
  <2> QED
    BY <2>2, <2>3
<1> QED
  BY <1>2, <1>3, <1>4

\* The lists of events and entries remain lists of them.
LEMMA ListsStep ==
  ASSUME Inv, Next
  PROVE  FilesOK(fevents') /\ pollset' \in Seq([fd : Fd, hit : BOOLEAN])
<1>1. FilesOK(fevents) /\ pollset \in Seq([fd : Fd, hit : BOOLEAN])
  BY State DEF Inv, TypeOK
<1>2. ASSUME fevents' = fevents, pollset' = pollset
      PROVE  FilesOK(fevents') /\ pollset' \in Seq([fd : Fd, hit : BOOLEAN])
  BY <1>1, <1>2
<1>3. ASSUME NEW w \in Watch, file_event(w)
      PROVE  FilesOK(fevents') /\ pollset' \in Seq([fd : Fd, hit : BOOLEAN])
  BY <1>1, <1>3, Registered DEF file_event
<1>4. ASSUME NEW cb, NEW kinds, remove(cb, kinds)
      PROVE  FilesOK(fevents') /\ pollset' \in Seq([fd : Fd, hit : BOOLEAN])
  <2>1. FilesOK(WithoutFiles(cb, kinds))
    BY <1>1, RemovedFiles
  <2>2. fevents' = WithoutFiles(cb, kinds) /\ pollset' = pollset
    BY <1>4 DEF remove
  <2> QED
    BY <1>1, <2>1, <2>2
<1>5. CASE run
  BY <1>1, <1>5, Built DEF run, Inv, TypeOK
<1>6. CASE FilesDone
  BY <1>1, <1>6, Unlocked DEF FilesDone
<1>7. CASE TimeUp \/ Interrupted \/ \E hits \in SUBSET Fd : Ready(hits)
  <2>1. fevents' = fevents
    BY <1>7 DEF TimeUp, Interrupted, Ready
  <2> QED
    BY <1>1, <1>7, <2>1, Polled
<1>8. CASE Return \/ CallFile \/ CallTimer \/ RunEnd \/ Tick
  BY <1>2, <1>8 DEF Return, CallFile, CallTimer, RunEnd, Tick, fileVars
<1>9. CASE \E t \in Timer, n \in Timeout : tm_event(t, n)
  BY <1>2, <1>9 DEF tm_event, fileVars
<1> QED
  BY <1>3, <1>4, <1>5, <1>6, <1>7, <1>8, <1>9 DEF Next, Turn

\* The flags remain flags, the descriptors are those of events.
LEMMA FlagsStep ==
  ASSUME Inv, Next
  PROVE  poll' \in BOOLEAN /\ modified' \in BOOLEAN /\ rebuild' \in BOOLEAN /\ fds' \subseteq Fd
<1> DEFINE Goal == poll' \in BOOLEAN /\ modified' \in BOOLEAN /\ rebuild' \in BOOLEAN /\ fds' \subseteq Fd
<1>1. poll \in BOOLEAN /\ modified \in BOOLEAN /\ rebuild \in BOOLEAN /\ fds \subseteq Fd
  BY DEF Inv, TypeOK
<1>2. Watched(fevents') \subseteq Fd
  <2>1. FilesOK(fevents')
    BY ListsStep
  <2>2. \A i \in DOMAIN fevents' : fevents'[i].w \in Watch
    BY <2>1, EntriesAre
  <2> QED
    BY <2>2 DEF Watched, Live, Fd
<1>3. FilesChanged(fevents') =>
        modified' \in BOOLEAN /\ rebuild' \in BOOLEAN /\ fds' \subseteq Fd
  BY <1>1, <1>2 DEF FilesChanged
<1>4. ASSUME NEW w \in Watch, file_event(w)
      PROVE  Goal
  BY <1>1, <1>3, <1>4 DEF file_event
<1>5. ASSUME NEW cb, NEW kinds, remove(cb, kinds)
      PROVE  Goal
  <2>1. poll' = poll
    BY <1>5 DEF remove
  <2>2. CASE poll
    BY <1>1, <1>5, <2>1, <2>2 DEF remove
  <2>3. CASE ~poll /\ kinds = {"Timer"}
    BY <1>1, <1>5, <2>1, <2>3 DEF remove
  <2>4. CASE ~poll /\ kinds # {"Timer"}
    BY <1>1, <1>3, <1>5, <2>1, <2>4 DEF remove
  <2> QED
    BY <2>2, <2>3, <2>4
<1>6. CASE run
  <2>1. rebuild' = rebuild \/ rebuild' = FALSE
    BY <1>6 DEF run, build_pollset
  <2> QED
    BY <1>1, <1>6, <2>1 DEF run
<1>7. CASE FilesDone
  <2>1. modified' = modified \/ modified' = FALSE
    BY <1>7 DEF FilesDone, unlock
  <2> QED
    BY <1>1, <1>7, <2>1 DEF FilesDone
<1>8. CASE RunEnd
  BY <1>1, <1>8 DEF RunEnd
<1>9. CASE \E hits \in SUBSET Fd : Ready(hits)
  <2>1. modified' = modified \/ modified' = (modified /\ locked > 0)
    BY <1>9 DEF Ready
  <2> QED
    BY <1>1, <1>9, <2>1 DEF Ready
<1>10. CASE Return \/ CallFile \/ CallTimer \/ Tick
  BY <1>1, <1>10 DEF Return, CallFile, CallTimer, Tick, fileVars
<1>11. CASE TimeUp \/ Interrupted
  BY <1>1, <1>11 DEF TimeUp, Interrupted
<1>12. CASE \E t \in Timer, n \in Timeout : tm_event(t, n)
  BY <1>1, <1>12 DEF tm_event, fileVars
<1> QED
  BY <1>4, <1>5, <1>6, <1>7, <1>8, <1>9, <1>10, <1>11, <1>12 DEF Next, Turn

\* A sleep is not longer than to the first timer, and not negative.
LEMMA SleepTime ==
  ASSUME NEW ts, TimerList(ts)
  PROVE  /\ sleeptime(ts) \in Nat
         /\ ts # <<>> => ts[1].delta \in Int /\ sleeptime(ts) = IF ts[1].delta > 0 THEN ts[1].delta ELSE 0
<1>1. CASE ts = <<>>
  BY <1>1, ConstantsAssumption DEF sleeptime
<1>2. CASE ts # <<>>
  <2>1. ts[1].delta \in Int
    BY <1>2, PopKeeps
  <2>2. sleeptime(ts) = IF ts[1].delta > 0 THEN ts[1].delta ELSE 0
    BY <1>2 DEF sleeptime
  <2> QED
    BY <1>2, <2>1, <2>2
<1> QED
  BY <1>1, <1>2

\* The time that is left passes, and when a run waits it is what run() computes.
LEMMA SleepStep ==
  ASSUME Inv, Next
  PROVE  sleep' \in Nat
<1>1. sleep \in Nat /\ 0 \in Nat
  BY State
<1>2. CASE run
  <2>1. TimerList(tevents')
    BY TimersStep
  <2>2. sleep' = sleeptime(tevents')
    BY <1>2 DEF run
  <2> QED
    BY <2>1, <2>2, SleepTime
<1>3. CASE Tick
  <2>1. CASE At("wait")
    <3>1. sleep > 0 /\ sleep' = sleep - 1
      BY <1>3, <2>1 DEF Tick
    <3> QED
      BY <1>1, <3>1
  <2>2. CASE ~At("wait")
    BY <1>1, <1>3, <2>2 DEF Tick
  <2> QED
    BY <2>1, <2>2
<1>4. CASE Interrupted \/ \E hits \in SUBSET Fd : Ready(hits)
  BY <1>1, <1>4 DEF Interrupted, Ready
<1>5. CASE Return \/ TimeUp \/ CallFile \/ FilesDone \/ CallTimer \/ RunEnd
  BY <1>1, <1>5 DEF Return, TimeUp, CallFile, FilesDone, CallTimer, RunEnd
<1>6. CASE \E w \in Watch : file_event(w)
  BY <1>1, <1>6 DEF file_event
<1>7. CASE \E t \in Timer, n \in Timeout : tm_event(t, n)
  BY <1>1, <1>7 DEF tm_event
<1>8. CASE \E cb \in Cb, kinds \in E!Kinds : remove(cb, kinds)
  BY <1>1, <1>8 DEF remove
<1> QED
  BY <1>2, <1>3, <1>4, <1>5, <1>6, <1>7, <1>8 DEF Next, Turn

\* Types are kept.
LEMMA TypeStep ==
  ASSUME Inv, Next
  PROVE  TypeOK'
<1>1. TimerList(tevents') /\ elapsed' \in 0..MaxElapsed
  BY TimersStep
<1>2. /\ tevents' \in Seq(TimerEvent)
      /\ \A i, j \in DOMAIN tevents' : tevents'[i].id = tevents'[j].id => i = j
  BY <1>1 DEF TimerList
<1>3. fevents' \in Seq(FileEvent) /\ Len(fevents') <= MaxEvents
  BY ListsStep DEF FilesOK
<1> QED
  BY <1>1, <1>2, <1>3, RunsStep, ListsStep, FlagsStep, SleepStep DEF TypeOK

\* An entry is marked during a pass, and the last pass erases what is marked.
LEMMA MarkedStep ==
  ASSUME Inv, Next
  PROVE  Marked'
<1>1. Marked /\ FilesOK(fevents) /\ DOMAIN fevents = 1..Len(fevents) /\ Len(fevents) \in Nat
  BY State DEF Inv
<1>2. ASSUME fevents' = fevents, modified' = modified, locked' = locked
      PROVE  Marked'
  BY <1>1, <1>2 DEF Marked
<1>3. ASSUME NEW w \in Watch, file_event(w)
      PROVE  Marked'
  <2>1. /\ DOMAIN fevents' = 1..(Len(fevents) + 1)
        /\ \A i \in 1..Len(fevents) : fevents'[i] = fevents[i]
        /\ fevents'[Len(fevents) + 1] = [w |-> w, deleted |-> FALSE, idx |-> 0]
    BY <1>1, <1>3, Registered
  <2>2. runs' = runs /\ (modified => modified')
    BY <1>3 DEF file_event, FilesChanged
  <2>3. locked' = locked
    BY <2>2, Stays
  <2> SUFFICES ASSUME NEW i \in 1..(Len(fevents) + 1), fevents'[i].deleted
               PROVE  locked' > 0 /\ modified'
    BY <2>1 DEF Marked
  <2>4. i # Len(fevents) + 1
    BY <2>1
  <2>5. i \in 1..Len(fevents)
    BY <1>1, <2>4
  <2>6. fevents[i].deleted
    BY <2>1, <2>5
  <2> QED
    BY <1>1, <2>2, <2>3, <2>5, <2>6 DEF Marked
<1>4. ASSUME NEW cb, NEW kinds \in E!Kinds, remove(cb, kinds)
      PROVE  Marked'
  <2>1. fevents' = WithoutFiles(cb, kinds) /\ runs' = runs
    BY <1>4 DEF remove
  <2>2. locked' = locked
    BY <2>1, Stays
  <2> SUFFICES ASSUME NEW i \in DOMAIN fevents', fevents'[i].deleted
               PROVE  locked' > 0 /\ modified'
    BY DEF Marked
  <2>3. CASE locked > 0
    <3>1. i \in DOMAIN fevents /\ (fevents[i].deleted \/ Removed(cb, kinds, fevents[i]))
      BY <1>1, <2>1, <2>3, RemovedFiles
    <3>2. CASE fevents[i].deleted
      <4>1. modified
        BY <1>1, <3>1, <3>2 DEF Marked
      <4>2. modified => modified'
        BY <1>4 DEF remove, FilesChanged
      <4> QED
        BY <2>2, <2>3, <4>1, <4>2
    <3>3. CASE Removed(cb, kinds, fevents[i])
      <4>1. fevents[i].w \in Watch
        BY <1>1, <3>1, EntriesAre
      <4>2. fevents[i].w.ev \in {"Read", "Write"}
        BY <4>1, ConstantsAssumption
      <4>3. kinds # {"Timer"}
        BY <3>3, <4>2 DEF Removed
      <4>4. modified'
        <5>1. CASE poll
          BY <1>4, <2>3, <3>1, <3>3, <5>1 DEF remove
        <5>2. CASE ~poll
          BY <1>4, <4>3, <5>2 DEF remove, FilesChanged
        <5> QED
          BY <5>1, <5>2
      <4> QED
        BY <2>2, <2>3, <4>4
    <3> QED
      BY <3>1, <3>2, <3>3
  <2>4. CASE ~(locked > 0)
    <3>1. PICK j \in DOMAIN fevents : fevents'[i] = fevents[j]
      BY <1>1, <2>1, <2>4, RemovedFiles
    <3> QED
      BY <1>1, <2>4, <3>1 DEF Marked
  <2> QED
    BY <2>3, <2>4
<1>5. CASE run
  <2>1. /\ DOMAIN fevents' = DOMAIN fevents
        /\ \A i \in DOMAIN fevents : fevents'[i].deleted = fevents[i].deleted
    BY <1>1, <1>5, Built DEF run
  <2>2. locked' = locked /\ modified' = modified
    BY <1>5, Begins DEF run
  <2> QED
    BY <1>1, <2>1, <2>2 DEF Marked
<1>6. ASSUME NEW hits \in SUBSET Fd, Ready(hits)
      PROVE  Marked'
  <2>1. locked \in Nat /\ locked' = locked + 1
    BY <1>6, Movers, PassBegins
  <2>2. fevents' = fevents /\ (modified /\ locked > 0 => modified')
    BY <1>6 DEF Ready
  <2>3. locked' > 0
    BY <2>1
  <2> QED
    BY <1>1, <2>2, <2>3 DEF Marked
<1>7. CASE FilesDone
  <2>1. locked \in Nat /\ locked >= 1 /\ locked' = locked - 1
    BY <1>7, Movers, PassEnds
  <2>2. \/ locked = 1 /\ modified /\ (\A i \in DOMAIN fevents' : ~fevents'[i].deleted)
        \/ ~(locked = 1 /\ modified) /\ fevents' = fevents /\ modified' = modified
    BY <1>1, <1>7, Unlocked DEF FilesDone
  <2>3. locked # 1 => locked' > 0
    BY <2>1
  <2> QED
    BY <1>1, <2>2, <2>3 DEF Marked
<1>8. CASE Return \/ TimeUp \/ Interrupted \/ CallFile \/ CallTimer
  <2>1. fevents' = fevents /\ modified' = modified
    BY <1>8 DEF Return, TimeUp, Interrupted, CallFile, CallTimer, fileVars
  <2>2. runs \in Seq(Run)
    BY State
  <2>3. ASSUME NEW from, NEW to, Moves(from, to),
               from \in {"files", "file"} <=> to \in {"files", "file"}
        PROVE  locked' = locked
    BY <2>2, <2>3, MovesKeep
  <2>4. \/ Moves("file", "files") \/ Moves("timer", "timers") \/ Moves("wait", "timers")
        \/ Moves("files", "file") \/ Moves("timers", "timer")
    BY <1>8, Movers
  <2>5. locked' = locked
    BY <2>3, <2>4
  <2> QED
    BY <1>2, <2>1, <2>5
<1>9. CASE RunEnd
  BY <1>2, <1>9, Ends DEF RunEnd
<1>10. CASE Tick
  BY <1>2, <1>10, Stays DEF Tick, fileVars
<1>11. CASE \E t \in Timer, n \in Timeout : tm_event(t, n)
  BY <1>2, <1>11, Stays DEF tm_event, fileVars
<1> QED
  BY <1>3, <1>4, <1>5, <1>6, <1>7, <1>8, <1>9, <1>10, <1>11 DEF Next, Turn

\* Iterators stay when entries do.
LEMMA StayInPlace ==
  ASSUME IteratorsStay, InPlace(fevents, fevents'),
         \A i \in DOMAIN runs' : runs'[i].at = "file" => i \in DOMAIN runs /\ runs'[i] = runs[i]
  PROVE  IteratorsStay'
BY DEF IteratorsStay, InPlace

\* A pass finds the entry it stands on until its callback returns.
LEMMA IteratorsStep ==
  ASSUME Inv, Next
  PROVE  IteratorsStay'
<1>1. /\ IteratorsStay /\ FilesOK(fevents) /\ runs \in Seq(Run)
      /\ DOMAIN runs = 1..Len(runs) /\ DOMAIN fevents = 1..Len(fevents)
      /\ Len(fevents) \in Nat
  BY State DEF Inv
<1>2. ASSUME InPlace(fevents, fevents'), runs' = runs
      PROVE  IteratorsStay'
  BY <1>1, <1>2, StayInPlace
<1>3. fevents' = fevents => InPlace(fevents, fevents')
  BY DEF InPlace
<1>4. ASSUME NEW from, NEW to, Moves(from, to), to # "file", fevents' = fevents
      PROVE  IteratorsStay'
  <2>1. /\ DOMAIN runs' = 1..Len(runs) /\ runs'[Len(runs)].at = to
        /\ \A i \in 1..Len(runs) : i # Len(runs) => runs'[i] = runs[i]
    BY <1>1, <1>4, MovesKeep
  <2>2. \A i \in DOMAIN runs' : runs'[i].at = "file" => i \in DOMAIN runs /\ runs'[i] = runs[i]
    BY <1>1, <1>4, <2>1
  <2> QED
    BY <1>1, <1>3, <1>4, <2>2, StayInPlace
<1>5. CASE \E w \in Watch : file_event(w)
  BY <1>1, <1>2, <1>5, Registered DEF file_event
<1>6. ASSUME NEW cb, NEW kinds, remove(cb, kinds)
      PROVE  IteratorsStay'
  <2>1. fevents' = WithoutFiles(cb, kinds) /\ runs' = runs
    BY <1>6 DEF remove
  <2>2. CASE locked > 0
    BY <1>1, <1>2, <2>1, <2>2, RemovedFiles
  <2>3. CASE ~(locked > 0)
    <3>1. \A i \in DOMAIN runs : runs[i].at # "file"
      BY <2>3, CallbackLocks
    <3> QED
      BY <2>1, <3>1 DEF IteratorsStay
  <2> QED
    BY <2>2, <2>3
<1>7. CASE run
  <2>1. InPlace(fevents, fevents')
    BY <1>1, <1>7, Built DEF run
  <2>2. /\ DOMAIN runs' = 1..(Len(runs) + 1) /\ Len(runs) \in Nat
        /\ runs'[Len(runs) + 1].at = "wait"
        /\ \A i \in 1..Len(runs) : runs'[i] = runs[i]
    BY <1>7, Begins
  <2>3. \A i \in 1..(Len(runs) + 1) : i \in 1..Len(runs) \/ i = Len(runs) + 1
    BY <2>2
  <2>4. \A i \in DOMAIN runs' : runs'[i].at = "file" => i \in DOMAIN runs /\ runs'[i] = runs[i]
    BY <1>1, <2>2, <2>3
  <2> QED
    BY <1>1, <2>1, <2>4, StayInPlace
<1>8. CASE RunEnd
  <2>1. /\ DOMAIN runs' = 1..(Len(runs) - 1)
        /\ \A i \in 1..(Len(runs) - 1) : i \in 1..Len(runs) /\ runs'[i] = runs[i]
    BY <1>8, Ends
  <2>2. fevents' = fevents
    BY <1>8 DEF RunEnd
  <2> QED
    BY <1>1, <1>3, <2>1, <2>2, StayInPlace
<1>9. CASE CallFile
  <2>1. At("files") /\ runs # <<>> /\ fevents' = fevents
    BY <1>9 DEF CallFile, At, fileVars
  <2>2. /\ DOMAIN runs' = 1..Len(runs)
        /\ \A i \in 1..Len(runs) : i # Len(runs) => runs'[i] = runs[i]
    BY <1>1, <1>9, Movers, MovesKeep
  <2>3. PICK i \in Top.pos..Len(fevents) :
          SetTop([at |-> "file", pos |-> i, ready |-> Top.ready, call |-> fevents[i].w])
    BY <1>9 DEF CallFile
  <2>4. Top \in Run /\ Len(runs) \in DOMAIN runs
    BY <1>1, <2>1, TopIs
  <2>5. Top.pos \in 1..(MaxEvents + 1)
    BY <2>4, Becomes
  <2>6. i \in DOMAIN fevents
    <3>1. MaxEvents \in Nat
      BY ConstantsAssumption
    <3> QED
      BY <1>1, <2>5, <3>1
  <2>7. runs'[Len(runs)] = [at |-> "file", pos |-> i, ready |-> Top.ready, call |-> fevents[i].w]
    BY <2>3, <2>4 DEF SetTop
  <2>8. runs'[Len(runs)].pos = i /\ runs'[Len(runs)].call = fevents[i].w
    BY <2>7
  <2> SUFFICES ASSUME NEW j \in 1..Len(runs), runs'[j].at = "file"
               PROVE  runs'[j].pos \in DOMAIN fevents /\ fevents[runs'[j].pos].w = runs'[j].call
    BY <2>1, <2>2 DEF IteratorsStay
  <2>9. CASE j = Len(runs)
    BY <2>6, <2>8, <2>9
  <2>10. CASE j # Len(runs)
    BY <1>1, <2>2, <2>10 DEF IteratorsStay
  <2> QED
    BY <2>9, <2>10
<1>10. CASE FilesDone
  <2>1. /\ DOMAIN runs' = 1..Len(runs) /\ runs'[Len(runs)].at = "timers"
        /\ \A i \in 1..Len(runs) : i # Len(runs) => runs'[i] = runs[i]
    BY <1>1, <1>10, Movers, MovesKeep
  <2>2. locked = 1 \/ fevents' = fevents
    BY <1>1, <1>10, Unlocked DEF FilesDone
  <2>3. CASE locked = 1
    <3>1. \A i \in DOMAIN runs' : runs'[i].at # "file"
      BY <1>10, <2>3, Movers, PassEnds
    <3> QED
      BY <3>1 DEF IteratorsStay
  <2>4. CASE fevents' = fevents
    BY <1>4, <1>10, <2>4, Movers
  <2> QED
    BY <2>2, <2>3, <2>4
<1>11. CASE Return \/ TimeUp \/ Interrupted \/ CallTimer
  <2>1. fevents' = fevents
    BY <1>11 DEF Return, TimeUp, Interrupted, CallTimer, fileVars
  <2>2. \/ Moves("file", "files") \/ Moves("timer", "timers") \/ Moves("wait", "timers")
        \/ Moves("timers", "timer")
    BY <1>11, Movers
  <2> QED
    BY <1>4, <2>1, <2>2
<1>12. ASSUME NEW hits \in SUBSET Fd, Ready(hits)
       PROVE  IteratorsStay'
  <2>1. fevents' = fevents /\ Moves("wait", "files")
    BY <1>12, Movers DEF Ready
  <2> QED
    BY <1>4, <2>1
<1>13. CASE Tick
  BY <1>2, <1>3, <1>13 DEF Tick, fileVars
<1>14. CASE \E t \in Timer, n \in Timeout : tm_event(t, n)
  BY <1>2, <1>3, <1>14 DEF tm_event, fileVars
<1> QED
  BY <1>5, <1>6, <1>7, <1>8, <1>9, <1>10, <1>11, <1>12, <1>13, <1>14 DEF Next, Turn

\* Indices stay right when no entry and no descriptor changes.
LEMMA SameIndices ==
  ASSUME PollsetMatches, NoneNew(fevents, fevents'), poll' = poll,
         DOMAIN pollset' = DOMAIN pollset, \A i \in DOMAIN pollset : pollset'[i].fd = pollset[i].fd
  PROVE  PollsetMatches'
<1> SUFFICES ASSUME poll', NEW r \in DOMAIN fevents', ~fevents'[r].deleted, fevents'[r].idx # 0
             PROVE  /\ fevents'[r].idx \in DOMAIN pollset'
                    /\ pollset'[fevents'[r].idx].fd = Kind(fevents'[r].w)
  BY DEF PollsetMatches
<1>1. PICK i \in DOMAIN fevents :
        ~fevents[i].deleted /\ fevents[i].w = fevents'[r].w /\ fevents[i].idx = fevents'[r].idx
  BY DEF NoneNew
<1>2. /\ fevents[i].idx \in DOMAIN pollset
      /\ pollset[fevents[i].idx].fd = Kind(fevents[i].w)
  BY <1>1 DEF PollsetMatches
<1> QED
  BY <1>1, <1>2

\* An index that is not 0 is that of the event in the pollset built last.
LEMMA PollsetStep ==
  ASSUME Inv, Next
  PROVE  PollsetMatches'
<1>1. /\ PollsetMatches /\ FilesOK(fevents) /\ DOMAIN fevents = 1..Len(fevents)
      /\ Len(fevents) \in Nat
  BY State DEF Inv
<1>2. NoneNew(fevents, fevents)
  BY DEF NoneNew
<1>3. ASSUME fevents' = fevents, pollset' = pollset, poll' = poll
      PROVE  PollsetMatches'
  BY <1>1, <1>3 DEF PollsetMatches
<1>4. ASSUME NEW w \in Watch, file_event(w)
      PROVE  PollsetMatches'
  <2>1. /\ DOMAIN fevents' = 1..(Len(fevents) + 1)
        /\ \A i \in 1..Len(fevents) : fevents'[i] = fevents[i]
        /\ fevents'[Len(fevents) + 1] = [w |-> w, deleted |-> FALSE, idx |-> 0]
    BY <1>1, <1>4, Registered
  <2>2. poll' = poll /\ pollset' = pollset
    BY <1>4 DEF file_event
  <2> SUFFICES ASSUME poll, NEW i \in 1..(Len(fevents) + 1), ~fevents'[i].deleted, fevents'[i].idx # 0
               PROVE  /\ fevents'[i].idx \in DOMAIN pollset
                      /\ pollset[fevents'[i].idx].fd = Kind(fevents'[i].w)
    BY <2>1, <2>2 DEF PollsetMatches
  <2>3. i # Len(fevents) + 1
    BY <2>1
  <2>4. i \in 1..Len(fevents)
    BY <1>1, <2>3
  <2>5. fevents'[i] = fevents[i] /\ i \in DOMAIN fevents
    BY <1>1, <2>1, <2>4
  <2> QED
    BY <1>1, <2>5 DEF PollsetMatches
<1>5. ASSUME NEW cb, NEW kinds, remove(cb, kinds)
      PROVE  PollsetMatches'
  <2>1. NoneNew(fevents, fevents')
    BY <1>1, <1>5, RemovedFiles DEF remove
  <2>2. poll' = poll /\ pollset' = pollset
    BY <1>5 DEF remove
  <2> QED
    BY <1>1, <2>1, <2>2, SameIndices
<1>6. CASE run
  <2>1. poll' = poll /\ build_pollset
    BY <1>6 DEF run
  <2>2. CASE fevents' = fevents /\ pollset' = pollset
    BY <1>3, <2>1, <2>2
  <2>3. CASE \A i \in Live(fevents') : /\ fevents'[i].idx \in DOMAIN pollset'
                                       /\ pollset'[fevents'[i].idx].fd = Kind(fevents'[i].w)
    BY <2>3 DEF PollsetMatches, Live
  <2> QED
    BY <1>1, <2>1, <2>2, <2>3, Built
<1>7. CASE FilesDone
  <2>1. NoneNew(fevents, fevents')
    BY <1>1, <1>7, Unlocked DEF FilesDone
  <2>2. poll' = poll /\ pollset' = pollset
    BY <1>7 DEF FilesDone
  <2> QED
    BY <1>1, <2>1, <2>2, SameIndices
<1>8. CASE TimeUp \/ Interrupted \/ \E hits \in SUBSET Fd : Ready(hits)
  <2>1. fevents' = fevents /\ poll' = poll
    BY <1>8 DEF TimeUp, Interrupted, Ready
  <2> QED
    BY <1>1, <1>2, <1>8, <2>1, Polled, SameIndices
<1>9. CASE Return \/ CallFile \/ CallTimer \/ RunEnd \/ Tick
  BY <1>3, <1>9 DEF Return, CallFile, CallTimer, RunEnd, Tick, fileVars
<1>10. CASE \E t \in Timer, n \in Timeout : tm_event(t, n)
  BY <1>3, <1>10 DEF tm_event, fileVars
<1> QED
  BY <1>4, <1>5, <1>6, <1>7, <1>8, <1>9, <1>10 DEF Next, Turn

\* The time left of a sleep and the time left to the first timer pass together.
LEMMA SleepFitsStep ==
  ASSUME Inv, Next
  PROVE  SleepFits'
<1>1. runs \in Seq(Run) /\ TimerList(tevents) /\ elapsed \in Int /\ sleep \in Nat /\ SleepFits
  BY State DEF Inv
<1>2. ASSUME ~At("wait")'
      PROVE  SleepFits'
  BY <1>2 DEF SleepFits
<1>3. CASE run
  <2>1. TimerList(tevents') /\ sleep' = sleeptime(tevents') /\ elapsed' = 0
    BY <1>3, TimersStep DEF run
  <2>2. sleep' \in Nat /\ (tevents' # <<>> =>
          tevents'[1].delta \in Int /\ sleep' = IF tevents'[1].delta > 0 THEN tevents'[1].delta ELSE 0)
    BY <2>1, SleepTime
  <2> SUFFICES ASSUME tevents' # <<>>
               PROVE  sleep' <= IF tevents'[1].delta - elapsed' > 0 THEN tevents'[1].delta - elapsed' ELSE 0
    BY DEF SleepFits
  <2> QED
    BY <2>1, <2>2
<1>4. CASE Tick
  <2>1. runs' = runs /\ tevents' = tevents
    BY <1>4 DEF Tick
  <2>2. Top' = Top
    BY <2>1 DEF Top
  <2> SUFFICES ASSUME At("wait"), tevents # <<>>
               PROVE  sleep' <= IF tevents[1].delta - elapsed' > 0 THEN tevents[1].delta - elapsed' ELSE 0
    BY <2>1, <2>2 DEF SleepFits, At
  <2>3. sleep' = sleep - 1 /\ sleep > 0 /\ elapsed' = elapsed + 1
    BY <1>4 DEF Tick
  <2>4. tevents[1].delta \in Int
    BY <1>1, PopKeeps
  <2>5. sleep <= IF tevents[1].delta - elapsed > 0 THEN tevents[1].delta - elapsed ELSE 0
    BY <1>1 DEF SleepFits
  <2> QED
    BY <1>1, <2>3, <2>4, <2>5
<1>5. ASSUME NEW from, NEW to, Moves(from, to), to # "wait"
      PROVE  SleepFits'
  <2>1. Top'.at = to
    BY <1>1, <1>5, MovesKeep
  <2> QED
    BY <1>2, <1>5, <2>1 DEF At
<1>6. CASE Return \/ TimeUp \/ Interrupted \/ CallFile \/ FilesDone \/ CallTimer
  <2>1. \/ Moves("file", "files") \/ Moves("timer", "timers") \/ Moves("wait", "timers")
        \/ Moves("files", "file") \/ Moves("files", "timers") \/ Moves("timers", "timer")
    BY <1>6, Movers
  <2> QED
    BY <1>5, <2>1
<1>7. CASE \E hits \in SUBSET Fd : Ready(hits)
  <2>1. Moves("wait", "files")
    BY <1>7, Movers
  <2> QED
    BY <1>5, <2>1
<1>8. CASE RunEnd
  <2>1. ASSUME runs' # <<>>
        PROVE  Top'.at \in {"file", "timer"}
    <3>1. runs' \in Seq(Run) /\ \A i \in DOMAIN runs' : runs'[i].at \in {"file", "timer"}
      BY <1>8, Ends
    <3>2. Len(runs') \in DOMAIN runs'
      <4>1. Len(runs') \in Nat /\ DOMAIN runs' = 1..Len(runs')
        BY <3>1, LenProperties
      <4>2. Len(runs') # 0
        BY <2>1, <3>1, EmptySeq
      <4> QED
        BY <4>1, <4>2
    <3>3. Top' = runs'[Len(runs')]
      BY DEF Top, Last
    <3> QED
      BY <3>1, <3>2, <3>3
  <2> QED
    BY <1>2, <2>1 DEF At
<1>9. ASSUME InUser, runs' = runs
      PROVE  SleepFits'
  <2>1. Top' = Top
    BY <1>9 DEF Top
  <2>2. ~At("wait")'
    BY <1>9, <2>1 DEF InUser, At
  <2> QED
    BY <1>2, <2>2
<1>10. CASE \E w \in Watch : file_event(w)
  BY <1>9, <1>10 DEF file_event
<1>11. CASE \E t \in Timer, n \in Timeout : tm_event(t, n)
  BY <1>9, <1>11 DEF tm_event
<1>12. CASE \E cb \in Cb, kinds \in E!Kinds : remove(cb, kinds)
  BY <1>9, <1>12 DEF remove
<1> QED
  BY <1>3, <1>4, <1>6, <1>7, <1>8, <1>10, <1>11, <1>12 DEF Next, Turn

(***************************************************************************)
(* The theorems.                                                           *)
(***************************************************************************)

\* The invariant holds at first ...
LEMMA InitInv == Init => Inv
<1> SUFFICES ASSUME Init
             PROVE  Inv
  OBVIOUS
<1>1. /\ poll \in BOOLEAN /\ fevents = <<>> /\ modified = FALSE /\ rebuild = TRUE
      /\ tevents = <<>> /\ elapsed = 0 /\ fds = {} /\ pollset = <<>> /\ sleep = 0 /\ runs = <<>>
  BY DEF Init
<1>2. MaxEvents \in Nat /\ MaxElapsed \in Nat /\ MaxDepth \in Nat
  BY ConstantsAssumption
<1>3. TypeOK
  <2>1. /\ \A S : <<>> \in Seq(S)
        /\ Len(<<>>) = 0
    BY EmptySeq
  <2>2. Len(<<>>) <= MaxEvents /\ Len(<<>>) <= MaxDepth /\ 0 \in 0..MaxElapsed /\ 0 \in Nat
    BY <1>2, <2>1
  <2>3. DOMAIN tevents = {}
    BY <1>1
  <2> QED
    BY <1>1, <2>1, <2>2, <2>3 DEF TypeOK
<1>4. TimerList(tevents)
  BY <1>1 DEF TimerList
<1>5. Nesting /\ Marked /\ IteratorsStay /\ PollsetMatches
  <2>1. DOMAIN runs = {} /\ DOMAIN fevents = {}
    BY <1>1
  <2> QED
    BY <2>1 DEF Nesting, Marked, IteratorsStay, PollsetMatches
<1>6. SleepFits
  BY <1>1 DEF SleepFits
<1> QED
  BY <1>3, <1>4, <1>5, <1>6 DEF Inv

\* ... and each step keeps it.
LEMMA NextInv == Inv /\ [Next]_vars => Inv'
<1> SUFFICES ASSUME Inv, [Next]_vars
             PROVE  Inv'
  OBVIOUS
<1>1. CASE Next
  BY <1>1, TypeStep, TimersStep, RunsStep, MarkedStep, IteratorsStep, PollsetStep, SleepFitsStep
  DEF Inv
<1>2. CASE UNCHANGED vars
  BY <1>2 DEF vars, Inv, TypeOK, Nesting, Marked, IteratorsStay, PollsetMatches, SleepFits,
              At, Top, locked
<1> QED
  BY <1>1, <1>2

\* The invariant holds in every state: what the dispatcher's lists, counters and
\* flags say of each other survives every order of registrations, removals and
\* nested runs.
THEOREM Invariance == Spec => []Inv
BY InitInv, NextInv, PTL DEF Spec

\* The dispatcher's variables have their types: no event is in a list twice as a
\* timer, no index, position or depth leaves its range.
THEOREM TypeCorrect == Spec => []TypeOK
<1>1. Inv => TypeOK
  BY DEF Inv
<1> QED
  BY <1>1, Invariance, PTL

\* Removal during a pass neither moves the pass, however deeply runs are nested,
\* nor leaves an entry behind that the last pass does not erase.
THEOREM RemovalAlwaysSafe == Spec => []RemovalSafe
<1>1. Inv => RemovalSafe
  <2> SUFFICES ASSUME Inv
               PROVE  RemovalSafe
    OBVIOUS
  <2>1. DeletedErased
    <3> SUFFICES ASSUME locked = 0, NEW i \in DOMAIN fevents
                 PROVE  ~fevents[i].deleted
      BY DEF DeletedErased
    <3>1. Marked
      BY DEF Inv
    <3> QED
      BY <3>1 DEF Marked
  <2> QED
    BY <2>1 DEF Inv, RemovalSafe
<1> QED
  BY <1>1, Invariance, PTL

\* due is that of the list as it is.
LEMMA DueAre == due = DueOf(tevents, elapsed)
BY DEF due, DueOf

\* select() and poll() wait for what is registered: an index leads to the entry of
\* its own event, and the sleep ends when the first of all timers is due.
THEOREM SleepAlwaysMatches == Spec => []SleepMatches
<1>1. Inv => SleepMatches
  <2> SUFFICES ASSUME Inv
               PROVE  SleepMatches
    OBVIOUS
  <2>1. NoOversleep
    <3> SUFFICES ASSUME At("wait"), NEW t \in DOMAIN due
                 PROVE  sleep <= IF due[t] > 0 THEN due[t] ELSE 0
      BY DEF NoOversleep
    <3>1. TimerList(tevents) /\ SleepFits /\ elapsed \in Int /\ sleep \in Nat
      BY State DEF Inv
    <3>2. /\ DOMAIN due = {tevents[i].id : i \in 1..Len(tevents)}
          /\ \A i \in 1..Len(tevents) : due[tevents[i].id] = Delta(tevents, i) - elapsed
      BY <3>1, DueAre, DueFacts
    <3>3. PICK i \in 1..Len(tevents) : t = tevents[i].id
      BY <3>2
    <3>4. /\ Len(tevents) \in Nat /\ DOMAIN tevents = 1..Len(tevents) /\ Delta(tevents, 0) = 0
          /\ \A j \in 1..Len(tevents) : /\ Delta(tevents, j) = Delta(tevents, j - 1) + tevents[j].delta
                                        /\ tevents[j].delta \in Int
          /\ \A j \in 0..Len(tevents) : Delta(tevents, j) \in Int
      BY <3>1, TimersAre
    <3>5. 1 \in 1..Len(tevents) /\ 1 <= i /\ i \in 0..Len(tevents)
      BY <3>3, <3>4
    <3>6. Delta(tevents, 1) <= Delta(tevents, i)
      BY <3>1, <3>3, <3>5, TimesGrow
    <3>7. Delta(tevents, 1) = tevents[1].delta /\ tevents[1].delta \in Int
      <4>1. Delta(tevents, 1) = Delta(tevents, 1 - 1) + tevents[1].delta /\ tevents[1].delta \in Int
        BY <3>4, <3>5
      <4>2. 1 - 1 = 0
        OBVIOUS
      <4> QED
        BY <3>4, <4>1, <4>2
    <3>8. tevents # <<>>
      BY <3>3, <3>4
    <3>9. sleep <= IF tevents[1].delta - elapsed > 0 THEN tevents[1].delta - elapsed ELSE 0
      BY <3>1, <3>8 DEF SleepFits
    <3>10. due[t] = Delta(tevents, i) - elapsed /\ Delta(tevents, i) \in Int
      BY <3>2, <3>3, <3>4, <3>5
    <3> HIDE DEF Delta
    <3> QED
      BY <3>1, <3>6, <3>7, <3>9, <3>10
  <2> QED
    BY <2>1 DEF Inv, SleepMatches
<1> QED
  BY <1>1, Invariance, PTL

(***************************************************************************)
(* The refinement.                                                         *)
(***************************************************************************)

Calls == [i \in DOMAIN Calling |-> Calling[i].call]

\* InUser and Calls, of any runs
User(rs) == rs = <<>> \/ Last(rs).at \in {"file", "timer"}
CallsOf(rs) == [i \in 1..(IF User(rs) THEN Len(rs) ELSE Len(rs) - 1) |-> rs[i].call]

\* They are the same.
LEMMA CallsAre ==
  ASSUME runs \in Seq(Run), runs' \in Seq(Run)
  PROVE  /\ Calls = CallsOf(runs) /\ Calls' = CallsOf(runs')
         /\ (InUser <=> User(runs)) /\ (InUser' <=> User(runs'))
<1> DEFINE Inner(rs) == IF rs # <<>> /\ ~User(rs) THEN Front(rs) ELSE rs
<1>1. (InUser <=> User(runs)) /\ (InUser' <=> User(runs'))
  BY DEF InUser, At, Top, User
<1>2. Calling = Inner(runs) /\ Calling' = Inner(runs')
  BY <1>1 DEF Calling
<1>3. ASSUME NEW rs \in Seq(Run)
      PROVE  [i \in DOMAIN Inner(rs) |-> Inner(rs)[i].call] = CallsOf(rs)
  <2>1. Len(rs) \in Nat /\ DOMAIN rs = 1..Len(rs)
    BY LenProperties
  <2>2. CASE User(rs)
    <3>1. Inner(rs) = rs
      BY <2>2
    <3> QED
      BY <2>1, <2>2, <3>1 DEF CallsOf
  <2>3. CASE ~User(rs)
    <3>1. Inner(rs) = Front(rs)
      BY <2>3 DEF User
    <3>2. Front(rs) = [i \in 1..(Len(rs) - 1) |-> rs[i]]
      BY <2>1 DEF Front
    <3> HIDE DEF Inner
    <3> QED
      BY <2>3, <3>1, <3>2 DEF CallsOf
  <2> QED
    BY <2>2, <2>3
<1> QED
  BY <1>1, <1>2, <1>3 DEF Calls

\* The callbacks that are made are a list of events and timers.
LEMMA CallsList ==
  ASSUME NEW rs \in Seq(Run), NEW n, n = IF User(rs) THEN Len(rs) ELSE Len(rs) - 1,
         \A i \in DOMAIN rs : i # Len(rs) => rs[i].at \in {"file", "timer"}
  PROVE  /\ n \in Nat /\ CallsOf(rs) \in Seq(Watch \cup Timer) /\ Len(CallsOf(rs)) = n
         /\ \A i \in 1..n : CallsOf(rs)[i] = rs[i].call
<1>1. /\ Len(rs) \in Nat /\ DOMAIN rs = 1..Len(rs)
      /\ (rs # <<>> => Len(rs) \in Nat \ {0}) /\ (rs = <<>> => User(rs))
  BY LenProperties, EmptySeq DEF User
<1>2. n \in Nat /\ \A i \in 1..n : i \in 1..Len(rs) /\ (i # Len(rs) \/ User(rs))
  <2>1. CASE User(rs)
    BY <1>1, <2>1
  <2>2. CASE ~User(rs)
    <3>1. n = Len(rs) - 1 /\ Len(rs) \in Nat \ {0}
      BY <1>1, <2>2
    <3>2. n \in Nat /\ \A i \in 1..n : i \in 1..Len(rs) /\ i # Len(rs)
      BY <3>1
    <3> QED
      BY <3>2
  <2> QED
    BY <2>1, <2>2
<1>3. ASSUME NEW i \in 1..n
      PROVE  rs[i].call \in Watch \cup Timer
  <2>0. i \in 1..Len(rs) /\ (i # Len(rs) \/ User(rs))
    BY <1>2
  <2>1. i \in DOMAIN rs /\ rs[i] \in Run
    BY <1>1, <2>0, ElementOfSeq
  <2>2. rs[i].at \in {"file", "timer"}
    <3>1. CASE i # Len(rs)
      BY <2>1, <3>1
    <3>2. CASE i = Len(rs)
      <4>1. User(rs) /\ rs # <<>>
        <5>1. User(rs) /\ DOMAIN rs # {}
          BY <2>0, <2>1, <3>2
        <5>2. DOMAIN <<>> = {}
          OBVIOUS
        <5> QED
          BY <5>1, <5>2
      <4> QED
        BY <3>2, <4>1 DEF User, Last
    <3> QED
      BY <3>1, <3>2
  <2>3. rs[i] \notin Fresh
    BY <2>2 DEF Fresh
  <2> QED
    BY <2>1, <2>3 DEF Run, Called
<1>4. CallsOf(rs) = [i \in 1..n |-> rs[i].call]
  BY DEF CallsOf
<1>5. CallsOf(rs) = [i \in 1..n |-> CallsOf(rs)[i]] /\ \A i \in 1..n : CallsOf(rs)[i] = rs[i].call
  BY <1>4
<1>6. CallsOf(rs) \in Seq(Watch \cup Timer) /\ Len(CallsOf(rs)) = n
  <2> DEFINE T == Watch \cup Timer
  <2>1. PICK f, m : f = CallsOf(rs) /\ m = n
    OBVIOUS
  <2>2. m \in Nat /\ f = [i \in 1..m |-> f[i]] /\ \A i \in 1..m : f[i] \in T
    BY <1>2, <1>3, <1>5, <2>1
  <2> HIDE DEF T
  <2>3. f \in Seq(T) /\ Len(f) = m
    BY <2>2, IsSequence
  <2> QED
    BY <2>1, <2>3 DEF T
<1> QED
  BY <1>2, <1>5, <1>6

\* Who goes on without a callback changes nothing of what is called, a callback is
\* the last, and it is the one that returns.
LEMMA CallsMove ==
  ASSUME Inv, NEW from, NEW to, Moves(from, to)
  PROVE  /\ from \notin {"file", "timer"} /\ to \notin {"file", "timer"} => Calls' = Calls
         /\ from \notin {"file", "timer"} /\ to \in {"file", "timer"} =>
              Calls' = Append(Calls, runs'[Len(runs)].call)
         /\ from \in {"file", "timer"} /\ to \notin {"file", "timer"} =>
              Calls # <<>> /\ Calls' = SubSeq(Calls, 1, Len(Calls) - 1)
<1> DEFINE n == Len(runs)
           T == Watch \cup Timer
<1>1. /\ runs \in Seq(Run) /\ runs' \in Seq(Run) /\ runs' # <<>> /\ Len(runs') = n
      /\ n \in Nat /\ n \in 1..n /\ DOMAIN runs = 1..n /\ DOMAIN runs' = 1..n
      /\ runs[n].at = from /\ runs'[n].at = to
      /\ \A i \in 1..n : i # n => runs'[i] = runs[i]
      /\ Nesting /\ Nesting'
  <2>1. runs \in Seq(Run) /\ Nesting
    BY DEF Inv, TypeOK
  <2> QED
    BY <2>1, MovesKeep
<1>2. /\ \A i \in DOMAIN runs : i # Len(runs) => runs[i].at \in {"file", "timer"}
      /\ \A i \in DOMAIN runs' : i # Len(runs') => runs'[i].at \in {"file", "timer"}
  BY <1>1 DEF Nesting
<1>3. /\ User(runs) <=> from \in {"file", "timer"}
      /\ User(runs') <=> to \in {"file", "timer"}
  <2>1. runs # <<>>
    BY <1>1 DEF Moves, At
  <2> QED
    BY <1>1, <2>1 DEF User, Last
<1>4. Calls = CallsOf(runs) /\ Calls' = CallsOf(runs')
  BY <1>1, CallsAre
<1>5. PICK k : k = IF User(runs) THEN n ELSE n - 1
  OBVIOUS
<1>6. PICK l : l = IF User(runs') THEN n ELSE n - 1
  OBVIOUS
<1>7. /\ k \in Nat /\ Calls \in Seq(T) /\ Len(Calls) = k
      /\ \A i \in 1..k : Calls[i] = runs[i].call
  BY <1>1, <1>2, <1>4, <1>5, CallsList
<1>8. /\ l \in Nat /\ Calls' \in Seq(T) /\ Len(Calls') = l
      /\ \A i \in 1..l : Calls'[i] = runs'[i].call
  BY <1>1, <1>2, <1>4, <1>6, CallsList
<1> HIDE DEF T, n
<1>9. \A i \in 1..(n - 1) : i \in 1..n /\ i # n
  BY <1>1
<1>10. ASSUME from \notin {"file", "timer"}, to \notin {"file", "timer"}
       PROVE  Calls' = Calls
  <2>1. k = n - 1 /\ l = n - 1
    BY <1>3, <1>5, <1>6, <1>10
  <2>2. \A i \in 1..Len(Calls') : Calls'[i] = Calls[i]
    BY <1>1, <1>7, <1>8, <1>9, <2>1
  <2> QED
    BY <1>7, <1>8, <2>1, <2>2, SeqEqual
<1>11. ASSUME from \notin {"file", "timer"}, to \in {"file", "timer"}
       PROVE  Calls' = Append(Calls, runs'[n].call)
  <2>1. k = n - 1 /\ l = n
    BY <1>3, <1>5, <1>6, <1>11
  <2>2. PICK c : c = runs'[n].call
    OBVIOUS
  <2>3. Calls'[n] = c /\ n \in 1..Len(Calls')
    BY <1>1, <1>8, <2>1, <2>2
  <2>4. c \in T
    BY <1>8, <2>3, ElementOfSeq
  <2>5. /\ Append(Calls, c) \in Seq(T) /\ Len(Append(Calls, c)) = Len(Calls) + 1
        /\ \A i \in 1..Len(Calls) : Append(Calls, c)[i] = Calls[i]
        /\ Append(Calls, c)[Len(Calls) + 1] = c
    BY <1>7, <2>4, AppendProperties
  <2>6. k + 1 = n
    BY <1>1, <2>1
  <2>7. \A i \in 1..n : i \in 1..(n - 1) \/ i = n
    BY <1>1
  <2>8. \A i \in 1..(n - 1) : Calls'[i] = Calls[i]
    BY <1>1, <1>7, <1>8, <1>9, <2>1
  <2>9. Len(Append(Calls, c)) = n /\ Append(Calls, c)[n] = c
    BY <1>7, <2>5, <2>6
  <2>10. \A i \in 1..(n - 1) : Append(Calls, c)[i] = Calls[i]
    BY <1>7, <2>1, <2>5
  <2>11. \A i \in 1..Len(Calls') : Calls'[i] = Append(Calls, c)[i]
    BY <1>8, <2>1, <2>3, <2>7, <2>8, <2>9, <2>10
  <2>12. Len(Calls') = Len(Append(Calls, c))
    BY <1>8, <2>1, <2>9
  <2> HIDE DEF Calls
  <2>13. Calls' = Append(Calls, c)
    BY <1>8, <2>5, <2>11, <2>12, SeqEqual
  <2> QED
    BY <2>2, <2>13
<1>12. ASSUME from \in {"file", "timer"}, to \notin {"file", "timer"}
       PROVE  Calls # <<>> /\ Calls' = SubSeq(Calls, 1, Len(Calls) - 1)
  <2>1. k = n /\ l = n - 1
    BY <1>3, <1>5, <1>6, <1>12
  <2>2. n - 1 \in Int /\ 1 \in Int /\ n >= 1
    BY <1>1
  <2>3. \A i \in 1..(n - 1) : Calls[i] \in T
    <3>1. \A i \in 1..n : Calls[i] \in T
      BY <1>7, <2>1, ElementOfSeq
    <3> QED
      BY <1>9, <3>1
  <2> DEFINE s == SubSeq(Calls, 1, n - 1)
  <2>4. /\ s \in Seq(T) /\ Len(s) = (IF 1 <= n - 1 THEN (n - 1) - 1 + 1 ELSE 0)
        /\ \A i \in 1..((n - 1) - 1 + 1) : s[i] = Calls[1 + i - 1]
    BY <2>2, <2>3, SubSeqProperties
  <2> HIDE DEF s
  <2>5. Len(s) = n - 1 /\ \A i \in 1..(n - 1) : s[i] = Calls[i]
    <3>1. (n - 1) - 1 + 1 = n - 1 /\ (~(1 <= n - 1) => n - 1 = 0)
      BY <1>1
    <3>2. \A i \in 1..(n - 1) : 1 + i - 1 = i
      BY <1>1
    <3> QED
      BY <2>4, <3>1, <3>2
  <2>6. \A i \in 1..Len(Calls') : Calls'[i] = s[i]
    BY <1>1, <1>7, <1>8, <1>9, <2>1, <2>5
  <2>7. Calls' = s
    BY <1>8, <2>1, <2>4, <2>5, <2>6, SeqEqual
  <2>8. Calls # <<>>
    BY <1>7, <2>1, <2>2, EmptySeq
  <2> QED
    BY <1>7, <2>1, <2>7, <2>8 DEF s
<1> QED
  BY <1>10, <1>11, <1>12 DEF n

\* The time left to the timers, before and after a step.
LEMMA DueSteps ==
  ASSUME Inv
  PROVE  /\ due = DueOf(tevents, elapsed) /\ due' = DueOf(tevents', elapsed')
         /\ tevents' = tevents /\ elapsed' = elapsed => due' = due
         /\ tevents' = update_tevents /\ elapsed' = 0 => due' = due
<1>1. due = DueOf(tevents, elapsed) /\ due' = DueOf(tevents', elapsed')
  BY DEF due, DueOf
<1>2. TimerList(tevents) /\ elapsed \in Int /\ update_tevents = Updated(tevents, elapsed)
  BY State DEF Inv
<1>3. DueOf(Updated(tevents, elapsed), 0) = DueOf(tevents, elapsed)
  BY <1>2, UpdateKeeps
<1> QED
  BY <1>1, <1>2, <1>3

\* The first timer is called when its time is over, and none has less time left.
LEMMA TimerCalls ==
  ASSUME Inv, CallTimer
  PROVE  \E t \in Timer :
           /\ t \in DOMAIN due /\ due[t] <= 0 /\ \A u \in DOMAIN due : due[t] <= due[u]
           /\ due' = [u \in DOMAIN due \ {t} |-> due[u]]
           /\ runs'[Len(runs)].call = t
<1> DEFINE us == Updated(tevents, elapsed)
<1>1. TimerList(tevents) /\ elapsed \in Int /\ update_tevents = us /\ runs \in Seq(Run)
  BY State DEF Inv
<1>2. /\ tevents # <<>> /\ us[1].delta <= 0 /\ At("timers")
      /\ tevents' = Popped(us) /\ elapsed' = 0
      /\ SetTop([at |-> "timer", pos |-> 1, ready |-> {}, call |-> us[1].id])
  BY <1>1 DEF CallTimer, Popped
<1>3. TimerList(us) /\ us # <<>> /\ due = DueOf(us, 0)
  BY <1>1, <1>2, UpdateKeeps, DueSteps
<1>4. due' = DueOf(Popped(us), 0)
  BY <1>2, DueSteps
<1> HIDE DEF us
<1>5. /\ us[1].id \in Timer /\ us[1].id \in DOMAIN due /\ due[us[1].id] = us[1].delta
      /\ \A u \in DOMAIN due : us[1].delta <= due[u]
      /\ due' = [t \in DOMAIN due \ {us[1].id} |-> due[t]]
  BY <1>3, <1>4, PopKeeps
<1>6. Len(runs) \in DOMAIN runs
  BY <1>1, <1>2, TopIs DEF At
<1>7. runs'[Len(runs)].call = us[1].id
  BY <1>2, <1>6 DEF SetTop
<1> QED
  BY <1>2, <1>5, <1>7

\* What is called for a descriptor is registered.
LEMMA FileCalls ==
  ASSUME Inv, CallFile
  PROVE  \E w \in Watch : w \in Watches(fevents) /\ runs'[Len(runs)].call = w
<1>1. /\ runs \in Seq(Run) /\ FilesOK(fevents) /\ At("files") /\ runs # <<>>
      /\ Len(fevents) \in Nat /\ DOMAIN fevents = 1..Len(fevents)
  BY State DEF CallFile, At
<1>2. PICK i \in Top.pos..Len(fevents) :
        /\ Hit(fevents[i])
        /\ SetTop([at |-> "file", pos |-> i, ready |-> Top.ready, call |-> fevents[i].w])
  BY DEF CallFile
<1>3. Top.pos \in 1..(MaxEvents + 1) /\ Len(runs) \in DOMAIN runs
  BY <1>1, TopIs, Becomes
<1>4. i \in DOMAIN fevents
  <2>1. MaxEvents \in Nat
    BY ConstantsAssumption
  <2> QED
    BY <1>1, <1>3, <2>1
<1>5. fevents[i].w \in Watch /\ fevents[i].w \in Watches(fevents)
  BY <1>1, <1>2, <1>4, EntriesAre DEF Hit, Watches, Live
<1>6. runs'[Len(runs)].call = fevents[i].w
  BY <1>2, <1>3 DEF SetTop
<1> QED
  BY <1>5, <1>6

\* Nothing but a callback, a new run and the end of a run changes what is called.
LEMMA CallsSame ==
  ASSUME Inv, run \/ RunEnd
  PROVE  Calls' = Calls
<1>1. runs \in Seq(Run) /\ Len(runs) \in Nat
  BY State
<1>2. CASE run
  <2>1. /\ runs' \in Seq(Run) /\ runs' # <<>> /\ Len(runs') = Len(runs) + 1
        /\ Top'.at = "wait" /\ \A i \in 1..Len(runs) : runs'[i] = runs[i]
    BY <1>2, Begins
  <2>2. User(runs) /\ ~User(runs')
    <3>1. InUser
      BY <1>2 DEF run
    <3>2. ~User(runs')
      BY <2>1 DEF User, Top
    <3> QED
      BY <1>1, <2>1, <3>1, <3>2, CallsAre
  <2>3. Calls = CallsOf(runs) /\ Calls' = CallsOf(runs')
    BY <1>1, <2>1, CallsAre
  <2>4. Len(runs') - 1 = Len(runs)
    BY <1>1, <2>1
  <2>5. /\ CallsOf(runs) = [i \in 1..Len(runs) |-> runs[i].call]
        /\ CallsOf(runs') = [i \in 1..Len(runs) |-> runs'[i].call]
    BY <2>2, <2>4 DEF CallsOf
  <2> QED
    BY <2>1, <2>3, <2>5
<1>3. CASE RunEnd
  <2>1. /\ runs' \in Seq(Run) /\ Len(runs') = Len(runs) - 1
        /\ \A i \in 1..(Len(runs) - 1) : runs'[i] = runs[i]
        /\ DOMAIN runs' = 1..(Len(runs) - 1)
        /\ \A i \in DOMAIN runs' : runs'[i].at \in {"file", "timer"}
    BY <1>3, Ends
  <2>2. ~User(runs)
    <3>1. runs # <<>> /\ Top.at = "timers"
      BY <1>3 DEF RunEnd, At
    <3> QED
      BY <3>1 DEF User, Top
  <2>3. User(runs')
    <3> SUFFICES ASSUME runs' # <<>>
                 PROVE  runs'[Len(runs')].at \in {"file", "timer"}
      BY DEF User, Last
    <3>1. Len(runs') \in Nat \ {0}
      BY <2>1, EmptySeq
    <3>2. Len(runs') \in DOMAIN runs'
      BY <2>1, <3>1
    <3> QED
      BY <2>1, <3>2
  <2>4. Calls = CallsOf(runs) /\ Calls' = CallsOf(runs')
    BY <1>1, <2>1, CallsAre
  <2>5. /\ CallsOf(runs) = [i \in 1..(Len(runs) - 1) |-> runs[i].call]
        /\ CallsOf(runs') = [i \in 1..(Len(runs) - 1) |-> runs'[i].call]
    BY <2>1, <2>2, <2>3 DEF CallsOf
  <2> QED
    BY <2>1, <2>4, <2>5
<1> QED
  BY <1>2, <1>3

\* A step of the dispatcher is a step of the event loop, or none.
LEMMA Refines ==
  ASSUME Inv, Next
  PROVE  E!Next \/ UNCHANGED <<Watches(fevents), due, Calls>>
<1> DEFINE W == Watches(fevents)
           Same == UNCHANGED <<Watches(fevents), due, Calls>>
<1>1. /\ runs \in Seq(Run) /\ FilesOK(fevents) /\ elapsed \in Int /\ TimerList(tevents)
      /\ update_tevents = Updated(tevents, elapsed)
  BY State DEF Inv
<1>2. due = DueOf(tevents, elapsed) /\ due' = DueOf(tevents', elapsed')
  BY DueSteps
<1>3. UNCHANGED timeVars => due' = due
  BY DueSteps DEF timeVars
<1>4. fevents' = fevents => W' = W
  BY DEF Watches, Live
<1>5. runs' = runs => Calls' = Calls
  BY DEF Calls, Calling, InUser, At, Top
<1>6. ASSUME NEW w \in Watch, file_event(w)
      PROVE  E!Next
  <2>1. W' = W \cup {w}
    BY <1>1, <1>6, Registered DEF Watches, Live
  <2>2. due' = due /\ Calls' = Calls
    BY <1>3, <1>5, <1>6 DEF file_event
  <2>3. E!Register(w)
    BY <2>1, <2>2 DEF E!Register, Watches, Calls
  <2> QED
    BY <2>3 DEF E!Next
<1>7. ASSUME NEW t \in Timer, NEW n \in Timeout, tm_event(t, n)
      PROVE  E!Next
  <2> DEFINE us == Updated(tevents, elapsed)
  <2>1. /\ TimerList(us) /\ n \in Nat /\ \A i \in DOMAIN us : us[i].id # t
        /\ tevents' = Insert(us, t, n) /\ elapsed' = 0
    BY <1>7, Sets
  <2>2. due = DueOf(us, 0)
    BY <1>1, <1>2, UpdateKeeps
  <2> HIDE DEF us
  <2>3. due' = [u \in DOMAIN due \cup {t} |-> IF u = t THEN n ELSE due[u]]
    <3>1. DueOf(Insert(us, t, n), 0) = WithTimer(DueOf(us, 0), t, n)
      BY <2>1, InsertKeeps
    <3>2. due' = DueOf(Insert(us, t, n), 0)
      BY <1>2, <2>1
    <3> QED
      BY <2>2, <3>1, <3>2 DEF WithTimer
  <2>4. t \notin DOMAIN due
    <3>1. DOMAIN due = {us[i].id : i \in 1..Len(us)} /\ DOMAIN us = 1..Len(us)
      BY <2>1, <2>2, DueFacts, TimersAre
    <3> QED
      BY <2>1, <3>1
  <2>5. W' = W /\ Calls' = Calls
    BY <1>4, <1>5, <1>7 DEF tm_event, fileVars
  <2>6. E!SetTimer(t, n)
    BY <2>3, <2>4, <2>5 DEF E!SetTimer, Watches, Calls
  <2> QED
    BY <2>6 DEF E!Next
<1>8. ASSUME NEW cb \in Cb, NEW kinds \in E!Kinds, remove(cb, kinds)
      PROVE  E!Next
  <2>1. /\ fevents' = WithoutFiles(cb, kinds) /\ elapsed' = elapsed /\ runs' = runs
        /\ tevents' = IF "Timer" \in kinds THEN WithoutTimers(cb) ELSE tevents
    BY <1>8 DEF remove
  <2>2. W' = {w \in W : w.cb # cb \/ w.ev \notin kinds}
    <3>1. Watches(fevents') = {w \in W : w.cb # cb \/ w.ev \notin kinds}
      BY <1>1, <2>1, RemovedFiles
    <3> QED
      BY <3>1 DEF Watches, Live
  <2>3. due' = IF "Timer" \in kinds THEN [t \in {u \in DOMAIN due : Owner[u] # cb} |-> due[t]]
                                    ELSE due
    <3>1. CASE "Timer" \in kinds
      <4>1. DueOf(WithoutTimers(cb), elapsed) =
              [t \in {u \in DOMAIN DueOf(tevents, elapsed) : Owner[u] # cb} |->
                 DueOf(tevents, elapsed)[t]]
        BY <1>1, WithoutKeeps
      <4>2. due' = DueOf(WithoutTimers(cb), elapsed)
        BY <1>2, <2>1, <3>1
      <4>3. due' = [t \in {u \in DOMAIN due : Owner[u] # cb} |-> due[t]]
        BY <1>2, <4>1, <4>2
      <4> QED
        BY <3>1, <4>3
    <3>2. CASE "Timer" \notin kinds
      BY <1>2, <2>1, <3>2
    <3> QED
      BY <3>1, <3>2
  <2>4. Calls' = Calls
    BY <1>5, <2>1
  <2>5. E!Remove(cb, kinds)
    BY <2>2, <2>3, <2>4 DEF E!Remove, E!Restrict, Watches, Calls
  <2> QED
    BY <2>5 DEF E!Next
<1>9. CASE run
  <2>1. W' = W
    <3>1. Watches(fevents') = Watches(fevents)
      BY <1>1, <1>9, Built DEF run
    <3> QED
      BY <3>1 DEF Watches, Live
  <2>2. due' = due
    BY <1>9, DueSteps DEF run
  <2> QED
    BY <1>9, <2>1, <2>2, CallsSame
<1>10. CASE RunEnd
  <2>1. W' = W
    BY <1>4, <1>10 DEF RunEnd
  <2>2. due' = due
    BY <1>10, DueSteps DEF RunEnd
  <2> QED
    BY <1>10, <2>1, <2>2, CallsSame
<1>11. CASE Return
  <2>1. W' = W /\ due' = due
    BY <1>3, <1>4, <1>11 DEF Return, fileVars
  <2>2. Calls # <<>> /\ Calls' = SubSeq(Calls, 1, Len(Calls) - 1)
    BY <1>11, Movers, CallsMove
  <2>3. E!Return
    BY <2>1, <2>2 DEF E!Return, Watches, Calls
  <2> QED
    BY <2>3 DEF E!Next
<1>12. CASE CallFile
  <2>1. W' = W /\ due' = due
    BY <1>3, <1>4, <1>12 DEF CallFile, fileVars
  <2>2. PICK w \in Watch : w \in W /\ runs'[Len(runs)].call = w
    BY <1>12, FileCalls
  <2>3. Calls' = Append(Calls, w)
    BY <1>12, <2>2, Movers, CallsMove
  <2>4. E!CallFile(w)
    BY <2>1, <2>2, <2>3 DEF E!CallFile, Watches, Calls
  <2> QED
    BY <2>4 DEF E!Next
<1>13. CASE CallTimer
  <2>1. W' = W
    BY <1>4, <1>13 DEF CallTimer, fileVars
  <2>2. PICK t \in Timer :
          /\ t \in DOMAIN due /\ due[t] <= 0 /\ \A u \in DOMAIN due : due[t] <= due[u]
          /\ due' = [u \in DOMAIN due \ {t} |-> due[u]]
          /\ runs'[Len(runs)].call = t
    BY <1>13, TimerCalls
  <2>3. Calls' = Append(Calls, t)
    BY <1>13, <2>2, Movers, CallsMove
  <2>4. E!CallTimer(t)
    BY <2>1, <2>2, <2>3 DEF E!CallTimer, E!Restrict, Watches, Calls
  <2> QED
    BY <2>4 DEF E!Next
<1>14. CASE FilesDone
  <2>1. W' = W
    <3>1. Watches(fevents') = Watches(fevents)
      BY <1>1, <1>14, Unlocked DEF FilesDone
    <3> QED
      BY <3>1 DEF Watches, Live
  <2>2. due' = due
    BY <1>3, <1>14 DEF FilesDone
  <2>3. Calls' = Calls
    BY <1>14, Movers, CallsMove
  <2> QED
    BY <2>1, <2>2, <2>3
<1>15. CASE TimeUp \/ Interrupted
  <2>1. W' = W /\ due' = due
    BY <1>3, <1>4, <1>15 DEF TimeUp, Interrupted
  <2>2. Calls' = Calls
    BY <1>15, Movers, CallsMove
  <2> QED
    BY <2>1, <2>2
<1>16. ASSUME NEW hits \in SUBSET Fd, Ready(hits)
       PROVE  Same
  <2>1. W' = W /\ due' = due
    BY <1>3, <1>4, <1>16 DEF Ready
  <2>2. Calls' = Calls
    BY <1>16, Movers, CallsMove
  <2> QED
    BY <2>1, <2>2
<1>17. CASE Tick
  <2>1. W' = W /\ Calls' = Calls /\ tevents' = tevents
    BY <1>4, <1>5, <1>17 DEF Tick, fileVars
  <2>2. CASE tevents = <<>>
    <3>1. elapsed' = elapsed
      BY <1>17, <2>2 DEF Tick
    <3>2. due' = due
      BY <1>3, <2>1, <3>1 DEF timeVars
    <3> QED
      BY <2>1, <3>2
  <2>3. CASE tevents # <<>>
    <3>1. elapsed' = elapsed + 1
      BY <1>17, <2>3 DEF Tick
    <3>2. /\ DOMAIN due = {tevents[i].id : i \in 1..Len(tevents)}
          /\ \A i \in 1..Len(tevents) : due[tevents[i].id] = Delta(tevents, i) - elapsed
      BY <1>1, <1>2, DueFacts
    <3>3. \A i \in 1..Len(tevents) : Delta(tevents, i) \in Int
      <4>1. Len(tevents) \in Nat /\ \A i \in 0..Len(tevents) : Delta(tevents, i) \in Int
        BY <1>1, TimersAre
      <4>2. \A i \in 1..Len(tevents) : i \in 0..Len(tevents)
        BY <4>1
      <4> QED
        BY <4>1, <4>2
    <3> DEFINE d == [t \in DOMAIN due |-> due[t] - 1]
    <3>4. \A i \in 1..Len(tevents) : d[tevents[i].id] = Delta(tevents, i) - (elapsed + 1)
      <4> SUFFICES ASSUME NEW i \in 1..Len(tevents)
                   PROVE  d[tevents[i].id] = Delta(tevents, i) - (elapsed + 1)
        OBVIOUS
      <4>1. tevents[i].id \in DOMAIN due /\ due[tevents[i].id] = Delta(tevents, i) - elapsed
        BY <3>2
      <4>2. d[tevents[i].id] = due[tevents[i].id] - 1
        BY <4>1
      <4>3. Delta(tevents, i) \in Int
        BY <3>3
      <4> HIDE DEF d
      <4> QED
        BY <1>1, <4>1, <4>2, <4>3
    <3>5. DOMAIN d = {tevents[i].id : i \in 1..Len(tevents)} /\ d = [t \in DOMAIN d |-> d[t]]
      BY <3>2
    <3> HIDE DEF d
    <3>6. DueOf(tevents, elapsed + 1) = d
      BY <1>1, <3>4, <3>5, DueIs
    <3>7. due' = d
      BY <1>2, <2>1, <3>1, <3>6
    <3>8. E!Tick
      BY <2>1, <3>7 DEF E!Tick, Watches, Calls, d
    <3> QED
      BY <3>8 DEF E!Next
  <2> QED
    BY <2>2, <2>3
<1> QED
  BY <1>6, <1>7, <1>8, <1>9, <1>10, <1>11, <1>12, <1>13, <1>14, <1>15, <1>16, <1>17
  DEF Next, Turn

\* Whatever callbacks register, remove or run, the dispatcher is an event loop: a
\* callback is made for what is registered at that moment, a timer is called when
\* its time is over, never before, and before every timer whose time is over later.
THEOREM Refinement == Spec => ImplementsEventLoop
<1>1. Init => E!Init
  <2> SUFFICES ASSUME Init
               PROVE  E!Init
    OBVIOUS
  <2>1. fevents = <<>> /\ tevents = <<>> /\ elapsed = 0 /\ runs = <<>>
    BY DEF Init
  <2>2. {fevents[i].w : i \in Live(fevents)} = {}
    BY <2>1 DEF Live
  <2>3. Calls = <<>>
    BY <2>1 DEF Calls, Calling
  <2>4. due = <<>>
    <3>1. DOMAIN due = {}
      BY <2>1 DEF due
    <3>2. due = [t \in DOMAIN due |-> due[t]]
      BY DEF due
    <3> QED
      BY <3>1, <3>2
  <2> QED
    BY <2>2, <2>3, <2>4 DEF E!Init, Calls
<1>2. ASSUME Inv, [Next]_vars
      PROVE  [E!Next]_<<{fevents[i].w : i \in Live(fevents)}, due, [i \in DOMAIN Calling |-> Calling[i].call]>>
  <2>1. CASE Next
    BY <1>2, <2>1, Refines DEF Watches, Calls
  <2>2. CASE UNCHANGED vars
    <3>1. fevents' = fevents /\ tevents' = tevents /\ elapsed' = elapsed /\ runs' = runs
      BY <2>2 DEF vars
    <3> QED
      BY <3>1 DEF Live, due, Calling, InUser, At, Top
  <2> QED
    BY <1>2, <2>1, <2>2
<1> QED
  BY <1>1, <1>2, Invariance, PTL DEF Spec, ImplementsEventLoop, E!Spec

=============================================================================
