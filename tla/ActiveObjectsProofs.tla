------------------------- MODULE ActiveObjectsProofs -------------------------
(***************************************************************************)
(* Proofs about ActiveObjects for any objects, servants, application       *)
(* threads and workers.  The inductive invariant Inv adds to TypeOK and    *)
(* RecordsExact what each thread works on at each step.  The lemmas say    *)
(* what a step does to Busy, the set invoke_cnt counts; the invariant and  *)
(* the refinement both rest on them.                                       *)
(***************************************************************************)
EXTENDS ActiveObjects, FiniteSetTheorems, TLAPS

ThreadInv ==
  /\ \A w \in Worker : /\ pc[w] \in {"idle", "arrived", "upcall", "stuck"}
                       /\ pc[w] # "idle" => target[w] \in Id
  /\ \A a \in App : /\ pc[a] \in {"idle", "waiting", "woken"}
                    /\ pc[a] # "idle" => target[a] \in Id /\ with[a] \in Servant
  /\ \A w \in orphan : pc[w] = "upcall"
  /\ orphan # {} => closed

Inv == TypeOK /\ ThreadInv /\ RecordsExact

-----------------------------------------------------------------------------
\* Busy is a finite set of workers, whose size is no more than theirs.
LEMMA BusyFinite ==
  ASSUME NEW i \in Id
  PROVE  /\ Busy[i] \subseteq Worker /\ IsFiniteSet(Busy[i])
         /\ Cardinality(Busy[i]) \in Nat /\ Cardinality(Busy[i]) <= Cardinality(Worker)
<1>1. Busy[i] \subseteq Worker
  BY DEF Busy
<1>2. IsFiniteSet(Worker)
  BY ConstantsAssumption
<1> QED
  BY <1>1, <1>2, FS_Subset, FS_CardinalityType

\* A step that neither begins nor ends an up-call leaves Busy alone.
LEMMA BusySame ==
  ASSUME TypeOK, TypeOK', orphan' = orphan,
         \A w \in Worker : pc[w] = "upcall" <=> pc'[w] = "upcall",
         \A w \in Worker : pc[w] = "upcall" => target'[w] = target[w]
  PROVE  Busy' = Busy
  BY DEF Busy

\* A worker that begins an up-call for object i joins those that execute on it.
LEMMA BusyIn ==
  ASSUME ThreadInv, NEW w \in Worker, NEW i \in Id, target[w] = i, pc[w] # "upcall",
         pc' = [pc EXCEPT ![w] = "upcall"], pc \in [Thread -> Pc],
         target' = target, orphan' = orphan
  PROVE  /\ Busy' = [Busy EXCEPT ![i] = @ \cup {w}]
         /\ \A j \in Id : w \notin Busy[j]
<1>1. w \notin orphan
  BY DEF ThreadInv
<1>2. \A u \in Worker : pc'[u] = IF u = w THEN "upcall" ELSE pc[u]
  BY DEF Thread
<1>3. \A j \in Id : Busy'[j] = IF j = i THEN Busy[j] \cup {w} ELSE Busy[j]
  BY <1>1, <1>2 DEF Busy
<1>4. Busy' = [j \in Id |-> Busy'[j]] /\ Busy = [j \in Id |-> Busy[j]]
  BY DEF Busy
<1>5. \A j \in Id : w \notin Busy[j]
  BY DEF Busy
<1> HIDE DEF Busy
<1> QED
  BY <1>3, <1>4, <1>5

\* A worker whose up-call returns leaves the object it was counted for.
LEMMA BusyOut ==
  ASSUME NEW w \in Worker, NEW i \in Id, target[w] = i, pc[w] = "upcall", w \notin orphan,
         \A u \in Worker : pc'[u] = IF u = w THEN "idle" ELSE pc[u],
         target' = [target EXCEPT ![w] = NoId], target \in [Thread -> Id \cup {NoId}],
         orphan' = orphan
  PROVE  /\ Busy' = [Busy EXCEPT ![i] = @ \ {w}]
         /\ w \in Busy[i] /\ \A j \in Id : w \in Busy[j] => j = i
<1>1. \A u \in Worker : u # w => target'[u] = target[u]
  BY DEF Thread
<1>2. \A j \in Id : Busy'[j] = IF j = i THEN Busy[j] \ {w} ELSE Busy[j]
  BY <1>1 DEF Busy
<1>3. Busy' = [j \in Id |-> Busy'[j]] /\ Busy = [j \in Id |-> Busy[j]]
  BY DEF Busy
<1>4. w \in Busy[i] /\ \A j \in Id : w \in Busy[j] => j = i
  BY DEF Busy
<1>5. Busy' = [Busy EXCEPT ![i] = @ \ {w}]
  BY <1>2, <1>3
<1> QED
  BY <1>4, <1>5

\* Threads of the application do not execute requests.
LEMMA AppNotBusy ==
  ASSUME NEW a \in App
  PROVE  a \in Thread /\ a \notin Worker
  BY ConstantsAssumption DEF Thread

-----------------------------------------------------------------------------
\* The invariant holds at first.
LEMMA InitInv == Init => Inv
<1> SUFFICES ASSUME Init PROVE Inv
  OBVIOUS
<1>1. TypeOK
  <2>1. Cardinality(Worker) \in Nat
    BY ConstantsAssumption, FS_CardinalityType
  <2>2. \A i \in Id : cnt[i] <= Cardinality(Worker)
    BY <2>1 DEF Init
  <2>3. cnt \in [Id -> Nat] /\ phase \in [Id -> {"none", "active", "leaving"}]
    BY DEF Init
  <2>4. pc \in [Thread -> Pc] /\ target \in [Thread -> Id \cup {NoId}]
    BY DEF Init, Pc
  <2> QED
    BY <2>2, <2>3, <2>4 DEF Init, TypeOK
<1>2. ThreadInv
  BY DEF Init, ThreadInv, Thread
<1>3. RecordsExact
  <2>1. \A i \in Id : Busy[i] = {}
    BY DEF Init, Busy, Thread
  <2> QED
    BY <2>1, FS_EmptySet DEF Init, RecordsExact, Signalled, Thread
<1> QED
  BY <1>1, <1>2, <1>3 DEF Inv

\* Activation by an application thread: the object is entered, or waited for.
LEMMA ActivateNowInv ==
  ASSUME Inv, NEW a \in App, NEW i \in Id, NEW s \in Servant,
         pc[a] \in {"idle", "woken"}, ActivateNow(a, i, s),
         UNCHANGED <<policyVars, lock, closed, orphan>>
  PROVE  Inv' /\ Busy' = Busy
<1> USE DEF policyVars, mapVars
<1>1. a \in Thread /\ a \notin Worker
  BY AppNotBusy
<1>2. \A u \in Thread : u # a => pc'[u] = pc[u] /\ target'[u] = target[u]
  BY DEF ActivateNow, Go, Inv, TypeOK
<1>3. TypeOK'
  BY <1>1 DEF ActivateNow, Go, Add, Inv, TypeOK, Pc, RecordsExact
<1>4. ThreadInv'
  BY <1>1, <1>2 DEF ActivateNow, Go, Inv, TypeOK, ThreadInv, Thread
<1>5. Busy' = Busy
  BY <1>1, <1>2, <1>3, BusySame DEF Inv, Thread
<1>6. RecordsExact'
  <2> SUFFICES ASSUME NEW j \in Id
               PROVE  /\ cnt'[j] = Cardinality(Busy'[j])
                      /\ phase'[j] = "leaving" => cnt'[j] > 0
                      /\ phase'[j] = "none" => cnt'[j] = 0
                      /\ phase'[j] = "none" <=> serv'[j] = NoServant
                      /\ Signalled(j)' # {} => phase'[j] = "leaving" \/ closed'
    BY DEF RecordsExact
  <2>1. s # NoServant
    BY ConstantsAssumption
  <2>2. CASE phase[i] = "leaving"
    <3>1. Signalled(j)' \subseteq Signalled(j) \cup (IF j = i THEN {a} ELSE {})
      BY <1>1, <1>2, <2>2 DEF ActivateNow, Go, Signalled, Inv, TypeOK, Thread
    <3> QED
      BY <1>5, <2>2, <3>1 DEF ActivateNow, Inv, RecordsExact
  <2>3. CASE phase[i] # "leaving"
    <3>1. Signalled(j)' \subseteq Signalled(j)
      BY <1>1, <1>2, <2>3 DEF ActivateNow, Go, Signalled, Inv, TypeOK, Thread
    <3>2. UNCHANGED mapVars \/ (phase[i] = "none" /\ Add(i, s, 0))
      BY <2>3 DEF ActivateNow, Inv, TypeOK
    <3> QED
      BY <1>5, <2>1, <3>1, <3>2 DEF Add, Inv, TypeOK, RecordsExact
  <2> QED
    BY <2>2, <2>3
<1> QED
  BY <1>3, <1>4, <1>5, <1>6 DEF Inv

\* Removal, by a thread that ends an up-call or by the application.
LEMMA RemoveFacts ==
  ASSUME TypeOK, NEW i \in Id, NEW t \in Thread, Remove(i, t)
  PROVE  /\ phase[i] # "none"
         /\ phase' = [phase EXCEPT ![i] = "none"] /\ serv' = [serv EXCEPT ![i] = NoServant]
         /\ cnt' = [cnt EXCEPT ![i] = 0]
         /\ pc' \in [Thread -> Pc]
         /\ \A w \in Worker : pc'[w] = IF w = t THEN "idle" ELSE pc[w]
         /\ \A a \in App : pc'[a] = IF a = t THEN "idle"
                                    ELSE IF pc[a] = "waiting" /\ target[a] = i THEN "woken"
                                    ELSE pc[a]
  BY ConstantsAssumption DEF Remove, Del, Signalled, TypeOK, Thread, Pc

\* deactivate_object() keeps the invariant and the objects in use.
LEMMA DeactivateInv ==
  ASSUME Inv, NEW a \in App, NEW i \in Id, DeactivateObject(a, i)
  PROVE  Inv' /\ Busy' = Busy
<1> USE DEF policyVars
<1>1. a \in Thread /\ a \notin Worker
  BY AppNotBusy
<1>2. CASE cnt[i] = 0
  <2>1. Remove(i, a)
    BY <1>2 DEF DeactivateObject
  <2>2. TypeOK'
    BY <1>1, <2>1, RemoveFacts DEF DeactivateObject, Inv, TypeOK
  <2>3. ThreadInv'
    BY <1>1, <2>1, RemoveFacts DEF DeactivateObject, Inv, TypeOK, ThreadInv
  <2>4. Busy' = Busy
    BY <1>1, <2>1, <2>2, RemoveFacts, BusySame DEF DeactivateObject, Inv
  <2>5. \A j \in Id : Signalled(j)' \subseteq IF j = i THEN {} ELSE Signalled(j)
    BY <1>1, <2>1, RemoveFacts DEF DeactivateObject, Signalled, Inv
  <2>6. RecordsExact'
    <3>1. UNCHANGED closed
      BY DEF DeactivateObject
    <3>2. \A j \in Id : IF j = i THEN cnt'[j] = 0 /\ phase'[j] = "none" /\ serv'[j] = NoServant
                        ELSE cnt'[j] = cnt[j] /\ phase'[j] = phase[j] /\ serv'[j] = serv[j]
      BY <1>1, <2>1, RemoveFacts DEF Inv, TypeOK
    <3> QED
      BY <1>2, <2>4, <2>5, <3>1, <3>2 DEF Inv, RecordsExact
  <2> QED
    BY <2>2, <2>3, <2>4, <2>6 DEF Inv
<1>3. CASE cnt[i] # 0
  <2>1. phase' = [phase EXCEPT ![i] = "leaving"] /\ UNCHANGED <<serv, cnt, pc, target, with>>
    BY <1>3 DEF DeactivateObject
  <2>2. TypeOK' /\ ThreadInv'
    BY <2>1 DEF DeactivateObject, Inv, TypeOK, ThreadInv
  <2>3. Busy' = Busy
    BY <2>1 DEF DeactivateObject, Busy
  <2>4. RecordsExact'
    BY <1>3, <2>1, <2>3 DEF DeactivateObject, Inv, TypeOK, RecordsExact, Signalled
  <2> QED
    BY <2>2, <2>3, <2>4 DEF Inv
<1> QED
  BY <1>2, <1>3

\* etherealize() or clear(), which drops all records, keeps the invariant.
LEMMA CleanupInv ==
  ASSUME Inv, Cleanup
  PROVE  Inv' /\ \A i \in Id : Busy'[i] = {}
<1>1. TypeOK'
  <2>1. Cardinality(Worker) \in Nat
    BY ConstantsAssumption, FS_CardinalityType
  <2>2. cnt' \in [Id -> Nat] /\ \A i \in Id : cnt'[i] <= Cardinality(Worker)
    BY <2>1 DEF Cleanup
  <2> QED
    BY <2>2 DEF Cleanup, Inv, TypeOK, policyVars
<1>4. ThreadInv'
  BY DEF Cleanup, Inv, ThreadInv
<1>2. \A i \in Id : Busy'[i] = {}
  BY DEF Cleanup, Busy
<1>3. RecordsExact'
  BY <1>2, FS_EmptySet DEF Cleanup, RecordsExact
<1> QED
  BY <1>1, <1>2, <1>3, <1>4 DEF Inv

\* A request before its up-call: it arrives, or finds no servant.
LEMMA RequestInv ==
  ASSUME Inv, NEW w \in Worker,
         (\E i \in Id : Arrive(w, i)) \/ NotFound(w)
         \/ \E s \in Servant : phase[target[w]] = "leaving" /\ Incarnate(w, s)
  PROVE  Inv' /\ Busy' = Busy /\ UNCHANGED <<unique, phase, serv>>
<1> USE DEF policyVars, mapVars
<1>1. w \in Thread /\ w \notin App
  BY ConstantsAssumption DEF Thread
<1>2. /\ UNCHANGED <<activator, unique, phase, serv, cnt, closed, with, orphan>>
      /\ pc[w] \in {"idle", "arrived"}
      /\ lock' \in {lock, w}
      /\ \E l \in {"idle", "arrived", "stuck"}, x \in Id \cup {NoId} :
           /\ pc' = [pc EXCEPT ![w] = l] /\ target' = [target EXCEPT ![w] = x]
           /\ l # "idle" => x \in Id
  <2>1. ASSUME NEW i \in Id, Arrive(w, i) PROVE <1>2!:
    BY <2>1 DEF Arrive, Go
  <2>2. ASSUME NotFound(w) PROVE <1>2!:
    BY <2>2 DEF NotFound, Go
  <2>3. ASSUME NEW s \in Servant, phase[target[w]] = "leaving", Incarnate(w, s) PROVE <1>2!:
    <3>1. target' = [target EXCEPT ![w] = target[w]] /\ target[w] \in Id
      BY <1>1, <2>3 DEF Incarnate, Inv, TypeOK, ThreadInv
    <3> QED
      BY <2>3, <3>1 DEF Incarnate, Go
  <2> QED
    BY <2>1, <2>2, <2>3
<1>3. TypeOK'
  BY <1>1, <1>2 DEF Inv, TypeOK, Pc
<1>4. ThreadInv'
  BY <1>1, <1>2 DEF Inv, TypeOK, ThreadInv, Thread
<1>5. Busy' = Busy
  <2>1. \A u \in Worker : u # w => pc'[u] = pc[u] /\ target'[u] = target[u]
    BY <1>2 DEF Inv, TypeOK, Thread
  <2>2. pc[w] # "upcall" /\ pc'[w] # "upcall"
    BY <1>1, <1>2 DEF Inv, TypeOK
  <2> QED
    BY <1>2, <1>3, <2>1, <2>2, BusySame DEF Inv
<1>6. RecordsExact'
  <2>1. \A i \in Id : Signalled(i)' = Signalled(i)
    BY <1>1, <1>2 DEF Signalled, Inv, TypeOK, Thread
  <2> QED
    BY <1>2, <1>5, <2>1 DEF Inv, RecordsExact
<1> QED
  BY <1>2, <1>3, <1>4, <1>5, <1>6 DEF Inv

\* The up-call begins, on an object that is active or incarnated for it.
LEMMA BeginInv ==
  ASSUME Inv, NEW w \in Worker, NEW i \in Id, target[w] = i, pc[w] = "arrived",
         Go(w, "upcall"), UNCHANGED <<policyVars, lock, closed, target, with, orphan>>,
         \/ /\ phase[i] = "active" /\ cnt' = [cnt EXCEPT ![i] = @ + 1]
            /\ UNCHANGED <<phase, serv>>
         \/ phase[i] = "none" /\ \E s \in Servant : Add(i, s, 1)
  PROVE  Inv' /\ Busy' = [Busy EXCEPT ![i] = @ \cup {w}] /\ \A j \in Id : w \notin Busy[j]
<1> USE DEF policyVars
<1>1. w \in Thread /\ w \notin App
  BY ConstantsAssumption DEF Thread
<1>2. Busy' = [Busy EXCEPT ![i] = @ \cup {w}] /\ \A j \in Id : w \notin Busy[j]
  BY BusyIn DEF Go, Inv, TypeOK
<1>3. \A j \in Id : Busy'[j] = IF j = i THEN Busy[j] \cup {w} ELSE Busy[j]
  BY <1>2 DEF Busy
<1>4. Cardinality(Busy'[i]) = Cardinality(Busy[i]) + 1
  <2>1. Cardinality(Busy[i] \cup {w}) = Cardinality(Busy[i]) + 1
    BY <1>2, BusyFinite, FS_AddElement
  <2>2. Busy'[i] = Busy[i] \cup {w}
    BY <1>3
  <2> QED
    BY <2>1, <2>2
<1>5. \A j \in Id : cnt'[j] = Cardinality(Busy'[j])
  <2>1. cnt'[i] = cnt[i] + 1
    BY DEF Add, Inv, TypeOK, RecordsExact
  <2>2. \A j \in Id : j # i => cnt'[j] = cnt[j]
    BY DEF Add, Inv, TypeOK
  <2> QED
    BY <1>3, <1>4, <2>1, <2>2 DEF Inv, RecordsExact
<1>6. \A j \in Id : cnt'[j] \in Nat /\ cnt'[j] <= Cardinality(Worker)
  <2>1. \A j \in Id : Busy'[j] \subseteq Worker
    BY <1>3, BusyFinite
  <2> QED
    BY <1>5, <2>1, ConstantsAssumption, FS_Subset, FS_CardinalityType
<1>7. TypeOK'
  <2>1. DOMAIN cnt' = Id /\ cnt' = [j \in Id |-> cnt'[j]]
    BY DEF Add, Inv, TypeOK
  <2>2. cnt' \in [Id -> Nat]
    BY <1>6, <2>1
  <2> QED
    BY <1>1, <1>6, <2>2 DEF Go, Add, Inv, TypeOK, Pc
<1>8. ThreadInv'
  BY <1>1 DEF Go, Inv, TypeOK, ThreadInv, Thread
<1>9. RecordsExact'
  <2>1. \A j \in Id : Signalled(j)' = Signalled(j)
    BY <1>1 DEF Go, Signalled, Inv, TypeOK, Thread
  <2>2. \A j \in Id : /\ phase'[j] = "leaving" => phase[j] = "leaving" /\ cnt'[j] = cnt[j]
                      /\ phase'[j] = "none" => phase[j] = "none" /\ cnt'[j] = cnt[j]
                      /\ phase'[j] = "none" <=> serv'[j] = NoServant
                      /\ phase[j] = "leaving" => phase'[j] = "leaving"
    BY ConstantsAssumption DEF Add, Inv, TypeOK, RecordsExact
  <2> QED
    BY <1>5, <2>1, <2>2 DEF Inv, RecordsExact
<1> QED
  BY <1>2, <1>7, <1>8, <1>9 DEF Inv

\* The up-call ends: the object is removed after the last one, and only then.
LEMMA FinishInv ==
  ASSUME Inv, NEW w \in Worker, Finish(w)
  PROVE  /\ Inv' /\ target[w] \in Id /\ w \in Busy[target[w]]
         /\ Busy' = [Busy EXCEPT ![target[w]] = @ \ {w}]
         /\ IF phase[target[w]] = "leaving" /\ Busy[target[w]] = {w}
              THEN /\ phase' = [phase EXCEPT ![target[w]] = "none"]
                   /\ serv' = [serv EXCEPT ![target[w]] = NoServant]
              ELSE UNCHANGED <<phase, serv>>
<1> USE DEF policyVars
<1> DEFINE i == target[w]
<1>1. w \in Thread /\ w \notin App /\ i \in Id
  BY ConstantsAssumption DEF Thread, Finish, Inv, ThreadInv
<1>2. \A u \in Worker : pc'[u] = IF u = w THEN "idle" ELSE pc[u]
  BY <1>1, RemoveFacts DEF Finish, Go, Inv, TypeOK, Thread
<1>3. /\ Busy' = [Busy EXCEPT ![i] = @ \ {w}] /\ w \in Busy[i]
      /\ \A j \in Id : w \in Busy[j] => j = i
  BY <1>1, <1>2, BusyOut DEF Finish, Inv, TypeOK
<1>4. \A j \in Id : Busy'[j] = IF j = i THEN Busy[j] \ {w} ELSE Busy[j]
  BY <1>3 DEF Busy
<1>5. Cardinality(Busy'[i]) = Cardinality(Busy[i]) - 1
  <2>1. Cardinality(Busy[i] \ {w}) = Cardinality(Busy[i]) - 1
    BY <1>1, <1>3, BusyFinite, FS_RemoveElement
  <2>2. Busy'[i] = Busy[i] \ {w}
    BY <1>1, <1>4
  <2> QED
    BY <2>1, <2>2
<1>6. cnt[i] = Cardinality(Busy[i]) /\ cnt[i] \in Nat
  BY <1>1 DEF Inv, TypeOK, RecordsExact
<1>7. cnt[i] = 1 <=> Busy[i] = {w}
  <2>1. Cardinality({w}) = 1
    BY FS_Singleton
  <2>2. cnt[i] = 1 => \E x : Busy[i] = {x}
    BY <1>1, <1>6, BusyFinite, FS_Singleton
  <2> QED
    BY <1>3, <1>6, <2>1, <2>2
<1>8. /\ \A j \in Id : cnt'[j] = Cardinality(Busy'[j])
      /\ cnt' \in [Id -> Nat]
  <2>1. cnt' = [cnt EXCEPT ![i] = cnt[i] - 1]
    BY <1>1, <1>6, RemoveFacts DEF Finish, Inv
  <2>2. cnt[i] > 0
    BY <1>6 DEF Finish
  <2>3. cnt' \in [Id -> Nat]
    BY <1>1, <1>6, <2>1, <2>2 DEF Inv, TypeOK
  <2>4. cnt'[i] = Cardinality(Busy'[i])
    BY <1>1, <1>5, <1>6, <2>1 DEF Inv, TypeOK
  <2>5. \A j \in Id : j # i => cnt'[j] = Cardinality(Busy'[j])
    BY <1>1, <1>4, <2>1 DEF Inv, TypeOK, RecordsExact
  <2> QED
    BY <2>3, <2>4, <2>5
<1>9. \A j \in Id : cnt'[j] <= Cardinality(Worker)
  <2>1. \A j \in Id : Busy'[j] \subseteq Worker
    BY <1>4, BusyFinite
  <2> QED
    BY <1>8, <2>1, ConstantsAssumption, FS_Subset
<1>10. CASE cnt[i] = 1 /\ phase[i] = "leaving"
  <2>1. Remove(i, w)
    BY <1>10 DEF Finish
  <2>2. TypeOK'
    <3>1. /\ phase' \in [Id -> {"none", "active", "leaving"}]
          /\ serv' \in [Id -> Servant \cup {NoServant}] /\ pc' \in [Thread -> Pc]
      BY <1>1, <2>1, RemoveFacts DEF Inv, TypeOK
    <3>2. target' \in [Thread -> Id \cup {NoId}]
      BY DEF Finish, Inv, TypeOK
    <3> QED
      BY <1>8, <1>9, <3>1, <3>2 DEF Finish, Inv, TypeOK
  <2>3. ThreadInv'
    BY <1>1, <2>1, RemoveFacts DEF Finish, Inv, TypeOK, ThreadInv, Thread
  <2>4. \A j \in Id : Signalled(j)' \subseteq IF j = i THEN {} ELSE Signalled(j)
    BY <1>1, <2>1, RemoveFacts DEF Finish, Signalled, Inv, TypeOK, Thread
  <2>5. RecordsExact'
    BY <1>1, <1>8, <2>1, <2>4, RemoveFacts DEF Finish, Inv, TypeOK, RecordsExact
  <2> QED
    BY <1>1, <1>3, <1>7, <1>10, <2>1, <2>2, <2>3, <2>5, RemoveFacts DEF Inv
<1>11. CASE ~(cnt[i] = 1 /\ phase[i] = "leaving")
  <2>1. /\ cnt[i] > 0 /\ cnt' = [cnt EXCEPT ![i] = @ - 1] /\ UNCHANGED <<phase, serv>>
        /\ pc' = [pc EXCEPT ![w] = "idle"]
    BY <1>11 DEF Finish, Go
  <2>2. TypeOK'
    BY <1>1, <1>8, <1>9, <2>1 DEF Finish, Inv, TypeOK, Pc
  <2>3. ThreadInv'
    BY <1>1, <2>1 DEF Finish, Inv, TypeOK, ThreadInv, Thread
  <2>4. \A j \in Id : Signalled(j)' = Signalled(j)
    BY <1>1, <2>1 DEF Finish, Signalled, Inv, TypeOK, Thread
  <2>5. RecordsExact'
    BY <1>1, <1>6, <1>8, <1>11, <2>1, <2>4 DEF Finish, Inv, TypeOK, RecordsExact
  <2> QED
    BY <1>1, <1>3, <1>7, <1>11, <2>1, <2>2, <2>3, <2>5 DEF Inv
<1> QED
  BY <1>10, <1>11

-----------------------------------------------------------------------------
\* Every step keeps Inv and is a step of Incarnation, or leaves it where it is.
LEMMA StepCorrect ==
  ASSUME Inv, [Next]_vars
  PROVE  Inv' /\ (I!Next \/ UNCHANGED <<unique, phase, serv, Busy>>)
<1> USE DEF policyVars, mapVars
<1>1. ASSUME NEW a \in App, NEW i \in Id, NEW s \in Servant,
             pc[a] \in {"idle", "woken"}, ActivateNow(a, i, s),
             UNCHANGED <<policyVars, lock, closed, orphan>>
      PROVE  Inv' /\ (I!Next \/ UNCHANGED <<unique, phase, serv, Busy>>)
  <2>1. Inv' /\ Busy' = Busy
    BY <1>1, ActivateNowInv
  <2>2. CASE UNCHANGED mapVars
    BY <1>1, <2>1, <2>2
  <2>3. CASE phase[i] # "active" /\ phase[i] # "leaving"
             /\ ~(unique /\ Exists(s)) /\ Add(i, s, 0)
    <3>1. phase[i] = "none"
      BY <2>3 DEF Inv, TypeOK
    <3>2. I!Activate(i, s)
      BY <1>1, <2>1, <2>3, <3>1 DEF I!Activate, I!Enter, Add, Exists
    <3> QED
      BY <2>1, <3>2 DEF I!Next
  <2> QED
    BY <1>1, <2>2, <2>3 DEF ActivateNow
<1>2. ASSUME NEW a \in App, NEW i \in Id, DeactivateObject(a, i)
      PROVE  Inv' /\ (I!Next \/ UNCHANGED <<unique, phase, serv, Busy>>)
  <2>1. Inv' /\ Busy' = Busy
    BY <1>2, DeactivateInv
  <2>2. cnt[i] = 0 <=> Busy[i] = {}
    BY BusyFinite, FS_EmptySet DEF Inv, RecordsExact
  <2>3. I!Deactivate(i)
    BY <1>2, <2>1, <2>2 DEF I!Deactivate, I!Leave, DeactivateObject, Remove, Del
  <2> QED
    BY <2>1, <2>3 DEF I!Next
<1>3. ASSUME Cleanup
      PROVE  Inv' /\ (I!Next \/ UNCHANGED <<unique, phase, serv, Busy>>)
  <2>1. Inv' /\ \A i \in Id : Busy'[i] = {}
    BY <1>3, CleanupInv
  <2>2. Busy' = [i \in Id |-> {}]
    BY <2>1 DEF Busy
  <2>3. I!Close
    BY <1>3, <2>2 DEF I!Close, Cleanup
  <2> QED
    BY <2>1, <2>3 DEF I!Next
<1>4. ASSUME NEW w \in Worker, Found(w)
      PROVE  Inv' /\ (I!Next \/ UNCHANGED <<unique, phase, serv, Busy>>)
  <2>1. target[w] \in Id /\ phase[target[w]] = "active"
    BY <1>4 DEF Found, Inv, ThreadInv
  <2>2. /\ Inv' /\ Busy' = [Busy EXCEPT ![target[w]] = @ \cup {w}]
        /\ \A j \in Id : w \notin Busy[j]
    BY <1>4, <2>1, BeginInv DEF Found
  <2>3. I!Begin(target[w], w)
    BY <1>4, <2>1, <2>2 DEF I!Begin, Found
  <2> QED
    BY <2>1, <2>2, <2>3 DEF I!Next
<1>5. ASSUME NEW w \in Worker, NEW s \in Servant, Incarnate(w, s),
             phase[target[w]] # "leaving"
      PROVE  Inv' /\ (I!Next \/ UNCHANGED <<unique, phase, serv, Busy>>)
  <2>1. target[w] \in Id /\ phase[target[w]] = "none" /\ Add(target[w], s, 1)
    BY <1>5 DEF Incarnate, Inv, TypeOK, ThreadInv
  <2>2. /\ Inv' /\ Busy' = [Busy EXCEPT ![target[w]] = @ \cup {w}]
        /\ \A j \in Id : w \notin Busy[j]
    BY <1>5, <2>1, BeginInv DEF Incarnate
  <2>3. Busy[target[w]] = {}
    BY <2>1, BusyFinite, FS_EmptySet DEF Inv, RecordsExact
  <2>4. Busy' = [Busy EXCEPT ![target[w]] = {w}]
    BY <2>2, <2>3
  <2>5. I!Incarnate(target[w], s, w)
    BY <1>5, <2>1, <2>4 DEF I!Incarnate, I!Enter, Incarnate, Add, Exists
  <2> QED
    BY <2>1, <2>2, <2>5 DEF I!Next
<1>6. ASSUME NEW w \in Worker, Finish(w)
      PROVE  Inv' /\ (I!Next \/ UNCHANGED <<unique, phase, serv, Busy>>)
  <2>1. /\ Inv' /\ target[w] \in Id /\ w \in Busy[target[w]]
        /\ Busy' = [Busy EXCEPT ![target[w]] = @ \ {w}]
        /\ IF phase[target[w]] = "leaving" /\ Busy[target[w]] = {w}
             THEN /\ phase' = [phase EXCEPT ![target[w]] = "none"]
                  /\ serv' = [serv EXCEPT ![target[w]] = NoServant]
             ELSE UNCHANGED <<phase, serv>>
    BY <1>6, FinishInv
  <2>2. I!End(target[w], w)
    BY <1>6, <2>1 DEF I!End, I!Leave, Finish
  <2> QED
    BY <2>1, <2>2 DEF I!Next
<1>7. ASSUME NEW w \in Worker,
             (\E i \in Id : Arrive(w, i)) \/ NotFound(w)
             \/ \E s \in Servant : phase[target[w]] = "leaving" /\ Incarnate(w, s)
      PROVE  Inv' /\ (I!Next \/ UNCHANGED <<unique, phase, serv, Busy>>)
  BY <1>7, RequestInv
<1>8. ASSUME UNCHANGED vars
      PROVE  Inv' /\ (I!Next \/ UNCHANGED <<unique, phase, serv, Busy>>)
  <2>1. Busy' = Busy
    BY <1>8 DEF vars, Busy
  <2> QED
    BY <1>8, <2>1 DEF vars, Inv, TypeOK, ThreadInv, RecordsExact, Signalled
<1>9. ASSUME NEW a \in App, Reactivate(a)
      PROVE  Inv' /\ (I!Next \/ UNCHANGED <<unique, phase, serv, Busy>>)
  <2>1. target[a] \in Id /\ with[a] \in Servant
    BY <1>9 DEF Reactivate, Inv, ThreadInv
  <2> QED
    BY <1>9, <2>1, <1>1 DEF Reactivate
<1>10. ASSUME NEW a \in App, NEW i \in Id, NEW s \in Servant, ActivateObject(a, i, s)
       PROVE  Inv' /\ (I!Next \/ UNCHANGED <<unique, phase, serv, Busy>>)
  BY <1>10, <1>1 DEF ActivateObject
<1> QED
  BY <1>2, <1>3, <1>4, <1>5, <1>6, <1>7, <1>8, <1>9, <1>10 DEF Next

\* Inv holds of every behaviour.
THEOREM Invariance == Spec => []Inv
<1>1. Init => Inv
  BY InitInv
<1>2. Inv /\ [Next]_vars => Inv'
  BY StepCorrect
<1> QED
  BY <1>1, <1>2, PTL DEF Spec

\* The variables keep their types; in particular invoke_cnt never exceeds the
\* number of workers.
THEOREM TypeCorrect == Spec => []TypeOK
<1>1. Inv => TypeOK
  BY DEF Inv
<1> QED
  BY <1>1, Invariance, PTL

\* For any number of objects, servants and threads a record is kept as long
\* as requests execute on it, and no longer.
THEOREM RecordsAlwaysExact == Spec => []RecordsExact
<1>1. Inv => RecordsExact
  BY DEF Inv
<1> QED
  BY <1>1, Invariance, PTL

\* For any number of them the Active Object Map keeps what Incarnation
\* promises.
THEOREM Refinement == Spec => ImplementsIncarnation
<1>1. Init => I!Init
  <2>1. Init => Busy = [i \in Id |-> {}]
    BY DEF Init, Busy, Thread
  <2> QED
    BY <2>1 DEF Init, I!Init
<1>2. Inv /\ [Next]_vars => [I!Next]_(I!vars)
  BY StepCorrect DEF I!vars
<1> QED
  BY <1>1, <1>2, Invariance, PTL DEF Spec, ImplementsIncarnation, I!Spec
===============================================================================
