----------------------------- MODULE Incarnation -----------------------------
(***************************************************************************)
(* What a POA promises the servants of its objects: an object has one      *)
(* servant at a time, which executes the requests for it; once the object  *)
(* is deactivated no further request begins, and the servant is let go     *)
(* when the last one has ended, neither earlier nor later.                 *)
(***************************************************************************)
CONSTANTS Id, Servant, NoServant, Request

VARIABLES
  unique,   \* a servant may incarnate one object only
  phase,    \* of each object: none, active, leaving
  serv,     \* its servant
  busy      \* the requests that execute on it

vars == <<unique, phase, serv, busy>>

Init ==
  /\ unique \in BOOLEAN
  /\ phase = [i \in Id |-> "none"] /\ serv = [i \in Id |-> NoServant]
  /\ busy = [i \in Id |-> {}]

Enter(i, s) ==
  /\ phase[i] = "none" /\ s \in Servant
  /\ unique => \A j \in Id : serv[j] # s
  /\ phase' = [phase EXCEPT ![i] = "active"] /\ serv' = [serv EXCEPT ![i] = s]
  /\ UNCHANGED unique

Leave(i) ==
  /\ phase' = [phase EXCEPT ![i] = "none"] /\ serv' = [serv EXCEPT ![i] = NoServant]
  /\ UNCHANGED unique

Activate(i, s) == Enter(i, s) /\ UNCHANGED busy

\* a request brings its object to life
Incarnate(i, s, r) == Enter(i, s) /\ busy' = [busy EXCEPT ![i] = {r}]

Begin(i, r) ==
  /\ phase[i] = "active" /\ \A j \in Id : r \notin busy[j]
  /\ busy' = [busy EXCEPT ![i] = @ \cup {r}]
  /\ UNCHANGED <<unique, phase, serv>>

End(i, r) ==
  /\ r \in busy[i]
  /\ busy' = [busy EXCEPT ![i] = @ \ {r}]
  /\ IF phase[i] = "leaving" /\ busy[i] = {r} THEN Leave(i)
     ELSE UNCHANGED <<unique, phase, serv>>

Deactivate(i) ==
  /\ phase[i] # "none"
  /\ IF busy[i] = {} THEN Leave(i)
     ELSE phase' = [phase EXCEPT ![i] = "leaving"] /\ UNCHANGED <<unique, serv>>
  /\ UNCHANGED busy

\* the POA is destroyed: all objects go, whatever executes
Close ==
  /\ phase' = [i \in Id |-> "none"] /\ serv' = [i \in Id |-> NoServant]
  /\ busy' = [i \in Id |-> {}]
  /\ UNCHANGED unique

Next ==
  \/ \E i \in Id : \/ \E s \in Servant : Activate(i, s) \/ \E r \in Request : Incarnate(i, s, r)
                   \/ \E r \in Request : Begin(i, r) \/ End(i, r)
                   \/ Deactivate(i)
  \/ Close

Spec == Init /\ [][Next]_vars
===============================================================================
