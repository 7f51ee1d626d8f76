---------------------------- MODULE MCPOAMediator ----------------------------
(***************************************************************************)
(* Instances of POAMediator for TLC.                                       *)
(***************************************************************************)
EXTENDS POAMediator, TLC

CONSTANTS a, b, r1, r2

ProcSymmetry == Permutations(Proc)

\* all requests go to the one server there is
OneTarget == [r \in Request |-> a]

\* one request for each of two servers
TwoTargets == (r1 :> a) @@ (r2 :> b)

\* servers that exit and crash at any moment, activate and stop
MCTame == [installed |-> Server, requests |-> Request,
           admin |-> {"activate", "stop"}, events |-> {"goodbye", "crash"}]

\* everything servers and administrators can do; b has no command
MCWild == [installed |-> {a}, requests |-> {r1},
           admin |-> {"activate", "hold", "stop", "continue"},
           events |-> {"goodbye", "earlyGoodbye", "crash", "lateCall",
                       "forkFails", "manual"}]

MCQuiet == [installed |-> Server, requests |-> Request, admin |-> {}, events |-> {}]

OnlyTame == {MCTame}
OnlyQuiet == {MCQuiet}
TameOrWild == {MCTame, MCWild}
=============================================================================
