----------------------------- MODULE MCWorkers ------------------------------
(* What runs in a process besides the handlers' own logic: two dispatchers,  *)
(* three events of which two may fail, batches of two; or the boots and      *)
(* shutdowns of two processes; or three handlers and a pool of two           *)
(* connections.                                                              *)
EXTENDS Outbox, Lifecycle, Pool, TLC

CONSTANTS e1, e2, e3, d1, d2, p1, p2, l1, r1, h1, h2, h3

VARIABLE part   \* which of the modules this behaviour is of

\* p1 is of the older release.
MCFiles == p1 :> 1 @@ p2 :> 2

MCInit == part \in {"outbox", "processes", "pool"} /\ Init /\ LifeInit /\ PoolInit

MCNext ==
  \/ part = "outbox" /\ Next /\ UNCHANGED <<part, lifeVars, poolVars>>
  \/ part = "processes" /\ LifeNext /\ UNCHANGED <<part, vars, poolVars>>
  \/ part = "pool" /\ PoolNext /\ UNCHANGED <<part, vars, lifeVars>>

\* Nothing one of the three speaks of is possible in the parts of the others.
MCFairness == OutboxFairness /\ LifeFairness /\ PoolFairness

MCSpec == MCInit /\ [][MCNext]_<<part, vars, lifeVars, poolVars>> /\ MCFairness
=============================================================================
