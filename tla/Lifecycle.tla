----------------------------- MODULE Lifecycle -----------------------------
(***************************************************************************)
(* The life of the API processes: a boot that runs the migrations under a  *)
(* session's advisory lock, starts the worker loops and listens; requests  *)
(* and ticks; a shutdown that drains the requests, then the loops, and     *)
(* closes the pool under nobody; crashes and forced exits, after which the *)
(* process is started again.  Processes of two releases boot side by side. *)
(***************************************************************************)
EXTENDS Integers, FiniteSets

CONSTANTS
  Proc, Loop, Req,
  Files,        \* process -> how many migrations its release ships
  MaxBoots,     \* bound: boots of one process
  None

ASSUME LifecycleAssumption == Files \in [Proc -> Nat] /\ MaxBoots \in Nat /\ None \notin Proc

VARIABLES
  table,        \* schema_migrations exists
  applied,      \* its rows: the first so many migrations are committed
  holder,       \* whose session holds MIGRATION_LOCK_ID
  proc,         \* process -> where it is, and what it has read
  loop,         \* process -> loop -> its timer is set, its tick runs, or neither
  req           \* request -> what became of it, and which process has it

lifeVars == <<table, applied, holder, proc, loop, req>>

Down == [pc |-> "DOWN", seen |-> 0, boots |-> 0]

LifeInit ==
  /\ table = FALSE /\ applied = 0 /\ holder = None
  /\ proc = [p \in Proc |-> Down]
  /\ loop = [p \in Proc |-> [l \in Loop |-> "OFF"]]
  /\ req = [r \in Req |-> [pc |-> "NEW", on |-> None]]

Moves(p, from, to) == proc[p].pc = from /\ proc' = [proc EXCEPT ![p].pc = to]

-----------------------------------------------------------------------------
(* runMigrations *)

Boot(p) ==
  /\ proc[p].boots < MaxBoots
  /\ proc[p].pc = "DOWN"
  /\ proc' = [proc EXCEPT ![p] = [pc |-> IF table THEN "WAITING" ELSE "CREATING",
                                  seen |-> 0, boots |-> @.boots + 1]]
  /\ UNCHANGED <<table, applied, holder, loop, req>>

\* CREATE TABLE IF NOT EXISTS is not under the lock: whoever began it while the
\* table was missing and finds it made by another fails.
CreateTable(p) ==
  /\ Moves(p, "CREATING", IF table THEN "FAILED" ELSE "WAITING")
  /\ table' = TRUE
  /\ UNCHANGED <<applied, holder, loop, req>>

\* Mutant: the lock is not a lock.
LockForgotten == TRUE

LockFree == holder = None

TakeLock(p) ==
  /\ LockFree
  /\ Moves(p, "WAITING", "LOCKED")
  /\ holder' = p
  /\ UNCHANGED <<table, applied, loop, req>>

\* The rows are read once, after the lock was taken.
ReadApplied(p) ==
  /\ proc[p].pc = "LOCKED"
  /\ proc' = [proc EXCEPT ![p].pc = "MIGRATING", ![p].seen = applied]
  /\ UNCHANGED <<table, applied, holder, loop, req>>

\* The next file that was not in the rows read is applied in a transaction of its
\* own; its INSERT fails when another process has applied it since.
ApplyNext(p) ==
  /\ proc[p].pc = "MIGRATING" /\ proc[p].seen < Files[p]
  /\ IF proc[p].seen = applied
     THEN applied' = applied + 1 /\ proc' = [proc EXCEPT ![p].seen = @ + 1]
     ELSE proc' = [proc EXCEPT ![p].pc = "COLLIDED"] /\ UNCHANGED applied
  /\ UNCHANGED <<table, holder, loop, req>>

\* A statement fails, or a wait runs into the role's lock_timeout: rolled back, and
\* out through finally.
MigrationFails(p) ==
  /\ proc[p].pc \in {"CREATING", "WAITING", "LOCKED", "MIGRATING"}
  /\ proc' = [proc EXCEPT ![p].pc = "FAILED"]
  /\ UNCHANGED <<table, applied, holder, loop, req>>

\* Mutant: a failed boot, and a finished one, keep the lock.
LockKept(p) == UNCHANGED holder

Unlocked(p) == holder' = IF holder = p THEN None ELSE holder

Migrated(p) ==
  /\ proc[p].seen >= Files[p]
  /\ Moves(p, "MIGRATING", "MIGRATED")
  /\ Unlocked(p)
  /\ UNCHANGED <<table, applied, loop, req>>

\* finally, then main().catch: exit 1.
BootFails(p) ==
  /\ proc[p].pc \in {"FAILED", "COLLIDED"}
  /\ proc' = [proc EXCEPT ![p].pc = "DOWN"]
  /\ Unlocked(p)
  /\ UNCHANGED <<table, applied, loop, req>>

-----------------------------------------------------------------------------
(* Workers and requests *)

StartWorkers(p) ==
  /\ Moves(p, "MIGRATED", "STARTED")
  /\ loop' = [loop EXCEPT ![p] = [l \in Loop |-> "TIMER"]]
  /\ UNCHANGED <<table, applied, holder, req>>

Listen(p) ==
  /\ Moves(p, "STARTED", "SERVING")
  /\ UNCHANGED <<table, applied, holder, loop, req>>

TickBegins(p, l) ==
  /\ loop[p][l] = "TIMER"
  /\ loop' = [loop EXCEPT ![p][l] = "RUNNING"]
  /\ UNCHANGED <<table, applied, holder, proc, req>>

\* workers.stop() has been called: after app.close(), and not before.
Stopped(p) == proc[p].pc \notin {"STARTED", "SERVING", "CLOSING"}

\* Mutant: schedule() sets the timer although the loop was stopped.
AlwaysScheduled(p) == "TIMER"

\* schedule(), at the end of a tick that worked or threw.
Schedule(p) == IF Stopped(p) THEN "OFF" ELSE "TIMER"

TickEnds(p, l) ==
  /\ loop[p][l] = "RUNNING"
  /\ loop' = [loop EXCEPT ![p][l] = Schedule(p)]
  /\ UNCHANGED <<table, applied, holder, proc, req>>

\* The balancer hands a request to any process; one that does not listen refuses it.
Accept(r, p) ==
  /\ req[r].pc = "NEW"
  /\ req' = [req EXCEPT ![r] = [pc |-> IF proc[p].pc = "SERVING" THEN "RUNNING" ELSE "REFUSED",
                                on |-> p]]
  /\ UNCHANGED <<table, applied, holder, proc, loop>>

Finish(r) ==
  /\ req[r].pc = "RUNNING"
  /\ req' = [req EXCEPT ![r].pc = "ANSWERED"]
  /\ UNCHANGED <<table, applied, holder, proc, loop>>

-----------------------------------------------------------------------------
(* Shutdown *)

Running(p) == {r \in Req : req[r] = [pc |-> "RUNNING", on |-> p]}

\* beginShutdown(), and app.close() begins in the same step.
Signal(p) ==
  /\ Moves(p, "SERVING", "CLOSING")
  /\ UNCHANGED <<table, applied, holder, loop, req>>

\* app.close() ends when the last request has been answered.
Drained(p) == Running(p) = {}

\* stop(): every loop's timer is cleared.
StopWorkers(p) ==
  /\ Drained(p)
  /\ Moves(p, "CLOSING", "STOPPING")
  /\ loop' = [loop EXCEPT ![p] = [l \in Loop |-> IF @[l] = "TIMER" THEN "OFF" ELSE @[l]]]
  /\ UNCHANGED <<table, applied, holder, req>>

\* Every tick in progress has ended.
ClosePool(p) ==
  /\ \A l \in Loop : loop[p][l] # "RUNNING"
  /\ Moves(p, "STOPPING", "POOL_CLOSED")
  /\ UNCHANGED <<table, applied, holder, loop, req>>

Ended(p) ==
  /\ loop' = [loop EXCEPT ![p] = [l \in Loop |-> "OFF"]]
  /\ req' = [r \in Req |-> IF r \in Running(p) THEN [req[r] EXCEPT !.pc = "LOST"] ELSE req[r]]
  /\ Unlocked(p)
  /\ UNCHANGED <<table, applied>>

\* The replica's pool, Redis, exit 0.
Exit(p) == Moves(p, "POOL_CLOSED", "DOWN") /\ Ended(p)

\* The drain took DRAIN_GRACE_MS, or a step of the shutdown threw.
ForcedExit(p) ==
  /\ proc[p].pc \in {"CLOSING", "STOPPING", "POOL_CLOSED"}
  /\ proc' = [proc EXCEPT ![p].pc = "DOWN"]
  /\ Ended(p)

\* The process dies where it stands, or is signalled before it handles signals;
\* the database ends its session, which drops the lock and rolls back.
Dies(p) ==
  /\ proc[p].pc \notin {"DOWN", "CLOSING", "STOPPING", "POOL_CLOSED"}
  /\ proc' = [proc EXCEPT ![p].pc = "DOWN"]
  /\ Ended(p)

Boots(p) ==
  \/ CreateTable(p) \/ ReadApplied(p) \/ ApplyNext(p) \/ Migrated(p) \/ BootFails(p)
  \/ StartWorkers(p) \/ Listen(p)

Shuts(p) == StopWorkers(p) \/ ClosePool(p) \/ Exit(p) \/ ForcedExit(p)

LifeNext ==
  \/ \E p \in Proc :
       \/ Boot(p) \/ TakeLock(p) \/ Boots(p) \/ MigrationFails(p)
       \/ Signal(p) \/ Shuts(p) \/ Dies(p)
       \/ \E l \in Loop : TickBegins(p, l) \/ TickEnds(p, l)
       \/ \E r \in Req : Accept(r, p)
  \/ \E r \in Req : Finish(r)

\* A process that runs goes on; the shutdown's timer fires; the database lets
\* nobody wait for a lock for ever that others take and leave.
LifeFairness ==
  \A p \in Proc : WF_lifeVars(Boots(p)) /\ WF_lifeVars(Shuts(p)) /\ SF_lifeVars(TakeLock(p))

LifeSpec == LifeInit /\ [][LifeNext]_lifeVars /\ LifeFairness

-----------------------------------------------------------------------------
(* Properties *)

LifeTypeOK ==
  /\ table \in BOOLEAN /\ applied \in Nat /\ holder \in Proc \cup {None}
  /\ proc \in [Proc -> [pc : {"DOWN", "CREATING", "WAITING", "LOCKED", "MIGRATING", "FAILED",
                              "COLLIDED", "MIGRATED", "STARTED", "SERVING", "CLOSING",
                              "STOPPING", "POOL_CLOSED"},
                        seen : Nat, boots : 0..MaxBoots]]
  /\ loop \in [Proc -> [Loop -> {"OFF", "TIMER", "RUNNING"}]]
  /\ req \in [Req -> [pc : {"NEW", "RUNNING", "ANSWERED", "REFUSED", "LOST"},
                      on : Proc \cup {None}]]

\* Processes that boot at once never fail because of each other's migrations, also
\* when one dies with the lock or ships fewer of them, and whoever works or serves
\* does so on all the migrations of its release (migrate.ts:4-6, "the first one
\* migrates, the rest block, then find nothing to do").
BootsDoNotCollide ==
  \A p \in Proc :
    /\ proc[p].pc # "COLLIDED"
    /\ proc[p].pc \in {"STARTED", "SERVING", "CLOSING", "STOPPING"} => applied >= Files[p]

\* From the moment a process closes its pool, no request and no tick of it runs and
\* no timer is left to start one: nothing is cut off that an orderly shutdown would
\* have let finish (server.ts:9-11).
QuietBeforeClose ==
  \A p \in Proc :
    proc[p].pc = "POOL_CLOSED" =>
      Running(p) = {} /\ \A l \in Loop : loop[p][l] = "OFF"

\* A process that begins to shut down is gone in the end, and one that begins to
\* boot serves or is gone: no request, tick or lock holds it for ever
\* (server.ts:47-51; migrate.ts:95-98).
NobodyHangs ==
  \A p \in Proc : proc[p].pc \notin {"DOWN", "SERVING"} ~> proc[p].pc \in {"DOWN", "SERVING"}
=============================================================================
