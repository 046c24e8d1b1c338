---------------------------- MODULE WorkersProofs ----------------------------
(***************************************************************************)
(* Proofs about what runs beside the handlers: Outbox, for any events,     *)
(* dispatchers and batch size, and Lifecycle, for any processes, loops,    *)
(* requests and releases.                                                  *)
(***************************************************************************)
EXTENDS Outbox, Lifecycle, TLAPS

-----------------------------------------------------------------------------
(* The outbox *)

\* A batch is a set of pending events that nobody else has, and what was done with some
\* of them is not yet to be seen.
Claimed(d) ==
  /\ batch[d] \subseteq DOMAIN outbox
  /\ \A e \in batch[d] : outbox[e].status = "PENDING"
  /\ DOMAIN result[d] \subseteq batch[d]

OutboxInv ==
  /\ DOMAIN batch = Dispatcher /\ DOMAIN result = Dispatcher
  /\ \A e \in DOMAIN outbox : DOMAIN outbox[e] = {"status", "attempts", "wait", "createdAt"}
  /\ notified \subseteq DOMAIN outbox
  /\ \A d \in Dispatcher : Claimed(d)
  /\ \A c, d \in Dispatcher : c # d => batch[c] \cap batch[d] = {}
  /\ NotifiedWhenProcessed

LEMMA OutboxInitially == Init => OutboxInv
BY DEF Init, OutboxInv, Claimed, NotifiedWhenProcessed

LEMMA ClaimStep ==
  ASSUME OutboxInv, NEW d \in Dispatcher, Claim(d)
  PROVE  OutboxInv'
<1>1. PICK b \in Oldest(Claimable) : batch' = [batch EXCEPT ![d] = b]
  BY DEF Claim
<1>2. /\ b \subseteq DOMAIN outbox
      /\ \A e \in b : outbox[e].status = "PENDING" /\ \A c \in Dispatcher : e \notin batch[c]
  BY DEF Oldest, Claimable, Locked
<1>3. UNCHANGED <<outbox, notified, result>> /\ batch[d] = {}
  BY DEF Claim
<1>. QED
  BY <1>1, <1>2, <1>3 DEF OutboxInv, Claimed, NotifiedWhenProcessed

LEMMA CommitStep ==
  ASSUME OutboxInv, NEW d \in Dispatcher, Commit(d)
  PROVE  OutboxInv'
<1>1. /\ outbox' = [e \in DOMAIN outbox |-> IF e \in batch[d] THEN Updated(d, e) ELSE outbox[e]]
      /\ notified' = notified \cup Delivered(d)
      /\ DOMAIN result[d] = batch[d]
      /\ batch' = [batch EXCEPT ![d] = {}] /\ result' = [result EXCEPT ![d] = << >>]
  BY DEF Commit, EndBatch
<1>2. ASSUME NEW e \in batch[d]
      PROVE  /\ DOMAIN Updated(d, e) = {"status", "attempts", "wait", "createdAt"}
             /\ Updated(d, e).status = "PROCESSED" <=> result[d][e] = "done"
  BY <1>2 DEF Updated, OutboxInv, Claimed
<1>3. ASSUME NEW e \in DOMAIN outbox
      PROVE  e \in notified' <=> outbox'[e].status = "PROCESSED"
  <2>1. CASE e \in batch[d]
    BY <1>1, <1>2, <2>1 DEF Delivered, OutboxInv, Claimed, NotifiedWhenProcessed
  <2>2. CASE e \notin batch[d]
    BY <1>1, <2>2 DEF Delivered, OutboxInv, Claimed, NotifiedWhenProcessed
  <2>. QED
    BY <2>1, <2>2
<1>4. \A c \in Dispatcher : Claimed(c)'
  BY <1>1 DEF Claimed, OutboxInv
<1>. QED
  BY <1>1, <1>2, <1>3, <1>4 DEF OutboxInv, Claimed, NotifiedWhenProcessed, Delivered

LEMMA OutboxStep == ASSUME OutboxInv, [Next]_vars PROVE OutboxInv'
<1>. USE DEF OutboxInv, Claimed, NotifiedWhenProcessed
<1>1. CASE UNCHANGED vars
  BY <1>1 DEF vars
<1>2. ASSUME NEW e \in Event, Enqueue(e) PROVE OutboxInv'
  BY <1>2 DEF Enqueue, With
<1>3. ASSUME NEW d \in Dispatcher, NEW e \in Event, Handle(d, e) PROVE OutboxInv'
  BY <1>3 DEF Handle, With
<1>4. ASSUME NEW d \in Dispatcher, Crash(d) PROVE OutboxInv'
  BY <1>4 DEF Crash, EndBatch
<1>5. CASE Tick
  BY <1>5 DEF Tick
<1>. QED
  BY <1>1, <1>2, <1>3, <1>4, <1>5, ClaimStep, CommitStep DEF Next

LEMMA OutboxInvariance == Spec => []OutboxInv
BY OutboxInitially, OutboxStep, PTL DEF Spec

\* Whatever the number of dispatchers, the size of their batches and the events: the
\* notifications and the status are committed together (processOutboxBatch), so one is
\* there exactly when the other says so.
THEOREM NotifiedExactly == Spec => []NotifiedWhenProcessed
<1>1. OutboxInv => NotifiedWhenProcessed
  BY DEF OutboxInv
<1>. QED
  BY <1>1, OutboxInvariance, PTL

-----------------------------------------------------------------------------
(* Boots and shutdowns *)

LifeTypes ==
  /\ applied \in Nat
  /\ DOMAIN proc = Proc
  /\ \A p \in Proc : DOMAIN proc[p] = {"pc", "seen", "boots"} /\ proc[p].seen \in Nat
  /\ loop \in [Proc -> [Loop -> {"OFF", "TIMER", "RUNNING"}]]
  /\ req \in [Req -> [pc : {"NEW", "RUNNING", "ANSWERED", "REFUSED", "LOST"},
                      on : Proc \cup {None}]]

\* Who migrates holds the lock, so nobody else has applied anything since the rows were
\* read; and who has passed the migrations was not overtaken by any that removes one.
Migrations(p) ==
  /\ proc[p].pc # "COLLIDED"
  /\ proc[p].pc \in {"LOCKED", "MIGRATING"} => holder = p
  /\ holder = p => proc[p].pc \in {"LOCKED", "MIGRATING", "FAILED"}
  /\ proc[p].pc = "MIGRATING" => proc[p].seen = applied
  /\ proc[p].pc \in {"MIGRATED", "STARTED", "SERVING", "CLOSING", "STOPPING", "POOL_CLOSED"} =>
       applied >= Files[p]

\* Requests run only on a process that listens or drains; timers are set only while
\* workers.stop() has not been called, and a tick outlives that call without a timer.
Activity(p) ==
  /\ proc[p].pc \notin {"SERVING", "CLOSING"} =>
       \A r \in Req : ~ (req[r].pc = "RUNNING" /\ req[r].on = p)
  /\ proc[p].pc \notin {"STARTED", "SERVING", "CLOSING"} => \A l \in Loop : loop[p][l] # "TIMER"
  /\ proc[p].pc \notin {"STARTED", "SERVING", "CLOSING", "STOPPING"} =>
       \A l \in Loop : loop[p][l] = "OFF"

LifeInv == LifeTypes /\ \A p \in Proc : Migrations(p) /\ Activity(p)

LEMMA LifeInitially == LifeInit => LifeInv
BY LifecycleAssumption DEF LifeInit, LifeInv, LifeTypes, Migrations, Activity, Down

\* Running(p), in the form Activity speaks of.
LEMMA RunningIs ==
  ASSUME LifeTypes, NEW p
  PROVE  Running(p) = {r \in Req : req[r].pc = "RUNNING" /\ req[r].on = p}
BY DEF LifeTypes, Running

\* What holds of the other processes outlives a step of one, when the lock passes to
\* and from that one only, and nothing is applied unless it has it.
LEMMA OthersKeep ==
  ASSUME LifeInv, LifeTypes', NEW p \in Proc,
         \A q \in Proc \ {p} : proc'[q] = proc[q] /\ (holder' = q <=> holder = q),
         applied' = applied \/ (applied' >= applied /\ holder = p),
         UNCHANGED <<loop, req>>,
         Migrations(p)', Activity(p)'
  PROVE  LifeInv'
<1>. SUFFICES ASSUME NEW q \in Proc, q # p PROVE Migrations(q)' /\ Activity(q)'
  BY DEF LifeInv
<1>1. Migrations(q) /\ Activity(q) /\ proc'[q] = proc[q] /\ (holder' = q <=> holder = q)
  BY DEF LifeInv
<1>2. applied' >= applied /\ applied \in Nat /\ applied' \in Nat /\ Files[q] \in Nat
  BY LifecycleAssumption DEF LifeInv, LifeTypes
<1>3. Migrations(q)'
  <2>1. proc[q].pc = "MIGRATING" => applied' = applied
    BY <1>1 DEF Migrations
  <2>. QED
    BY <1>1, <1>2, <2>1 DEF Migrations
<1>4. Activity(q)'
  BY <1>1 DEF Activity
<1>. QED
  BY <1>3, <1>4

\* Steps of a boot: none of them makes anything run.
LEMMA BootSteps ==
  ASSUME LifeInv, NEW p \in Proc,
         \/ Boot(p) \/ CreateTable(p) \/ TakeLock(p) \/ ReadApplied(p) \/ ApplyNext(p)
         \/ MigrationFails(p) \/ Migrated(p) \/ BootFails(p) \/ Listen(p)
  PROVE  LifeInv'
<1>. USE LifecycleAssumption DEF Moves
<1>0. Migrations(p) /\ Activity(p) /\ LifeTypes /\ Files[p] \in Nat /\ p # None
  BY DEF LifeInv
<1>1. LifeTypes'
  <2>. USE <1>0 DEF LifeTypes
  <2>0. CASE Boot(p)
    BY <2>0 DEF Boot
  <2>1. CASE CreateTable(p) \/ TakeLock(p) \/ ReadApplied(p)
    BY <2>1 DEF CreateTable, TakeLock, ReadApplied
  <2>2. CASE ApplyNext(p)
    BY <2>2 DEF ApplyNext
  <2>3. CASE MigrationFails(p) \/ Migrated(p) \/ BootFails(p) \/ Listen(p)
    BY <2>3 DEF MigrationFails, Migrated, BootFails, Listen
  <2>. QED
    BY <2>0, <2>1, <2>2, <2>3
<1>2. \A q \in Proc \ {p} : proc'[q] = proc[q] /\ (holder' = q <=> holder = q)
  <2>1. \A q \in Proc \ {p} : proc'[q] = proc[q]
    <3>. SUFFICES ASSUME NEW q \in Proc, q # p PROVE proc'[q] = proc[q]
      OBVIOUS
    <3>. USE <1>0 DEF LifeTypes
    <3>1. CASE Boot(p) \/ CreateTable(p) \/ TakeLock(p) \/ ReadApplied(p)
      BY <3>1 DEF Boot, CreateTable, TakeLock, ReadApplied
    <3>2. CASE ApplyNext(p) \/ MigrationFails(p)
      BY <3>2 DEF ApplyNext, MigrationFails
    <3>3. CASE Migrated(p) \/ BootFails(p) \/ Listen(p)
      BY <3>3 DEF Migrated, BootFails, Listen
    <3>. QED
      BY <3>1, <3>2, <3>3
  <2>2. holder' = holder \/ (holder = None /\ holder' = p) \/ (holder = p /\ holder' = None)
    BY DEF Boot, CreateTable, TakeLock, ReadApplied, ApplyNext, MigrationFails, Migrated,
           BootFails, Listen, Unlocked, LockFree
  <2>. QED
    BY <2>1, <2>2
<1>3. UNCHANGED <<loop, req>>
  BY DEF Boot, CreateTable, TakeLock, ReadApplied, ApplyNext, MigrationFails, Migrated,
         BootFails, Listen
<1>4. applied' = applied \/ (applied' >= applied /\ holder = p)
  BY <1>0 DEF LifeTypes, Migrations, Boot, CreateTable, TakeLock, ReadApplied, ApplyNext,
              MigrationFails, Migrated, BootFails, Listen
<1>5. Migrations(p)'
  <2>. USE <1>0 DEF LifeTypes, Migrations
  <2>1. CASE Boot(p) \/ CreateTable(p) \/ TakeLock(p)
    BY <2>1 DEF Boot, CreateTable, TakeLock
  <2>2. CASE ReadApplied(p) \/ MigrationFails(p)
    BY <2>2 DEF ReadApplied, MigrationFails
  <2>3. CASE ApplyNext(p)
    BY <2>3 DEF ApplyNext
  <2>4. CASE Migrated(p) \/ BootFails(p)
    BY <2>4 DEF Migrated, BootFails, Unlocked
  <2>5. CASE Listen(p)
    BY <2>5 DEF Listen
  <2>. QED
    BY <2>1, <2>2, <2>3, <2>4, <2>5
<1>6. Activity(p)'
  BY <1>0, <1>3 DEF LifeTypes, Activity, Boot, CreateTable, TakeLock, ReadApplied, ApplyNext,
              MigrationFails, Migrated, BootFails, Listen
<1>. QED
  BY <1>1, <1>2, <1>3, <1>4, <1>5, <1>6, OthersKeep

LEMMA WorkersStep ==
  ASSUME LifeInv, NEW p \in Proc, StartWorkers(p) \/ StopWorkers(p) \/ ClosePool(p) \/ Signal(p)
  PROVE  LifeInv'
<1>. USE DEF Moves
<1>0. LifeTypes /\ \A q \in Proc : Migrations(q) /\ Activity(q)
  BY DEF LifeInv
<1>1. LifeTypes'
  <2>. USE <1>0 DEF LifeTypes
  <2>1. CASE StartWorkers(p)
    BY <2>1 DEF StartWorkers
  <2>2. CASE StopWorkers(p)
    BY <2>2 DEF StopWorkers
  <2>3. CASE ClosePool(p) \/ Signal(p)
    BY <2>3 DEF ClosePool, Signal
  <2>. QED
    BY <2>1, <2>2, <2>3
<1>2. UNCHANGED <<applied, holder, req>> /\ \A q \in Proc \ {p} : proc'[q] = proc[q] /\ loop'[q] = loop[q]
  BY <1>0 DEF LifeTypes, StartWorkers, StopWorkers, ClosePool, Signal
<1>3. \A q \in Proc : Migrations(q)'
  <2>1. Migrations(p)'
    BY <1>0, <1>2 DEF LifeTypes, Migrations, StartWorkers, StopWorkers, ClosePool, Signal
  <2>2. \A q \in Proc \ {p} : Migrations(q)'
    BY <1>0, <1>2 DEF Migrations
  <2>. QED
    BY <2>1, <2>2
<1>4. \A q \in Proc \ {p} : Activity(q)'
  BY <1>0, <1>2 DEF Activity
<1>5. Activity(p)'
  <2>1. CASE StartWorkers(p)
    BY <1>0, <2>1 DEF LifeTypes, Activity, StartWorkers
  <2>2. CASE StopWorkers(p)
    <3>1. \A r \in Req : ~ (req[r].pc = "RUNNING" /\ req[r].on = p)
      BY <1>0, <2>2, RunningIs DEF StopWorkers, Drained
    <3>2. /\ proc'[p].pc = "STOPPING" /\ req' = req
          /\ \A l \in Loop : loop'[p][l] # "TIMER"
      BY <1>0, <2>2 DEF LifeTypes, StopWorkers
    <3>. QED
      BY <3>1, <3>2 DEF Activity
  <2>3. CASE ClosePool(p)
    BY <1>0, <2>3 DEF LifeTypes, Activity, ClosePool
  <2>4. CASE Signal(p)
    BY <1>0, <2>4 DEF LifeTypes, Activity, Signal
  <2>. QED
    BY <2>1, <2>2, <2>3, <2>4
<1>. QED
  BY <1>1, <1>3, <1>4, <1>5 DEF LifeInv

LEMMA TickAndRequestSteps ==
  ASSUME LifeInv,
         \/ \E p \in Proc, l \in Loop : TickBegins(p, l) \/ TickEnds(p, l)
         \/ \E r \in Req, p \in Proc : Accept(r, p)
         \/ \E r \in Req : Finish(r)
  PROVE  LifeInv'
<1>. USE DEF LifeInv
<1>1. ASSUME NEW p \in Proc, NEW l \in Loop, TickBegins(p, l) PROVE LifeInv'
  BY <1>1 DEF TickBegins, LifeTypes, Migrations, Activity
<1>2. ASSUME NEW p \in Proc, NEW l \in Loop, TickEnds(p, l) PROVE LifeInv'
  BY <1>2 DEF TickEnds, Schedule, Stopped, LifeTypes, Migrations, Activity
<1>3. ASSUME NEW r \in Req, NEW p \in Proc, Accept(r, p) PROVE LifeInv'
  BY <1>3 DEF Accept, LifeTypes, Migrations, Activity
<1>4. ASSUME NEW r \in Req, Finish(r) PROVE LifeInv'
  BY <1>4 DEF Finish, LifeTypes, Migrations, Activity
<1>. QED
  BY <1>1, <1>2, <1>3, <1>4

\* However a process ends, nothing of it is left.
LEMMA EndStep ==
  ASSUME LifeInv, NEW p \in Proc, Exit(p) \/ ForcedExit(p) \/ Dies(p)
  PROVE  LifeInv'
<1>0. LifeTypes /\ \A q \in Proc : Migrations(q) /\ Activity(q)
  BY DEF LifeInv
<1>1. proc' = [proc EXCEPT ![p].pc = "DOWN"] /\ Ended(p)
  BY DEF Exit, ForcedExit, Dies, Moves
<1>2. /\ loop' = [loop EXCEPT ![p] = [l \in Loop |-> "OFF"]]
      /\ req' = [r \in Req |-> IF req[r].pc = "RUNNING" /\ req[r].on = p
                               THEN [req[r] EXCEPT !.pc = "LOST"] ELSE req[r]]
      /\ holder' = IF holder = p THEN None ELSE holder
      /\ UNCHANGED applied
  BY <1>0, <1>1, RunningIs DEF Ended, Unlocked
<1>3. LifeTypes'
  BY <1>0, <1>1, <1>2 DEF LifeTypes
<1>4. \A q \in Proc : Migrations(q)'
  BY <1>0, <1>1, <1>2, LifecycleAssumption DEF LifeTypes, Migrations
<1>5. \A q \in Proc : Activity(q)'
  BY <1>0, <1>1, <1>2 DEF LifeTypes, Activity
<1>. QED
  BY <1>3, <1>4, <1>5 DEF LifeInv

LEMMA LifeStep == ASSUME LifeInv, [LifeNext]_lifeVars PROVE LifeInv'
<1>1. CASE UNCHANGED lifeVars
  BY <1>1 DEF lifeVars, LifeInv, LifeTypes, Migrations, Activity
<1>2. CASE LifeNext
  BY <1>2, BootSteps, WorkersStep, TickAndRequestSteps, EndStep DEF LifeNext, Boots, Shuts
<1>. QED
  BY <1>1, <1>2

LEMMA LifeInvariance == LifeSpec => []LifeInv
<1>1. LifeInit /\ [][LifeNext]_lifeVars => []LifeInv
  BY LifeInitially, LifeStep, PTL
<1>. QED
  BY <1>1 DEF LifeSpec

\* Any number of processes of any releases may boot, fail and die at once: who applies a
\* migration has the advisory lock and has read the rows under it (runMigrations), and
\* who serves has its own behind it.
THEOREM OneMigratesAtATime == LifeSpec => []BootsDoNotCollide
<1>1. LifeInv => BootsDoNotCollide
  BY DEF LifeInv, Migrations, BootsDoNotCollide
<1>. QED
  BY <1>1, LifeInvariance, PTL

\* The order of the shutdown, requests, loops, ticks and then the pool, leaves nothing to
\* run when the pool is closed, whatever fires in between (shutdown in server.ts).
THEOREM ClosedUnderNobody == LifeSpec => []QuietBeforeClose
<1>1. LifeInv => QuietBeforeClose
  BY RunningIs DEF LifeInv, Activity, QuietBeforeClose
<1>. QED
  BY <1>1, LifeInvariance, PTL

-----------------------------------------------------------------------------

LifePhases ==
  {"DOWN", "CREATING", "WAITING", "LOCKED", "MIGRATING", "FAILED", "COLLIDED", "MIGRATED",
   "STARTED", "SERVING", "CLOSING", "STOPPING", "POOL_CLOSED"}

LEMMA LifeTyping == ASSUME LifeTypeOK, [LifeNext]_lifeVars PROVE LifeTypeOK'
<1>. USE LifecycleAssumption
<1>1. /\ table \in BOOLEAN /\ applied \in Nat /\ holder \in Proc \cup {None}
      /\ proc \in [Proc -> [pc: LifePhases, seen: Nat, boots: 0 .. MaxBoots]]
      /\ loop \in [Proc -> [Loop -> {"OFF", "TIMER", "RUNNING"}]]
      /\ req \in [Req -> [pc: {"NEW", "RUNNING", "ANSWERED", "REFUSED", "LOST"},
                          on: Proc \cup {None}]]
  BY DEF LifeTypeOK, LifePhases
<1>2. ASSUME NEW p \in Proc, NEW to \in LifePhases, proc' = [proc EXCEPT ![p].pc = to],
             table' \in BOOLEAN, applied' \in Nat, holder' \in Proc \cup {None},
             loop' \in [Proc -> [Loop -> {"OFF", "TIMER", "RUNNING"}]],
             req' \in [Req -> [pc: {"NEW", "RUNNING", "ANSWERED", "REFUSED", "LOST"},
                               on: Proc \cup {None}]]
      PROVE  LifeTypeOK'
  <2>1. proc' \in [Proc -> [pc: LifePhases, seen: Nat, boots: 0 .. MaxBoots]]
    BY <1>1, <1>2
  <2>. QED
    BY <1>2, <2>1 DEF LifeTypeOK, LifePhases
<1>3. ASSUME NEW p \in Proc, Boot(p) PROVE LifeTypeOK'
  <2>. DEFINE booted == [pc |-> IF table THEN "WAITING" ELSE "CREATING",
                         seen |-> 0, boots |-> proc[p].boots + 1]
  <2>1. proc[p].boots \in 0 .. MaxBoots /\ proc[p].boots < MaxBoots
    BY <1>1, <1>3 DEF Boot
  <2>2. booted \in [pc: LifePhases, seen: Nat, boots: 0 .. MaxBoots]
    BY <2>1 DEF LifePhases
  <2>3. proc' = [proc EXCEPT ![p] = booted] /\ UNCHANGED <<table, applied, holder, loop, req>>
    BY <1>3 DEF Boot
  <2>4. proc' \in [Proc -> [pc: LifePhases, seen: Nat, boots: 0 .. MaxBoots]]
    BY <1>1, <2>2, <2>3
  <2>. QED
    BY <1>1, <2>3, <2>4 DEF LifeTypeOK, LifePhases
<1>4. ASSUME NEW p \in Proc, CreateTable(p) PROVE LifeTypeOK'
  BY <1>1, <1>2, <1>4 DEF CreateTable, Moves, LifePhases
<1>5. ASSUME NEW p \in Proc, TakeLock(p) PROVE LifeTypeOK'
  BY <1>1, <1>2, <1>5 DEF TakeLock, Moves, LifePhases
<1>6. ASSUME NEW p \in Proc, ReadApplied(p) PROVE LifeTypeOK'
  <2>. DEFINE now == [proc[p] EXCEPT !.pc = "MIGRATING", !.seen = applied]
  <2>0. /\ proc[p] \in [pc: LifePhases, seen: Nat, boots: 0 .. MaxBoots]
        /\ applied \in Nat /\ "MIGRATING" \in LifePhases
    BY <1>1 DEF LifePhases
  <2>1. now \in [pc: LifePhases, seen: Nat, boots: 0 .. MaxBoots]
    BY <2>0
  <2>2. proc' = [proc EXCEPT ![p] = now] /\ UNCHANGED <<table, applied, holder, loop, req>>
    BY <1>6 DEF ReadApplied
  <2>3. proc' \in [Proc -> [pc: LifePhases, seen: Nat, boots: 0 .. MaxBoots]]
    BY <1>1, <2>1, <2>2
  <2>. QED
    BY <1>1, <2>2, <2>3 DEF LifeTypeOK, LifePhases
<1>7. ASSUME NEW p \in Proc, ApplyNext(p) PROVE LifeTypeOK'
  <2>1. CASE proc[p].seen = applied
    <3>. DEFINE now == [proc[p] EXCEPT !.seen = proc[p].seen + 1]
    <3>1. now \in [pc: LifePhases, seen: Nat, boots: 0 .. MaxBoots]
      BY <1>1
    <3>2. /\ proc' = [proc EXCEPT ![p] = now] /\ applied' = applied + 1
          /\ UNCHANGED <<table, holder, loop, req>>
      BY <1>7, <2>1 DEF ApplyNext
    <3>3. proc' \in [Proc -> [pc: LifePhases, seen: Nat, boots: 0 .. MaxBoots]]
      BY <1>1, <3>1, <3>2
    <3>. QED
      BY <1>1, <3>2, <3>3 DEF LifeTypeOK, LifePhases
  <2>2. CASE proc[p].seen # applied
    BY <1>1, <1>2, <1>7, <2>2 DEF ApplyNext, LifePhases
  <2>. QED
    BY <2>1, <2>2
<1>8. ASSUME NEW p \in Proc, MigrationFails(p) \/ Migrated(p) \/ BootFails(p) PROVE LifeTypeOK'
  <2>1. holder' \in Proc \cup {None}
    BY <1>1, <1>8 DEF MigrationFails, Migrated, BootFails, Unlocked
  <2>2. CASE MigrationFails(p)
    BY <1>1, <1>2, <2>2 DEF MigrationFails, LifePhases
  <2>3. CASE Migrated(p)
    BY <1>1, <1>2, <2>1, <2>3 DEF Migrated, Moves, LifePhases
  <2>4. CASE BootFails(p)
    BY <1>1, <1>2, <2>1, <2>4 DEF BootFails, LifePhases
  <2>. QED
    BY <1>8, <2>2, <2>3, <2>4
<1>9. ASSUME NEW p \in Proc, StartWorkers(p) PROVE LifeTypeOK'
  <2>1. loop' \in [Proc -> [Loop -> {"OFF", "TIMER", "RUNNING"}]]
    BY <1>1, <1>9 DEF StartWorkers
  <2>. QED
    BY <1>1, <1>2, <1>9, <2>1 DEF StartWorkers, Moves, LifePhases
<1>10. ASSUME NEW p \in Proc, StopWorkers(p) PROVE LifeTypeOK'
  <2>1. loop' \in [Proc -> [Loop -> {"OFF", "TIMER", "RUNNING"}]]
    BY <1>1, <1>10 DEF StopWorkers
  <2>. QED
    BY <1>1, <1>2, <1>10, <2>1 DEF StopWorkers, Moves, LifePhases
<1>11. ASSUME NEW p \in Proc, Listen(p) \/ Signal(p) \/ ClosePool(p) PROVE LifeTypeOK'
  BY <1>1, <1>2, <1>11 DEF Listen, Signal, ClosePool, Moves, LifePhases
<1>12. ASSUME NEW p \in Proc, NEW l \in Loop, TickBegins(p, l) \/ TickEnds(p, l) PROVE LifeTypeOK'
  <2>1. Schedule(p) \in {"OFF", "TIMER"}
    BY DEF Schedule
  <2>2. loop' \in [Proc -> [Loop -> {"OFF", "TIMER", "RUNNING"}]]
    <3>1. PICK v \in {"OFF", "TIMER", "RUNNING"} : loop' = [loop EXCEPT ![p][l] = v]
      BY <1>12, <2>1 DEF TickBegins, TickEnds
    <3>2. [loop[p] EXCEPT ![l] = v] \in [Loop -> {"OFF", "TIMER", "RUNNING"}]
      BY <1>1
    <3>. QED
      BY <1>1, <3>1, <3>2
  <2>3. UNCHANGED <<table, applied, holder, proc, req>>
    BY <1>12 DEF TickBegins, TickEnds
  <2>. QED
    BY <1>1, <2>2, <2>3 DEF LifeTypeOK, LifePhases
<1>13. ASSUME NEW p \in Proc, NEW r \in Req, Accept(r, p) PROVE LifeTypeOK'
  BY <1>1, <1>13 DEF Accept, LifeTypeOK
<1>14. ASSUME NEW r \in Req, Finish(r) PROVE LifeTypeOK'
  BY <1>1, <1>14 DEF Finish, LifeTypeOK
<1>15. ASSUME NEW p \in Proc, Exit(p) \/ ForcedExit(p) \/ Dies(p) PROVE LifeTypeOK'
  <2>1. proc' = [proc EXCEPT ![p].pc = "DOWN"] /\ Ended(p)
    BY <1>15 DEF Exit, ForcedExit, Dies, Moves
  <2>2. /\ loop' \in [Proc -> [Loop -> {"OFF", "TIMER", "RUNNING"}]]
        /\ req' \in [Req -> [pc: {"NEW", "RUNNING", "ANSWERED", "REFUSED", "LOST"},
                             on: Proc \cup {None}]]
        /\ holder' \in Proc \cup {None} /\ UNCHANGED <<table, applied>>
    BY <1>1, <2>1 DEF Ended, Unlocked
  <2>. QED
    BY <1>1, <1>2, <2>1, <2>2 DEF LifePhases
<1>16. CASE UNCHANGED lifeVars
  BY <1>16 DEF lifeVars, LifeTypeOK
<1>. QED
  BY <1>3, <1>4, <1>5, <1>6, <1>7, <1>8, <1>9, <1>10, <1>11, <1>12, <1>13, <1>14, <1>15, <1>16
     DEF LifeNext, Boots, Shuts

\* Every variable has its type: a process is in one of its phases and has booted no more
\* often than it may, and whoever holds the migration lock is a process (server.ts, migrate.ts).
THEOREM LifecycleTyped == LifeSpec => []LifeTypeOK
<1>1. LifeInit => LifeTypeOK
  <2>. SUFFICES ASSUME LifeInit PROVE LifeTypeOK
    OBVIOUS
  <2>1. Down \in [pc: LifePhases, seen: Nat, boots: 0 .. MaxBoots]
    BY LifecycleAssumption DEF Down, LifePhases
  <2>2. proc \in [Proc -> [pc: LifePhases, seen: Nat, boots: 0 .. MaxBoots]]
    BY <2>1 DEF LifeInit
  <2>3. /\ table \in BOOLEAN /\ applied \in Nat /\ holder \in Proc \cup {None}
        /\ loop \in [Proc -> [Loop -> {"OFF", "TIMER", "RUNNING"}]]
        /\ req \in [Req -> [pc: {"NEW", "RUNNING", "ANSWERED", "REFUSED", "LOST"},
                            on: Proc \cup {None}]]
    BY DEF LifeInit
  <2>. QED
    BY <2>2, <2>3 DEF LifeTypeOK, LifePhases
<1>2. LifeInit /\ [][LifeNext]_lifeVars => []LifeTypeOK
  BY <1>1, LifeTyping, PTL
<1>. QED
  BY <1>2 DEF LifeSpec

=============================================================================
