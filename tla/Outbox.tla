------------------------------- MODULE Outbox -------------------------------
(***************************************************************************)
(* The transactional outbox.  Business transactions insert events; every   *)
(* process runs a dispatcher that claims a batch with FOR UPDATE SKIP      *)
(* LOCKED, hands each event to its consumer inside a savepoint, and        *)
(* commits the batch as a whole.  A consumer writes notifications and may  *)
(* fail; a failed event is tried again later, a few times.                 *)
(***************************************************************************)
EXTENDS Integers, FiniteSets

CONSTANTS
  Event, Dispatcher,
  Healthy,      \* the events whose consumer never fails
  BatchSize,
  MaxAttempts,  \* MAX_ATTEMPTS
  Instant       \* bound: the creation times under study

ASSUME OutboxAssumption ==
  /\ Healthy \subseteq Event
  /\ BatchSize \in Nat \ {0} /\ MaxAttempts \in Nat \ {0}
  /\ Instant \subseteq Nat

VARIABLES
  outbox,    \* the outbox_events rows, by id; wait is the time to next_attempt_at
  notified,  \* the events that have their notifications
  batch,     \* the events each dispatcher's open transaction has locked
  result     \* ... and what it has done with some of them, not yet committed

vars == <<outbox, notified, batch, result>>

Init ==
  /\ outbox = << >> /\ notified = {}
  /\ batch = [d \in Dispatcher |-> {}]
  /\ result = [d \in Dispatcher |-> << >>]

With(f, k, v) == [x \in DOMAIN f \cup {k} |-> IF x = k THEN v ELSE f[x]]

\* enqueueEvent, at the commit of the transaction the event is about; created_at is
\* when that transaction began, so events need not appear in this order.
Enqueue(e) ==
  /\ e \notin DOMAIN outbox
  /\ \E i \in Instant : outbox' = With(outbox, e,
       [status |-> "PENDING", attempts |-> 0, wait |-> 0, createdAt |-> i])
  /\ UNCHANGED <<notified, batch, result>>

Locked == UNION {batch[d] : d \in Dispatcher}

\* Mutant: only events that were never tried.
Untried == {e \in DOMAIN outbox :
  outbox[e].status = "PENDING" /\ outbox[e].attempts = 0 /\ e \notin Locked}

Claimable ==
  {e \in DOMAIN outbox :
     /\ outbox[e].status = "PENDING" /\ outbox[e].wait = 0
     /\ e \notin Locked}

\* ORDER BY created_at LIMIT batchSize
Oldest(s) ==
  {b \in SUBSET s :
     /\ Cardinality(b) = IF Cardinality(s) < BatchSize THEN Cardinality(s) ELSE BatchSize
     /\ \A e \in b, f \in s \ b : outbox[e].createdAt <= outbox[f].createdAt}

Claim(d) ==
  /\ batch[d] = {} /\ Claimable # {}
  /\ \E b \in Oldest(Claimable) : batch' = [batch EXCEPT ![d] = b]
  /\ UNCHANGED <<outbox, notified, result>>

\* handleEvent returns, or throws and is rolled back to its savepoint.
Handle(d, e) ==
  /\ e \in batch[d] \ DOMAIN result[d]
  /\ \E r \in {"done", "failed"} :
       /\ e \in Healthy => r = "done"
       /\ result' = [result EXCEPT ![d] = With(@, e, r)]
  /\ UNCHANGED <<outbox, notified, batch>>

\* Seconds until the next attempt.
Backoff(attempts) == IF 2 ^ attempts < 300 THEN 2 ^ attempts ELSE 300

Exhausted(attempts) == attempts >= MaxAttempts

\* The row after the UPDATE that follows its handler.
Updated(d, e) ==
  LET n == outbox[e].attempts + 1 IN
  IF result[d][e] = "done"
  THEN [outbox[e] EXCEPT !.status = "PROCESSED", !.attempts = n]
  ELSE [outbox[e] EXCEPT !.status = IF Exhausted(n) THEN "FAILED" ELSE "PENDING",
                         !.attempts = n, !.wait = Backoff(n)]

\* Mutant: no ROLLBACK TO SAVEPOINT after a failure.
WithHalfDone(d) == DOMAIN result[d]

\* Mutant: one ROLLBACK for the whole batch, and the good events recorded after it.
NoSavepoint(d) ==
  IF \E e \in DOMAIN result[d] : result[d][e] = "failed" THEN {} ELSE DOMAIN result[d]

\* The events whose notifications survive to the commit.
Delivered(d) == {e \in DOMAIN result[d] : result[d][e] = "done"}

EndBatch(d) ==
  /\ batch' = [batch EXCEPT ![d] = {}]
  /\ result' = [result EXCEPT ![d] = << >>]

\* ON CONFLICT (user_id, event_id) DO NOTHING makes notified a set.
Commit(d) ==
  /\ batch[d] # {} /\ DOMAIN result[d] = batch[d]
  /\ outbox' = [e \in DOMAIN outbox |-> IF e \in batch[d] THEN Updated(d, e) ELSE outbox[e]]
  /\ notified' = notified \cup Delivered(d)
  /\ EndBatch(d)

\* The process dies, or the transaction runs out of time: the batch is as it was.
Crash(d) == batch[d] # {} /\ EndBatch(d) /\ UNCHANGED <<outbox, notified>>

Tick ==
  /\ \E e \in DOMAIN outbox : outbox[e].wait > 0
  /\ outbox' = [e \in DOMAIN outbox |->
       [outbox[e] EXCEPT !.wait = IF @ > 0 THEN @ - 1 ELSE 0]]
  /\ UNCHANGED <<notified, batch, result>>

Next ==
  \/ \E e \in Event : Enqueue(e)
  \/ \E d \in Dispatcher :
       \/ Claim(d) \/ Commit(d) \/ Crash(d)
       \/ \E e \in Event : Handle(d, e)
  \/ Tick

Spec == Init /\ [][Next]_vars

\* The loops of workers/index.ts keep running, time passes, and the crashes end.
OutboxFairness ==
  /\ WF_vars(Tick)
  /\ \A d \in Dispatcher :
       WF_vars(Claim(d) \/ Commit(d) \/ \E e \in Event : Handle(d, e))
  /\ <>[][~ \E d \in Dispatcher : Crash(d)]_vars

FairSpec == Spec /\ OutboxFairness

-----------------------------------------------------------------------------
(* Properties *)

\* Types; no event is in the hands of two dispatchers.
TypeOK ==
  /\ DOMAIN outbox \subseteq Event
  /\ \A e \in DOMAIN outbox :
       outbox[e] \in [status: {"PENDING", "PROCESSED", "FAILED"},
                      attempts: Nat, wait: Nat, createdAt: Instant]
  /\ notified \subseteq DOMAIN outbox
  /\ \A d \in Dispatcher : /\ batch[d] \subseteq DOMAIN outbox
                           /\ DOMAIN result[d] \subseteq batch[d]
  /\ \A c, d \in Dispatcher : c # d => batch[c] \cap batch[d] = {}

\* People are notified of an event exactly when it is recorded as processed: not by a
\* handler that failed half way, nor by a batch that rolled back.
NotifiedWhenProcessed ==
  \A e \in DOMAIN outbox : e \in notified <=> outbox[e].status = "PROCESSED"

\* Nothing stays in the queue for ever.
EveryEventSettles ==
  \A e \in Event : e \in DOMAIN outbox ~> (e \in DOMAIN outbox /\ outbox[e].status # "PENDING")

\* An event that always fails does not keep the others from being delivered.
HealthyEventsArrive == \A e \in Healthy : e \in DOMAIN outbox ~> e \in notified
=============================================================================
