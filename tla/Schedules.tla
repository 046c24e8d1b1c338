----------------------------- MODULE Schedules -----------------------------
(***************************************************************************)
(* Standing orders.  Every process runs the schedule worker; a run claims  *)
(* one due schedule (FOR UPDATE SKIP LOCKED), claims the occurrence named  *)
(* by the instant it was due, pays or does not, and moves the schedule on, *)
(* all in one transaction.  Meanwhile the owner pauses, resumes or cancels *)
(* and asks what became of a payment, and an operator may bring the next   *)
(* run forward.                                                            *)
(*                                                                         *)
(* What the payment itself does is Ledger.tla and SendLimits.tla; here it  *)
(* succeeds, fails for a reason that may pass, or fails for one that does  *)
(* not.                                                                    *)
(***************************************************************************)
EXTENDS Integers, Sequences, FiniteSets

CONSTANTS
  Schedule, Worker,
  Start,        \* the delays after which a new schedule may start
  Runs,         \* the numbers of payments a recurring schedule may be given
  Unlimited,    \* ... and none (remaining_runs IS NULL)
  Interval,     \* one day, week or month
  Grace,        \* SCHEDULE_CATCHUP_GRACE_MS
  RetryBase,    \* SCHEDULE_RETRY_BASE_SECONDS
  MaxAttempts,  \* SCHEDULE_MAX_ATTEMPTS
  ListSize,     \* the occurrences that the detail lists at most
  MaxClock,     \* bound: the clock stops here
  Nobody

ASSUME SchedulesAssumption ==
  /\ Start \subseteq Nat /\ Runs \subseteq Nat \ {0} /\ Unlimited \notin Nat
  /\ Interval \in Nat \ {0} /\ Grace \in Nat /\ RetryBase \in Nat \ {0}
  /\ MaxAttempts \in Nat \ {0} /\ ListSize \in Nat \ {0} /\ MaxClock \in Nat
  /\ Nobody \notin Schedule

VARIABLES
  clock,
  schedule,    \* the scheduled_transfers rows, by id
  occurrence,  \* the schedule_occurrences rows, by occurrence key
  payments,    \* how many transfers were made for each occurrence key
  told,        \* the events enqueued for each occurrence key
  found,       \* what is left of the list of due schedules each worker has read
  run,         \* what each worker's open transaction holds
  view,        \* the owner's look at one schedule
  nudged       \* history: the schedules an operator has brought forward

rows == <<schedule, occurrence, payments, told>>
work == <<found, run>>
vars == <<clock, rows, work, view, nudged>>

NoRun  == [id |-> Nobody]
NoView == [of |-> Nobody, read |-> 0, used |-> 0, listed |-> {}, paid |-> 0]

Unchecked == -1   \* the run has not looked at the clock yet

With(f, k, v) == [x \in DOMAIN f \cup {k} |-> IF x = k THEN v ELSE f[x]]

Init ==
  /\ clock = 0
  /\ schedule = << >> /\ occurrence = << >> /\ payments = << >> /\ told = << >>
  /\ found = [w \in Worker |-> {}]
  /\ run = [w \in Worker |-> NoRun]
  /\ view = NoView
  /\ nudged = {}

\* The row is locked by an open run.
Locked(s) == \E w \in Worker : run[w].id = s

-----------------------------------------------------------------------------
(* The owner *)

\* insertSchedule; `total' is kept to tell how many runs were asked for.
Inserted(kind, delay, total) ==
  [kind |-> kind, status |-> "ACTIVE", nextRunAt |-> clock + delay,
   retryAfter |-> 0, remaining |-> total, total |-> total]

CreateSchedule(s) ==
  /\ s \notin DOMAIN schedule
  /\ \E kind \in {"ONCE", "RECURRING"}, delay \in Start :
     \E total \in IF kind = "ONCE" THEN {1} ELSE Runs \cup {Unlimited} :
       schedule' = With(schedule, s, Inserted(kind, delay, total))
  /\ UNCHANGED <<clock, occurrence, payments, told, work, view, nudged>>

LegalFrom(to) ==
  CASE to = "PAUSED" -> {"ACTIVE"}
    [] to = "ACTIVE" -> {"PAUSED"}
    [] to = "CANCELLED" -> {"ACTIVE", "PAUSED"}

\* Mutant: resuming always starts from now.
ResumeNow(s, to) == IF to = "ACTIVE" THEN clock ELSE schedule[s].nextRunAt

\* Resuming starts again from now when the instant has passed.
NextRunAfter(s, to) ==
  IF to = "ACTIVE" /\ schedule[s].nextRunAt < clock THEN clock ELSE schedule[s].nextRunAt

\* The guarded UPDATE, which waits for the row.
Transitioned(s, to) ==
  IF schedule[s].status \in LegalFrom(to)
  THEN [schedule[s] EXCEPT !.status = to, !.nextRunAt = NextRunAfter(s, to),
                           !.retryAfter = IF to = "ACTIVE" THEN 0 ELSE @]
  ELSE schedule[s]

\* pause, resume and cancel.  Where the status does not allow it nothing changes:
\* asking again for what already is succeeds, anything else is refused.
Transition(s, to) ==
  /\ s \in DOMAIN schedule /\ ~Locked(s)
  /\ schedule' = [schedule EXCEPT ![s] = Transitioned(s, to)]
  /\ UNCHANGED <<clock, occurrence, payments, told, work, view, nudged>>

\* POST /admin/schedules/:id/due.  Bound: once per schedule.
BringForward(s) ==
  /\ s \in DOMAIN schedule \ nudged /\ ~Locked(s)
  /\ schedule[s].status = "ACTIVE" /\ clock > 0
  /\ schedule' = [schedule EXCEPT ![s].nextRunAt = clock - 1, ![s].retryAfter = 0]
  /\ nudged' = nudged \cup {s}
  /\ UNCHANGED <<clock, occurrence, payments, told, work, view>>

Payments(s) == {k \in DOMAIN payments : k[1] = s}

\* What findSchedule tells of the runs used up, and listOccurrences of the payments.
RunsUsed(s) ==
  IF schedule[s].kind = "ONCE" \/ schedule[s].total = Unlimited THEN 0
  ELSE schedule[s].total - schedule[s].remaining

Occurrences(s) == {k \in DOMAIN occurrence : k[1] = s}

\* ORDER BY due_at DESC LIMIT: the latest of them.
ListOccurrences(s) ==
  {k \in Occurrences(s) : Cardinality({j \in Occurrences(s) : k[2] < j[2]}) < ListSize}

PaidAmong(ks) == Cardinality({k \in ks : occurrence[k].status = "PAID"})

\* Mutant: the occurrences first.
OccurrencesFirst == <<"OCCURRENCES", "SCHEDULE">>

\* getSchedule: two statements of one READ COMMITTED transaction, in this order.
ReadOrder == <<"SCHEDULE", "OCCURRENCES">>

\* Bound: the owner looks once.
GetSchedule(s) ==
  /\ s \in DOMAIN schedule /\ view.of \in {s, Nobody} /\ view.read < 2
  /\ view' = IF ReadOrder[view.read + 1] = "SCHEDULE"
             THEN [view EXCEPT !.of = s, !.read = @ + 1, !.used = RunsUsed(s)]
             ELSE [view EXCEPT !.of = s, !.read = @ + 1, !.listed = ListOccurrences(s),
                               !.paid = PaidAmong(ListOccurrences(s))]
  /\ UNCHANGED <<clock, rows, work, nudged>>

-----------------------------------------------------------------------------
(* A run of the worker: claim *)

\* Mutant: the status of the row is not looked at again under the lock.
DueAtAll(s) == schedule[s].nextRunAt <= clock /\ schedule[s].retryAfter <= clock

Due(s) ==
  /\ schedule[s].status = "ACTIVE"
  /\ schedule[s].nextRunAt <= clock
  /\ schedule[s].retryAfter <= clock

\* findDueScheduleIds: a list read without locks, a hint only.
FindDueScheduleIds == {s \in DOMAIN schedule : Due(s)}

\* A tick reads the list and then tries each of it.
RunDueSchedules(w) ==
  /\ found[w] = {} /\ run[w] = NoRun /\ FindDueScheduleIds # {}
  /\ found' = [found EXCEPT ![w] = FindDueScheduleIds]
  /\ UNCHANGED <<clock, rows, run, view, nudged>>

\* claimDueSchedule, SKIP LOCKED: a row another worker holds is not waited for.
Claimable(s) == ~Locked(s) /\ Due(s)

RunSchedule(w, s) ==
  /\ run[w] = NoRun /\ s \in found[w]
  /\ found' = [found EXCEPT ![w] = @ \ {s}]
  /\ run' = IF Claimable(s)
            THEN [run EXCEPT ![w] = [id |-> s, due |-> schedule[s].nextRunAt, at |-> clock,
                                      inTime |-> Unchecked]]
            ELSE run
  /\ UNCHANGED <<clock, rows, view, nudged>>

OccurrenceKey(w) == <<run[w].id, run[w].due>>

\* The counter claimOccurrence returns: this attempt included.
Attempts(w) ==
  IF OccurrenceKey(w) \in DOMAIN occurrence
  THEN occurrence[OccurrenceKey(w)].attempts + 1 ELSE 1

\* Mutant: ON CONFLICT DO UPDATE without its WHERE clause.
NeverSettled(w) == FALSE

\* A PENDING row is retried; one in a terminal state is not returned.
AlreadySettled(w) ==
  /\ OccurrenceKey(w) \in DOMAIN occurrence
  /\ occurrence[OccurrenceKey(w)].status # "PENDING"

-----------------------------------------------------------------------------
(* A run of the worker: the outcomes, each ending in COMMIT *)

\* Mutant: every occurrence uses up a run, paid or not.
Consumed(s, paid) ==
  [schedule[s] EXCEPT
     !.nextRunAt = @ + Interval, !.retryAfter = 0,
     !.remaining = IF @ = Unlimited THEN @ ELSE @ - 1,
     !.status = IF schedule[s].remaining = 1 THEN "COMPLETED" ELSE @]

\* advanceSchedule: on to the next instant, counted from the one that was due.
Advanced(s, consumeRun) ==
  IF schedule[s].kind = "ONCE"
  THEN [schedule[s] EXCEPT !.status = "COMPLETED", !.remaining = 0, !.retryAfter = 0]
  ELSE LET left == IF schedule[s].remaining # Unlimited /\ consumeRun
                   THEN schedule[s].remaining - 1 ELSE schedule[s].remaining
       IN [schedule[s] EXCEPT
             !.remaining = left, !.nextRunAt = @ + Interval, !.retryAfter = 0,
             !.status = IF left = 0 THEN "COMPLETED" ELSE @]

Count(f, k) == IF k \in DOMAIN f THEN f[k] ELSE 0
Events(k)   == IF k \in DOMAIN told THEN told[k] ELSE << >>

\* The occurrence gets its outcome and the schedule moves on.
Settle(w, status, consumeRun) ==
  /\ occurrence' = With(occurrence, OccurrenceKey(w),
       [status |-> status, attempts |-> Attempts(w)])
  /\ told' = With(told, OccurrenceKey(w), Append(Events(OccurrenceKey(w)), status))
  /\ schedule' = [schedule EXCEPT ![run[w].id] = Advanced(run[w].id, consumeRun)]
  /\ run' = [run EXCEPT ![w] = NoRun]
  /\ UNCHANGED <<clock, found, view, nudged>>

\* Claimed and not yet decided upon.
Claimed(w) == run[w] # NoRun /\ run[w].inTime = Unchecked

Duplicate(w) ==
  /\ Claimed(w) /\ AlreadySettled(w)
  /\ schedule' = [schedule EXCEPT ![run[w].id] = Advanced(run[w].id, FALSE)]
  /\ run' = [run EXCEPT ![w] = NoRun]
  /\ UNCHANGED <<clock, occurrence, payments, told, found, view, nudged>>

Late(w) == clock - run[w].due > Grace

Skip(w) ==
  /\ Claimed(w) /\ ~AlreadySettled(w) /\ Late(w)
  /\ Settle(w, "SKIPPED", FALSE)
  /\ UNCHANGED payments

\* Not late: the run sets its savepoint and goes on to pay().  This is the only look at
\* the clock; how long the payment then waits for its locks, the grace does not ask.
InTime(w) ==
  /\ Claimed(w) /\ ~AlreadySettled(w) /\ ~Late(w)
  /\ run' = [run EXCEPT ![w].inTime = clock]
  /\ UNCHANGED <<clock, rows, found, view, nudged>>

Attempting(w) == run[w] # NoRun /\ run[w].inTime # Unchecked

\* pay() has got its locks and succeeds; its transfer and the outcome are one commit.
Pay(w) ==
  /\ Attempting(w)
  /\ payments' = With(payments, OccurrenceKey(w), Count(payments, OccurrenceKey(w)) + 1)
  /\ Settle(w, "PAID", TRUE)

CanRetry(w) == Attempts(w) < MaxAttempts

\* deferSchedule: not before so many seconds after the transaction began.  The
\* instant that names the occurrence stays.
Deferred(s, began, delay) == [schedule[s] EXCEPT !.retryAfter = began + delay]

\* INSUFFICIENT_FUNDS or LIMIT_EXCEEDED with attempts left.
Defer(w) ==
  /\ Attempting(w) /\ CanRetry(w)
  /\ occurrence' = With(occurrence, OccurrenceKey(w),
       [status |-> "PENDING", attempts |-> Attempts(w)])
  /\ schedule' = [schedule EXCEPT ![run[w].id] =
       Deferred(run[w].id, run[w].at, RetryBase * 2 ^ (Attempts(w) - 1))]
  /\ run' = [run EXCEPT ![w] = NoRun]
  /\ UNCHANGED <<clock, payments, told, found, view, nudged>>

\* A frozen or closed account at once, anything else at the last attempt.
Fail(w) ==
  /\ Attempting(w)
  /\ Settle(w, "FAILED", FALSE)
  /\ UNCHANGED payments

\* A timeout, a lost connection or a crash: the claim and the outcome both roll
\* back, and the tick ends.
Crash(w) ==
  /\ run[w] # NoRun /\ run' = [run EXCEPT ![w] = NoRun]
  /\ found' = [found EXCEPT ![w] = {}]
  /\ UNCHANGED <<clock, rows, view, nudged>>

Tick == clock < MaxClock /\ clock' = clock + 1 /\ UNCHANGED <<rows, work, view, nudged>>

Next ==
  \/ \E s \in Schedule :
       \/ CreateSchedule(s) \/ BringForward(s) \/ GetSchedule(s)
       \/ \E to \in {"ACTIVE", "PAUSED", "CANCELLED"} : Transition(s, to)
       \/ \E w \in Worker : RunSchedule(w, s)
  \/ \E w \in Worker :
       \/ RunDueSchedules(w)
       \/ Duplicate(w) \/ Skip(w) \/ InTime(w) \/ Pay(w) \/ Defer(w) \/ Fail(w) \/ Crash(w)
  \/ Tick

Spec == Init /\ [][Next]_vars

-----------------------------------------------------------------------------
(* Properties *)

ScheduleType ==
  [kind: {"ONCE", "RECURRING"}, status: {"ACTIVE", "PAUSED", "CANCELLED", "COMPLETED"},
   nextRunAt: Nat, retryAfter: Nat, remaining: Nat \cup {Unlimited},
   total: Nat \cup {Unlimited}]

\* Types; a row is locked by one run, and stays as the run found it.
TypeOK ==
  /\ clock \in 0 .. MaxClock
  /\ DOMAIN schedule \subseteq Schedule
  /\ schedule \in [DOMAIN schedule -> ScheduleType]
  /\ \A k \in DOMAIN occurrence :
       occurrence[k] \in [status: {"PENDING", "PAID", "FAILED", "SKIPPED"},
                          attempts: Nat \ {0}]
  /\ \A w \in Worker : run[w] # NoRun =>
       /\ schedule[run[w].id].status = "ACTIVE" /\ schedule[run[w].id].nextRunAt = run[w].due
       /\ \A v \in Worker : run[v].id = run[w].id => v = w

\* An occurrence is PAID exactly when one transfer was made for it, however many
\* processes, restarts and retries reach for it (schedule.worker.ts, the chain of
\* defences), and the owner hears once of its outcome, and of the right one.
PaidOnce ==
  /\ \A k \in DOMAIN occurrence \cup DOMAIN payments :
       Count(payments, k)
         = IF k \in DOMAIN occurrence /\ occurrence[k].status = "PAID" THEN 1 ELSE 0
  /\ \A k \in DOMAIN occurrence :
       Events(k) = IF occurrence[k].status = "PENDING" THEN << >> ELSE <<occurrence[k].status>>

\* Whoever asked for five payments gets five: each payment uses up one run, nothing
\* else does, and the schedule completes when none is left.
RunsAreHonoured ==
  \A s \in DOMAIN schedule :
    schedule[s].kind = "RECURRING" /\ schedule[s].total # Unlimited =>
      /\ schedule[s].remaining + Cardinality(Payments(s)) = schedule[s].total
      /\ schedule[s].status = "COMPLETED" <=> schedule[s].remaining = 0

\* Payments of the schedule looked at that are older than all that the detail lists.
LeftOut == {k \in Payments(view.of) : \A j \in view.listed : k[2] < j[2]}

\* "Did my rent actually go out?" (schedule.service.ts:259-261): where the schedule says
\* that runs are used up, the occurrences read after it show their payments, though a
\* worker may commit between the two statements.  Only a list that is full leaves
\* payments out, and then the oldest.
DetailExplained ==
  view.read = 2 =>
    \/ view.paid >= view.used
    \/ /\ Cardinality(view.listed) = ListSize
       /\ view.paid + Cardinality(LeftOut) >= view.used

\* However long the service was down or the schedule paused, payments are an interval
\* apart: no burst of back-dated ones (unless an operator brought one forward).
NoBurst ==
  \A s \in Schedule \ nudged : \A j, k \in Payments(s) :
    j[2] < k[2] => k[2] - j[2] >= Interval

\* Money leaves only for a schedule that is ACTIVE at the commit, and never again once it
\* is cancelled or completed; and only by a run that holds it and, when it looked at the
\* clock, was within the grace after the instant then due.  The commit itself may be later.
PaysOnlyWhenWanted ==
  [][\A s \in DOMAIN schedule : Payments(s)' # Payments(s) =>
       /\ schedule[s].status = "ACTIVE"
       /\ \A k \in Payments(s)' \ Payments(s) :
            \E w \in Worker : /\ run[w].id = s
                             /\ run[w].inTime \in k[2] .. k[2] + Grace]_vars

\* An occurrence that waits for a retry is still the one its schedule will run next:
\* it is not abandoned as PENDING, its attempts forgotten (migration 009).
NoOccurrenceAbandoned ==
  \A k \in DOMAIN occurrence :
    /\ occurrence[k].status = "PENDING"
    /\ k[1] \notin nudged /\ schedule[k[1]].status # "CANCELLED"
    => schedule[k[1]].nextRunAt = k[2]
=============================================================================
