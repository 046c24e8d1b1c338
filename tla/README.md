# TakaFlow, verified: TLA+ models, TLC runs and TLAPS proofs

TakaFlow is a mobile-money service: a Fastify/TypeScript API on PostgreSQL (with one streaming
replica), Redis for hints, background workers in every process, and a browser client. This
directory models the part of it that has to be right about money, checks it with TLC on small
instances, and proves with TLAPS most of what it checks for every instance. Paths below are relative to
`src/takaflow/`; `PROJECT.json` holds the exact lines of every definition.

## 1. The system

| component | state it keeps | operations | talks to |
|---|---|---|---|
| Ledger `backend/src/modules/transfers/ledger.service.ts` | `accounts` (balance, status, version), `transfers`, `ledger_entries` | `lockAccountPair`, `postDoubleEntry` | called inside the transactions of everyone who moves money; hooks to the balance cache |
| Transfers, reversals `transfer.service.ts`, `reversal.service.ts` | none of their own | `sendMoney`, `reverseTransfer` | idempotency store, velocity policy, ledger, outbox, read router |
| Idempotency store `platform/idempotency/store.ts` | `idempotency_keys` | `claimIdempotencyKey`, `completeIdempotencyKey` | same transaction as the money |
| Velocity and daily limits `velocity.service.ts`, `transfer.repo.ts` | the policy in each process; nothing else (they count `transfers`) | `enforceVelocity`, `outboundInWindow`, `setVelocityPolicy` | advisory lock of the sender |
| Account status `account.service.ts`, `admin.service.ts` | `accounts.status` | freeze, unfreeze, set status | the guard `requireActiveAccount` reads it before the transaction, `postDoubleEntry` under the lock |
| PIN `modules/auth/pin.service.ts` | `users.failed_pin_attempts`, `pin_locked_until` | `verifyPin` | transactions of its own, before the payment's |
| Money requests and split bills `modules/requests`, `modules/splits`, `shared/allocate.ts` | `money_requests`, `bill_splits` | create, accept, decline, cancel, split, list, detail; expiry worker | ledger, idempotency store, outbox |
| Standing orders `modules/schedules`, `workers/schedule.worker.ts` | `scheduled_transfers`, `schedule_occurrences` | create, pause, resume, cancel, bring forward, detail; worker: claim, pay, defer, fail, skip | ledger, daily limit, outbox |
| Outbox and notifications `platform/outbox`, `workers/outbox.dispatcher.ts`, `modules/notifications` | `outbox_events`, `notifications` | `enqueueEvent`; dispatcher: claim, handle in a savepoint, retry, give up | fed by every business transaction |
| Balance cache, read router `platform/cache`, `platform/db/read-router.ts` | Redis `bal:*`, `wlsn:*`; the replica's replay position | publish after commit, read balance, route a read | after-commit hooks of `withTransaction` |
| Histories, lists, statements `history.*.ts`, `statement.service.ts`, `shared/cursor.ts`, the `list` of requests, schedules, audit | none (the client holds the cursor) | pages, CSV export, receipt by reference | read router; primary |
| Reconciliation `admin/reconciliation.service.ts` | none | the report | reads what the ledger wrote |
| Sessions `modules/auth`, `frontend/src/lib/api.ts`, `app-state.tsx` | `refresh_tokens`; a tab's memory, `localStorage` | login, rotation with reuse detection, logout; one shared refresh per tab | |
| Payments in the browser `frontend/src/lib/api.ts`, `pages/Send.tsx` and the pages that create or settle | a page's fields, key and countdown | send, undo, retry, resend after a refresh | the API over HTTP |
| Errors `platform/errors`, `platform/http/error-handler.ts` | none | `toApiError` | decides what the client sees and whether it tries again |
| Transactions and the pool `platform/db/transaction.ts`, `pool.ts` | the connections of a process | begin, deadline, retry on 40001/40P01, hooks, release | everyone |
| Process lifecycle `server.ts`, `workers/index.ts`, `platform/db/migrate.ts` | `schema_migrations`, the timers of the loops | boot, migrate, start loops, drain, close, forced exit | the database's advisory lock |
| HTTP plumbing, metrics, logging, configuration, pages that only display | | | |

What makes it hard: every service function is a READ COMMITTED transaction whose statements
interleave with those of every other process, whose locks are taken statement by statement, which
may die or time out anywhere, and which the client or `withTransaction` may run again. Hooks run
after the commit in no particular order; workers run in every process; the replica lags; Redis may
be away; the answer to a payment may be lost. Section 7 lists what each model leaves out, and
`hazards` in `PROJECT.json` the places in the code where these things bite.

What makes each component correct, in one line: the ledger never loses, makes or overdraws money
and never blocks itself; a key executes one request once; limits hold for the payments they are
enforced on; no wrong PIN goes uncounted; a request, a bill, an occurrence has one outcome, one
payment and one event; shares add up and are nobody's favour; an event is delivered exactly when it
is recorded as delivered, and every event is settled; the cache and the replica never show a past
older than they claim; a list is complete and ordered; a session family has one good token; nobody
pays twice without knowing; a process never serves on half a schema nor cuts off what it drains.

## 2. The modules

`Txn` in every module is a set of database transactions: one *attempt* of one request. A retry, by
the client or by `withTransaction`, is another member of `Txn` with the same request, and an
`Abort` is possible before any statement, so duplicate submission, a crash before COMMIT, and an
answer lost after it need no actions of their own. A committed row changes at COMMIT only;
a locking read waits for the row and then sees it as committed, as PostgreSQL re-evaluates
it under READ COMMITTED.

| module | what it is |
|---|---|
| `AbstractLedger` | The promise: payments, reversals, registrations, status changes as indivisible steps, a key executed once. No locks, no transactions. |
| `Ledger` | The protocol that keeps it: idempotency key, advisory lock or original's row, two account rows in ascending order, post, commit. `Begin`, `ClaimIdempotencyKey`/`Replay`, `EnforceVelocity`, `LoadOriginal`, `MarkReversed`, `LockFirst`, `LockSecond`, `PostDoubleEntry`, `Commit` are the statements of `sendMoney`, `reverseTransfer` and `register`; `LockOwnAccount`, `SetAccountStatus` those of the freezes. |
| `Reconciliation` | The administrator's report as operators of `Ledger`'s committed rows. Its queries are separate statements, so each has to be right in every state. |
| `SendLimits` | One sender, payments of the three kinds, the policies of several processes, sliding windows over the committed transfers, the reversal window. |
| `Pin` | The PIN of one user: read, verify slowly with no transaction open, then record a failure or clear. |
| `MoneyRequests` | Requests and split bills under creation (`CreateRequest`, `CreateLegs`), accept, decline, cancel, expiry and duplicates. |
| `Splits` | `allocate.ts`, what the page announces, and the list and the detail of a bill while its legs are answered. |
| `Schedules` | Standing orders: several workers list, claim, pay, defer, fail and skip occurrences (`RunDueSchedules`, `RunSchedule`) while the owner creates, pauses, resumes, cancels (`Transition`) and reads the detail, and an operator brings runs forward. |
| `Calendar` | The dates `advanceSchedule` produces, with real months and leap years. |
| `Outbox` | Dispatchers, batches, savepoints, retries with back-off. |
| `Lifecycle` | Boots of two releases, migrations under the session's advisory lock, loops, requests, signals, orderly and forced shutdown, crashes. |
| `Pool` | The connections of one process: who holds, queues, backs off, gives up, and the row they all want. |
| `ReadPath` | After-commit hooks, the versioned balance in Redis, the recorded WAL position, the replica. |
| `Statements` | Keyset pages of a history, an export or a list while rows commit out of timestamp order and change; the lookup of a transfer by its reference. |
| `Sessions` | Refresh tokens in the database and the tabs of one browser that hold them. |
| `Errors` | The error handler as a function from what was thrown to the status. |
| `Client` | `api()` with its retry and its resend, and the pages that pay, create and settle, over a network that loses and delays. It takes the server's statuses from `Errors`. |

| proofs | about |
|---|---|
| `LedgerProofs` | `Ledger`: its invariants, its action properties, the refinement of `AbstractLedger`, the order of its locks; `Reconciliation`. |
| `LimitsProofs` | `SendLimits` and `Pin`. |
| `RequestsProofs` | `MoneyRequests` and `Splits`. |
| `StandingOrdersProofs` | `Schedules` and `Calendar`. |
| `WorkersProofs` | `Outbox` and `Lifecycle`. |
| `ReadsProofs` | `ReadPath` and `Statements`. |
| `BrowserProofs` | `Sessions` and `Client`. |
| `Sums` | Lemmas only: the least of a set, the sum over a finite set as `SumFunctionOnSet` computes it, the ranks that an order gives. |

How they are put together. `AbstractLedger` is instantiated in `Ledger`, which is shown to
implement it (`ImplementsPromise`, by TLC and by proof); `Reconciliation` extends `Ledger`,
`Client` extends `Errors`. Above that the composition is by promise: `MoneyRequests` and
`Schedules` treat a payment as one step that succeeds or fails, which is what `Ledger` implements,
and `Client` treats the server as what those three promise; `Statements` lets each page be served
by the primary or by the replica at any position, which covers every choice `ReadPath` allows.

`MC*` modules give the constants of each run. `MCTransactions`, `MCLimits`, `MCRequests`,
`MCStandingOrders`, `MCReads` and `MCWorkers` each put two or three components that answer one
question into one run: a variable `part` chooses which of them a behaviour is of, and the others stand
still. They share no state, so nothing is lost by not interleaving them; properties of a
component hold trivially in the parts of the others, and so does its fairness, because no action it
names is enabled in the component's initial state. `MCLedger`, `MCSendLimits`, `MCSchedules`,
`MCReadPath` and `MCSessions` hold the constants of one component alone; the last four also serve
the violation runs.

Conventions: definitions keep the source's names (where several modules meet in one run, the parts
every module has carry a prefix: `PinInit`, `PoolNext`, `ClientSpec`, and the `AuthTxn` of
`Sessions`); `\* Mutant:` marks an operator with the same parameters as the definition that follows
it, altered the way a plausible bug would alter the code. No specification uses it; `PROJECT.json`
pairs each with the property it must break, which shows that the property depends on that line of
the code. `TypeOK` of each module documents the state; sections 5 and 6 say which are proved.

## 3. The runs

| run | distinct states | bounds | what it shows |
|---|---|---|---|
| `transactions` | 57,595 | 3 transactions of the ledger, treasury between two users in id order, a phone not registered yet; the amounts let one payment empty an account; 4 transactions of the sessions, 2 tabs | `FundsNeverNegative`, `ExactlyOnce`, `ReplayTellsTruth`, `ReversedOnce`, `AuditPasses` (no query of the reconciliation finds anything between any two commits), `NoDeadlock` (no circle of waiting transactions), `FrozenNeverPays`, `AfterImagesTrue`, and `ImplementsPromise`; one good token per family (`OneLiveToken`), no token presented twice by a tab between loads (`SpentOnce`) |
| `limits` | 1,021,693 | 3 payments of 1 or 2, daily limit 3, two policies on two processes, clock to 2; 4 PINs verified at once, 2 allowed, lockout of 2, clock to 4 | the velocity policy is applied exactly, typed transfers never take the sender over the daily limit by themselves; no wrong PIN goes uncounted (`NoFailureLost`), and who comes during a lockout cannot lift it (`LockoutOutlastsNewcomers`) |
| `requests` | 276,317 | one standing request, a request and a bill for two payers to come, 2 calls, 2 workers, batches of one, clock to 1; every bill to 9 among at most 3 with weights to 3 | one outcome, one payment by a call in time, one event (`SettledOnce`); true answers; one bill per key; nothing stays overdue; fair shares, and views of a bill that agree |
| `schedules` | 2,964,098 | one schedule, 2 workers, 2 attempts, interval 2, grace 1, details of 2 occurrences, clock to 4; dates of 2027 to 2029 from days 1 and 28 to 31 | an occurrence is paid at most once and told once, the runs ordered are honoured, the detail shows a payment for every run it says is used up unless its list is full (`DetailExplained`), no burst after a pause or downtime, payments only for an active schedule and by a run that was within the grace when it looked at the clock (`PaysOnlyWhenWanted`); the calendar of every kind of order |
| `reads` | 1,494,384 | 2 accounts, 2 writes, 1 read; 3 rows at two instants of one millisecond and one of the next, two days, pages of one; 2 calls, 2 pages visited, 2 forms | an answered balance was true, a history shows what the write it waited for was based on; pages are exact (`PagesAreExact`); a reference finds its transfer unless midnight came between; nobody pays twice unknowingly (`NeverPaidTwiceUnknowingly`), every success shown is a payment of its own (`EachSuccessIsNew`) |
| `workers` | 50,692 | 3 events of which one never fails, 2 dispatchers, batches of 2, 2 attempts; 2 processes with 1 and 2 migrations, one loop, one request, 2 boots each; 3 handlers, 2 connections, 2 attempts | notifications exist exactly for processed events, every event settles, a healthy one arrives in spite of the others; boots do not collide, the pool is closed under nobody, nobody hangs; every handler gets its connection |

Why these are enough: every property of the ledger, the limits, the sessions and the pages is about
at most two transactions or calls and what a third does between them; a circle of waiting
transactions through two account rows needs two, three leave room for a key or a reversed transfer
in between. Four PINs pass the allowance by two. The clocks reach one instant beyond every window
they delimit, batches are smaller than what is due, lists are longer than a page at every cursor, a
schedule has more occurrences than its detail lists, paid ones among those left out, the first
process to boot may ship fewer migrations than the second or more than are applied, and three
handlers are more than the pool has connections. The calendar passes a leap day (2028) and both year
ends. Bills to 9 with weights to 3 leave every remainder that three people can have. Accounts are
three users and one treasury because the lock order only compares ids. Of the safety properties
every one that a passing run checks is also proved for any number of transactions, calls, workers,
attempts or processes; the bounds matter to liveness alone.

Symmetry is used where no liveness is checked; in `reads` transactions and calls, which are alike
until they are used, are used in a fixed order instead (`InOrder`). Deadlock checking is off everywhere: all models
are bounded (transactions, clock, events, boots) and stop when the bound is used up; `NoDeadlock`
is the statement about row locks that TLC's deadlock check would not make, `EveryoneIsServed` the
one about connections.

### What the code does not do (violation runs)

* `daily_limit`: accepted requests and scheduled payments read the sender's daily total before any
  lock, so two can both pass the limit. `transfer.repo.ts:59-60` says evaluating the sum inside the
  transaction prevents this.
* `schedule_retry`: resuming a schedule that waits for a retry moves `next_run_at`, which names the
  occurrence; the old occurrence stays PENDING for ever and its attempts start again.
  `migrations/009_schedule_retry.sql:8-13` says `next_run_at` is "deliberately untouched".
* `monthly_day`: a monthly order of the 31st is due on the 28th in February and stays on the 28th,
  because `advanceSchedule` counts from the previous occurrence. `schedule.repo.ts:223-224`: "a
  monthly rent transfer must stay on its day of the month".
* `read_your_writes`: `trackWrite` records the WAL position before the COMMIT record is written; a
  replica that has reached it need not show the write. `read-router.ts:16`: "So a user always sees
  at least their own writes".
* `reference_lookup`: a reference carries the day on which the process posted the transfer,
  `created_at` is the start of its transaction, and both lookups (`history.repo.ts:150-153`,
  `reversal.service.ts:70-75`) search the day of the reference only; a transfer whose transaction
  straddles midnight UTC is not found by its own. `ledger.service.ts:68-74`: the date "restores an
  effective global lookup". `FoundUnlessMidnight` (`reads`) says that nothing else gets lost.
* `sign_out`: the answer to a refresh under way arrives after `signOut` cleared the session, and
  `setSession` restores it; the logout had revoked the token just rotated away.
  `app-state.tsx:95`: signing out "must still clear the session on this device".

### Met while reading, without a run

What the models contain but no property is stated about, or what lies at their edge:

* With Redis away the router reads from the replica although `read-router.ts:20-21` says the
  primary. A CSV export may hold rows committed after it started, which
  `statement.service.ts:13-15` excludes (`created_at` is the start of a transaction).
* `revokeFamily` misses the token of a rotation that has not committed yet, though
  `auth.repo.ts:198` speaks of every session descended from the reused one.
* `error-handler.ts:105-112`: a socket error carries a string `code` and is taken for PostgreSQL's,
  so ECONNREFUSED, ECONNRESET, and 57P02 too, are answered 500 and not 503; such a 500 may follow a
  COMMIT whose acknowledgement was lost. `Client` has this: a 500 does not mean "not executed".
* `api.ts:143-144` takes every 401 for an expired access token, and a wrong PIN is one
  (`errors/index.ts:33`): it is refreshed and sent again, so one wrong PIN counts twice.
* Limits: `accounts.routes.ts:46-54` shows a `spentLast24h` that counts reversed transfers while the
  limit counts completed ones (`transfer.repo.ts:73`); `velocity.service.ts:94-96` computes a
  Retry-After that is too short once the policy has been tightened below what was already sent.
* Standing orders: the grace is judged once (`schedule.worker.ts:133-134`), before `pay()` waits for
  its locks, so a payment may commit after the grace; the transaction's deadline refuses further
  statements, not the COMMIT. The detail lists twenty occurrences (`schedule.service.ts:271`) of an
  order that may have 120 runs and as many skips and failures (`schedule.schemas.ts:19`), and does
  not say that there are more.
* `TRANSFER_REVERSED` (`reversal.service.ts:203`) has no case in `handleEvent`: the event becomes
  PROCESSED and nobody is told that money was taken back.
* Requests and bills get `expires_at` from the process's clock and are expired by the database's;
  the `outstanding` of a bill includes legs that were declined, cancelled or have expired.
* Process: compose's API migrates through PgBouncer in transaction mode, where a session's advisory
  lock is not held (`migrate.ts:4-5`); `CREATE TABLE IF NOT EXISTS` precedes the lock;
  `server.ts:45,56` starts to close as soon as it begins to refuse. `Lifecycle` has a direct
  connection.
* `transaction.ts` keeps its connection while it backs off (`Pool` shows that this blocks nobody for
  ever), and `register` takes any unique violation for a taken phone number.
* The audit claims one snapshot (`reconciliation.service.ts:9-10`) but runs at READ COMMITTED;
  `AuditPasses` holds all the same, because each query is right by itself.
* Browser: fields stay editable during the countdown of a payment already confirmed;
  pages other than Send mint a key per click, against `api.ts:6-9`; lists show the answer that comes
  last, whatever was asked last; a failed refresh of the balance after a payment shows an error
  beside the success; a fetch has no timeout.

## 4. Fairness

Safety needs none. `RequestsFairness`: a begun transaction goes on (weak fairness per transaction:
the statements are issued by code that does not wait for anybody, and lock waits end by lock,
statement and transaction timeouts); the worker's timer keeps firing (`startLoop` in
`workers/index.ts` schedules the next tick after a success and after a failure), and its commit,
which a crash or a busy row may preclude again and again, is strongly fair: runs do not crash for
ever. Nothing is assumed of users. The clock has no fairness: `NothingStaysOverdue` starts from a
request that is overdue.

`OutboxFairness`: the same loop for the dispatchers, time passes for the back-off, and crashes end
at some point (a dispatcher killed in every batch delivers nothing).

`LifeFairness`: a boot goes on and a shutdown goes on, its timer included (`server.ts:47-51`);
taking the migration lock is strongly fair, since PostgreSQL queues the waiters. Requests and ticks
need not end: `NobodyHangs` for a shutdown rests on the forced exit.

`PoolFairness`: a free connection is handed to the first in the queue, a handler that has come and
can go on does. No connection timeout is assumed, so `EveryoneIsServed` says that none is needed.

## 5. The proofs

Every theorem is of the specification the runs check, for any values of the constants that satisfy
the module's assumption:

| module | theorem | states |
|---|---|---|
| `LedgerProofs` | `Invariance` | `IInv` is inductive |
| | `TypeCorrect`, `NoOverdraft`, `OncePerKey`, `TrueReplays`, `OneReversal` | `TypeOK`, `FundsNeverNegative`, `ExactlyOnce`, `ReplayTellsTruth`, `ReversedOnce` |
| | `FrozenPaysNothing`, `TrueAfterImages` | the action properties `FrozenNeverPays`, `AfterImagesTrue` |
| | `Refinement` | `Spec => Promise!Spec`: the protocol implements the abstract ledger |
| | `NobodyInACircle` | `NoDeadlock` |
| | `AuditAlwaysPasses` | `AuditPasses` |
| `LimitsProofs` | `PolicyExact`, `DailyLimitKept` | `PolicyAppliedExactly`, `TypedWithinDailyLimit` |
| | `FailuresCounted`, `LockoutStands` | `NoFailureLost`, the action property `LockoutOutlastsNewcomers` |
| | `LimitsTyped` | `TypeOK` of `SendLimits` |
| `RequestsProofs` | `RequestsSettledOnce`, `RequestAnswersTrue`, `KeyMakesOneBill` | `SettledOnce`, `AnswersAreTrue`, `OneBillPerKey` |
| | `RequestsTyped` | `TypeOK` of `MoneyRequests` |
| | `NothingLost` | what `Allocate` hands out is the bill |
| | `EveryBillIsFair`, `EveryViewAgrees` | `SharesAreFair`, `ViewsAgree` |
| `StandingOrdersProofs` | `OccurrencesPaidOnce`, `RunsAddUp`, `PaymentsApart`, `DetailShowsPayments` | `PaidOnce`, `RunsAreHonoured`, `NoBurst`, `DetailExplained` |
| | `PaidWhileWanted` | the action property `PaysOnlyWhenWanted` |
| | `DatesKept` | `CalendarKept` |
| `WorkersProofs` | `NotifiedExactly` | `NotifiedWhenProcessed` |
| | `OneMigratesAtATime`, `ClosedUnderNobody` | `BootsDoNotCollide`, `QuietBeforeClose` |
| | `LifecycleTyped` | `LifeTypeOK` |
| `ReadsProofs` | `BalancesAreTrue`, `HistoryIsCausal` | `BalanceIsTrue`, `ShowsWhatTheWriteSaw` |
| | `FoundByReference`, `PagesAddUp` | `FoundUnlessMidnight`, `PagesAreExact` |
| | `ReadsTyped` | `TypeOK` of `ReadPath` |
| `BrowserProofs` | `TokensSingleUse`, `PresentedOnce` | `OneLiveToken`, the action property `SpentOnce` |
| | `PaidOnceUnlessTold`, `SuccessesAreNew` | `NeverPaidTwiceUnknowingly`, `EachSuccessIsNew` |
| | `SessionsTyped` | `SessionsTypeOK` |

### Assumptions

Each module names one assumption on its constants (`Ledger` a second), which TLC evaluates on the
runs. Nothing bounds the number of actors; the clocks and counters are bounded by constants that may
be any number.

* `LedgerAssumption`: accounts are numbers, so that they are ordered; amounts are positive; nobody but
  the treasury starts below zero; requests have the shape the routes validate. `KeyScope`: a key
  belongs to one user (`UNIQUE (user_id, key)`).
* `ReconciliationAssumption`: there are finitely many accounts, and the opening balances add up to
  nothing, since each transfer of the history before took from one account what it gave to another.
* `LimitsAssumption`, `PinAssumption`, `SchedulesAssumption`, `OutboxAssumption`: limits, windows,
  batches, intervals and the length of a detail's list are natural numbers, positive where the code
  or its configuration requires it.
* `RequestsAssumption`: nobody requests from himself; a request that stands at the start is not one
  that a transaction will make (its id is another UUID). `SplitsAssumption`: amounts and numbers of
  people are natural numbers, weights and the smallest transfer positive.
* `CalendarAssumption`: years are positive numbers, days of a month 1 to 31.
* `LifecycleAssumption`: a release ships a number of migrations, and a process boots a bounded number
  of times. `StatementsAssumption`: a day and a
  page are not empty.
* `ReadPathAssumption`, `SessionsAssumption`, `ClientAssumption`: the marks for "nothing", "nobody",
  "none" are no values of the kind they stand in for; the first also that an account does not open
  below zero.

### The inductive invariants

Hardly any property is inductive by itself. What each needs besides is who stands
between a locking read and its commit, what it has read, and why that still stands.

*Ledger.* At its commit a transaction writes balances computed two statements earlier. That they are
still right follows from what happened in between, so `IInv` adds, per transaction, `Shape` (which
statements its kind of request goes through), `Movement` (who pays whom is what the request, or the
transfer to be reversed, says) and `Held`: from each locking statement on the lock is held, what was
read under it still stands (the key is unused, the original is COMPLETED, the payer may pay,
`after` is the present balance plus or minus the amount). Steps other than a commit touch no committed
row (`QuietStep`) and no other transaction's locks (`QuietOthers`), so `Held` survives them; a commit
of `t` changes only rows `t` has locked, and no other transaction holds those (`CommitOthers`,
`StatusStep`). The conjuncts then follow one per lemma. `Refinement` needs nothing more: with `Held`,
the guard of the abstract `Pay`, `Reverse`, `Mint` or `SetStatus` is true in the state in which the
commit happens, and every other step is a stutter.

*Locks.* `IInv` says which locks a transaction has; `LockInv` is the converse: a lock is held only by
one that has passed the statement taking it, and between the two account locks only the first is
held. So who waits for a key holds nothing, a key is held by nobody who waits for one, and likewise
through the advisory locks and the reversed transfers to the accounts (`WaitsAscend`). A circle could
then only be of transactions that have one account and wait for a greater one; only finitely many
have begun (`Bounded`), so one of the circle has the greatest first account (`Greatest`, from the
well-foundedness of the naturals), and whoever holds what it waits for is not in the circle. A
registration's own account, which nobody else can see, is the one exception to the order
(`FreshIsAlone`).

*Audit.* A commit adds one transfer, and moves by its amount the two balances that it names
(`CommitAudit`); so the sum of all balances stays, and each stays the sum of its entries. The sums are
those of `SumFunctionOnSet`, a fold, which the library defines by a recursive function and a CHOOSE of
the next member. `Sums` shows that there is such a function (`Solution`), that it depends on the
values alone (`SumSame`), and that any member may be taken out first (`SumRemove`), each by a least
counterexample, because the induction theorems of the library take an operator as a parameter.

*Limits and PIN.* `Gated`: a typed payment past `enforceVelocity` holds the sender's advisory lock,
and the typed payments in its window are those it counted, because another would need that lock; a
reversal does not change what the policy counts. `Room`: for the same reason a typed payment that has
been cleared still has room under the daily limit when it commits; the windows that its transfer falls
into open no earlier than a day before it, so what stands in them was in the total it read. `PinInv`: the attempts that are
counted have been told and are over, so the next failure is a new one; a lockout ends at most
`LOCKOUT` from now, so a new one is never shorter than the one in force; an attempt that is being
verified saw a lockout that had run out.

*Requests.* `Held` as in the ledger (the key is unused, the row is held); `RowsHeld`: a held row is
PENDING, which makes the status tests before the lock and after it one; `KeysUsed` and `BillsWhole`:
a key in the table is of the committed transaction that made all legs of its bill; `Ended`: a request
has a settlement and a closing event exactly as its status says, and both name who did it.

*Bills.* `allocate.ts` rounds every exact share down and hands the poisha that are left to the largest
remainders. What is left times the total weight is the sum of the remainders, and each of those is
less than the total weight, so there are fewer poisha left than people (`LeftoverFits`). Ranking by
remainder and then position is a bijection from the people to the numbers below theirs
(`AheadOrders`, `RankBijection`), so exactly as many get one as are left (`AllocateByWeightIs`), and
whoever gets one has a remainder: otherwise all remainders would be those of fewer people than there
are poisha left (`FavouredLack`). `BillInv` is that the legs keep the amounts computed, whatever
becomes of them.

*Standing orders.* `RunsHold`: an open run holds an ACTIVE schedule, alone (`SKIP LOCKED`), as it
found it; `RunsDecided`: where it has looked at the clock, that was not before the instant due nor
after the grace, and no outcome of that occurrence stands; `Terms`: payments made and runs left are
what was ordered; `Spaced`: payments are an interval apart, and `next_run_at` is an interval after all
of them, unless an operator has brought it forward; `ViewSound`: what the owner's first read saw of
the schedule is no more than has been paid since, until the second read shows it
(`DetailExplained`). Every step is one of three kinds: it pays (`PayKeeps`), it changes a schedule without paying
(`UpdateKeeps`), or it leaves the rows alone (`IdleSteps`). Of the list, `ListIs` shows that it is
either of all occurrences or of exactly `ListSize` of them, each later than all that it leaves out:
counted from the latest, an occurrence's rank is the number of later ones, and ranks are a bijection
(`Sums`). So a list that is not full hides nothing, and a full one hides only what is older.

*Dates.* A month is as long in the count of days as it is in the calendar (`MonthCounted`), which at
the end of February is that the leap years are those in which the count gains one (`LeapDay`). So
adding days counts them (`DaysCounted`); adding a month adds one month to those passed, and the day
is kept or cut down to that month's last (`MonthAdded`).

*Outbox and lifecycle.* Batches of dispatchers are disjoint and of PENDING events; results are of
the batch. A boot that applies migrations holds the lock and has seen what is applied; a process
past its migrations has them, since none is taken back; requests run only on a process that listens
or drains, and timers are set only until `workers.stop()`.

*Reads.* Whatever is in Redis or in the hands of a reader *was* a committed row (`Was` stays true as
the WAL grows), so the compare-and-set and the version test need only not go backwards; the position
a write records is not before what it saw, a required position has been written, and a replica that
answers has replayed it. `FoundByReference` rests on `DayOf`: an instant lies between the two ends
of a day exactly when that is its day.

*Pages.* The rows of a page are found by their rank, which is a bijection (`RowsAre`), so a page is
the first rows below the cursor. `ReaderInv`: nothing listed so far is below the cursor, and what the
reader is owed has been listed or is below it. Writers cannot change that, because the place of a
committed row never changes (`WriteKeeps`) and a row that appears is owed to nobody; a page moves
what it lists from one side of the cursor to the other (`PageKeeps`), and the row more that `toPage`
asks for tells whether any is left.

*Browser.* `Rotating`: who is about to rotate holds the row and found it live, so two of a family
cannot; `Awaited`: the transaction a tab waits for is that tab's alone and no tab has its token yet,
so a token that is learned has not been spent. `Client`: what a call is about never changes once it
has started; a row says what the call that brought it said; the call a page waits for is under a key
of which no success was reported; and of the keys of one visit to SEND at most one is unreported,
the one the page still has (`OneOpenKey`). So a payment under another key comes after the one before
it was reported.

*Types.* The type invariants say more than types: no lock stays with someone who is over. Each needs
the converse of what the safety invariants say of locks: `KeysHeld` and `HoldersRun` (whoever holds is
at work), `Grip` (a write holds the rows it will change, so the row lock it takes is not another
write's). That no version in Redis or at a position recorded there is ahead of the primary needs
`Climbs` (versions only grow along the WAL); that no balance is negative needs that a write debits
an account it has locked and that could pay.

## 6. Not proved

* Liveness (`NothingStaysOverdue`, `EveryEventSettles`, `HealthyEventsArrive`, `NobodyHangs`,
  `EveryoneIsServed`) is model-checked only: it is beyond this prover.
* The type invariants of `Outbox`, `Schedules`, `Pin`, `Pool` and `Statements` are not proved. In the
  first two the back-off is `2^n`, of which the provers do not know that it is a number; in the others
  what the theorems need of the types is part of their invariants (`PinTypes`, `ReaderInv`), and
  `Pool` has only a liveness property. No run lists them; TLC finds all five to hold on the
  instances of section 3 when they are added there.

## 7. What is left out

* `Ledger`: a settlement and a scheduled payment post through the same `postDoubleEntry` as a
  transfer and are not separate kinds there; `MoneyRequests` and `Schedules` have their side. The
  daily and velocity checks only take their lock in `Ledger`; their counts are `SendLimits`. Keys
  never expire. The account CLOSED has no way in: no code closes one. Of a registration, the
  account and its bonus only.
* `Reconciliation`: a transfer and its two entries are one row here, so the queries that compare a
  transfer with its entries have nothing to find; the age of a stranded key.
* `SendLimits`: balances; other senders. `Pin`: the clock of the process and of the database agree.
* `MoneyRequests`: amounts (`Splits` has those of a bill). `Splits`: how a leg is answered.
* `Schedules`: intervals of one length (`Calendar` has the months); the payment's own refusals are
  one that may pass and one that may not. `ListSize` stands for the twenty occurrences of a detail.
  A run looks at the clock in one step (`InTime`, `Skip`) and pays in another, with any time between
  them: no deadline bounds it, nor does it in the code. The owner looks at the detail once. `Calendar`: the time of day and time zones.
* `Outbox`: who is told what, and of which events nobody is (`handleEvent` answers an event type
  without a case with no notification, and the event is PROCESSED). Times are counted from the back-off down.
* `Lifecycle`: what a migration does; a database that goes away. `Pool`: one row is contended for.
* `ReadPath`: a death between commit and hooks is `LoseHooks`; a `SET` that times out and is
  applied by Redis later still is not modelled.
* `Statements`: filters are a set of marks and an upper bound; the clocks of the process and of the
  database are taken to agree; one reader, since readers share nothing.
* `Sessions`: one user and one browser; access tokens only as a reason for a 401, which may come at
  any time.
* `Client`: one tab's pages; what they display; the receipts and lists they fetch. A page is SEND,
  CREATE or SETTLE: those of one kind differ in wording only.
* Not modelled at all: cryptographic primitives (passwords, tokens, JWT); routes and validation
  beyond their effect; metrics, logging, configuration; the SQL of the migrations; pages that only
  display; `demo.ts`, the chaos and gate scripts, which drive a running system from outside; tests
  and operations.

## 8. Plan

Modelling: the components of section 1 are modelled, but for those section 7 names as left out; what
remains there is display, plumbing or primitives, and the scripts that exercise the system.

Proofs still open: the type invariants that section 6 names.
