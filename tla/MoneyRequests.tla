--------------------------- MODULE MoneyRequests ---------------------------
(***************************************************************************)
(* Money requests and split bills.  A requester asks one or several payers *)
(* (createRequest, createSplit); a payer accepts and pays in the same      *)
(* transaction, or declines; the requester cancels; the expiry worker of   *)
(* every process ends what nobody answered.  Any of them may meet on one   *)
(* row, and any may be submitted twice.                                    *)
(*                                                                         *)
(* As in Ledger.tla a member of Txn is one READ COMMITTED transaction: it  *)
(* sees committed rows, waits for row locks, then looks at the row again,  *)
(* and its writes appear at COMMIT.  The payment inside an accept is one   *)
(* row of settlement; whether the payer can pay is Ledger.tla's matter,    *)
(* here any accept may fail after it has locked the request.               *)
(***************************************************************************)
EXTENDS Integers, Sequences, FiniteSets

CONSTANTS
  User, Key, Txn,
  Worker,      \* the processes that run the expiry worker
  Standing,    \* requests that are pending at the start
  Requester, Payer,  \* who asked whom, for the standing requests
  Bills,       \* whom users ask together: sequences of payers
  Life,        \* the validity a new request gets
  BatchSize,   \* rows one run of the worker may expire
  MaxClock,    \* bound: the clock stops here
  Nobody

\* The rows a transaction inserts are named after it: one per payer of its bill.
Request == Standing \cup UNION {{<<t, i>> : i \in DOMAIN b} : t \in Txn, b \in Bills}

ASSUME RequestsAssumption ==
  /\ Requester \in [Standing -> User] /\ Payer \in [Standing -> User]
  /\ \A r \in Standing : Requester[r] # Payer[r]
  /\ Bills \subseteq Seq(User)
  /\ \A r \in Standing : r \notin Txn \X Nat
  /\ Life \in Nat \ {0} /\ BatchSize \in Nat \ {0} /\ MaxClock \in Nat
  /\ Nobody \notin Txn \cup Worker /\ Txn \cap Worker = {}

VARIABLES
  clock,
  request,     \* money_requests: status, requester, payer, expires, settledBy
  settlement,  \* transfers of type REQUEST_SETTLEMENT: <<request, transaction>>
  outbox,      \* events: <<request, kind, transaction or worker>>
  keyRow,      \* completed idempotency keys, each with the transaction that used it
  keyLock,     \* the transaction whose uncommitted INSERT holds the key
  rowLock,     \* the holder of a request's row
  pc,          \* how far each transaction is
  job,         \* what it was asked to do
  began,       \* its now()
  batch        \* the rows each worker has marked

rows == <<request, settlement, outbox, keyRow>>
vars == <<clock, rows, keyLock, rowLock, pc, job, began, batch>>

NoJob == [op |-> "NONE"]

With(f, k, v) == [x \in DOMAIN f \cup {k} |-> IF x = k THEN v ELSE f[x]]

Pending(from, by, expires) ==
  [status |-> "PENDING", requester |-> from, payer |-> by,
   expires |-> expires, settledBy |-> Nobody]

Init ==
  /\ clock = 0
  /\ request = [r \in Standing |-> Pending(Requester[r], Payer[r], Life)]
  /\ settlement = {} /\ outbox = {} /\ keyRow = << >>
  /\ keyLock = [k \in Key |-> Nobody]
  /\ rowLock = [r \in Request |-> Nobody]
  /\ pc = [t \in Txn |-> "idle"] /\ job = [t \in Txn |-> NoJob]
  /\ began = [t \in Txn |-> 0]
  /\ batch = [w \in Worker |-> {}]

-----------------------------------------------------------------------------
(* A call arrives *)

Keyed == {"REQUEST", "SPLIT", "ACCEPT"}

Jobs ==
  [op: {"REQUEST", "SPLIT"}, key: Key, by: User, bill: Bills]
  \cup [op: {"ACCEPT"}, key: Key, by: User, id: DOMAIN request]
  \cup [op: {"DECLINE", "CANCEL"}, by: User, id: DOMAIN request]

\* A key is one user's.  A request asks one person, a bill may be split with more;
\* nobody asks herself, or the same person twice.
Proper(j) ==
  /\ j.op = "REQUEST" => Len(j.bill) = 1
  /\ j.op \in {"REQUEST", "SPLIT"} =>
       /\ \A i \in DOMAIN j.bill : j.bill[i] # j.by
       /\ \A i, k \in DOMAIN j.bill : j.bill[i] = j.bill[k] => i = k
  /\ j.op \in Keyed => \A t \in Txn :
       (job[t].op \in Keyed /\ job[t].key = j.key) => job[t].by = j.by

Begin(t) ==
  /\ pc[t] = "idle"
  /\ \E j \in Jobs : Proper(j) /\ job' = [job EXCEPT ![t] = j]
  /\ pc' = [pc EXCEPT ![t] = "begun"]
  /\ began' = [began EXCEPT ![t] = clock]
  /\ UNCHANGED <<clock, rows, keyLock, rowLock, batch>>

End(t, outcome) ==
  /\ pc' = [pc EXCEPT ![t] = outcome]
  /\ keyLock' = [k \in Key |-> IF keyLock[k] = t THEN Nobody ELSE keyLock[k]]
  /\ rowLock' = [r \in Request |-> IF rowLock[r] = t THEN Nobody ELSE rowLock[r]]
  /\ UNCHANGED <<clock, job, began, batch>>

\* Mutant: only a completed key stops a second caller, not one in progress.
AtKeyWithoutWaiting(t) == job[t].op \in Keyed

\* claimIdempotencyKey, see Ledger.tla
AtKey(t) == job[t].op \in Keyed /\ keyLock[job[t].key] = Nobody

ClaimIdempotencyKey(t) ==
  /\ pc[t] = "begun" /\ AtKey(t) /\ job[t].key \notin DOMAIN keyRow
  /\ pc' = [pc EXCEPT ![t] = "claimed"]
  /\ keyLock' = [keyLock EXCEPT ![job[t].key] = t]
  /\ UNCHANGED <<clock, rows, rowLock, job, began, batch>>

Replay(t) ==
  /\ pc[t] = "begun" /\ AtKey(t) /\ job[t].key \in DOMAIN keyRow
  /\ End(t, IF job[keyRow[job[t].key]] = job[t] THEN "ok" ELSE "refused")
  /\ UNCHANGED rows

-----------------------------------------------------------------------------
(* createRequest and createSplit: every leg is a request like any other *)

Enqueued(r, kind, by) == outbox \cup {<<r, kind, by>>}

\* insertRequest and its event for every payer, the stored answer, and COMMIT.
InsertRequests(t) ==
  LET legs == {<<t, i>> : i \in DOMAIN job[t].bill} IN
    /\ request' = [r \in DOMAIN request \cup legs |->
         IF r \in legs THEN Pending(job[t].by, job[t].bill[r[2]], clock + Life) ELSE request[r]]
    /\ outbox' = outbox \cup {<<r, "REQUEST_CREATED", t>> : r \in legs}
    /\ keyRow' = With(keyRow, job[t].key, t)
    /\ End(t, "ok")
    /\ UNCHANGED settlement

CreateRequest(t) == pc[t] = "claimed" /\ job[t].op = "REQUEST" /\ InsertRequests(t)

CreateLegs(t) == pc[t] = "claimed" /\ job[t].op = "SPLIT" /\ InsertRequests(t)

-----------------------------------------------------------------------------
(* acceptRequest *)

\* Mutant: WHERE id = $1 only.
AnyStatus(r) == TRUE

\* The guard of every transition, evaluated on the row as it is once it is free.
StillPending(r) == request[r].status = "PENDING"

\* The WHERE clause of lockSettleableRequest; its now() is the transaction's start.
Settleable(t) ==
  LET r == job[t].id IN
    /\ request[r].payer = job[t].by
    /\ StillPending(r)
    /\ request[r].expires > began[t]

LockSettleableRequest(t) ==
  /\ pc[t] = "claimed" /\ job[t].op = "ACCEPT"
  /\ rowLock[job[t].id] = Nobody /\ Settleable(t)
  /\ rowLock' = [rowLock EXCEPT ![job[t].id] = t]
  /\ pc' = [pc EXCEPT ![t] = "locked"]
  /\ UNCHANGED <<clock, rows, keyLock, job, began, batch>>

\* postDoubleEntry, markAccepted, the event, the stored answer, and COMMIT.
Accept(t) ==
  /\ pc[t] = "locked" /\ job[t].op = "ACCEPT"
  /\ StillPending(job[t].id)
  /\ request' = [request EXCEPT ![job[t].id].status = "ACCEPTED",
                                ![job[t].id].settledBy = t]
  /\ settlement' = settlement \cup {<<job[t].id, t>>}
  /\ outbox' = Enqueued(job[t].id, "REQUEST_ACCEPTED", t)
  /\ keyRow' = With(keyRow, job[t].key, t)
  /\ End(t, "ok")

-----------------------------------------------------------------------------
(* terminate: decline by the payer, cancel by the requester *)

Outcome(op) == CASE op = "ACCEPT" -> "ACCEPTED"
                 [] op = "DECLINE" -> "DECLINED"
                 [] op = "CANCEL" -> "CANCELLED"

Event(op) == CASE op = "DECLINE" -> "REQUEST_DECLINED"
               [] op = "CANCEL" -> "REQUEST_CANCELLED"

IsActor(t) ==
  LET r == request[job[t].id] IN
    job[t].by = IF job[t].op = "DECLINE" THEN r.payer ELSE r.requester

\* The guarded UPDATE takes the row and keeps it until COMMIT.
Transition(t) ==
  /\ pc[t] = "begun" /\ job[t].op \in {"DECLINE", "CANCEL"}
  /\ rowLock[job[t].id] = Nobody
  /\ IsActor(t) /\ StillPending(job[t].id)
  /\ rowLock' = [rowLock EXCEPT ![job[t].id] = t]
  /\ pc' = [pc EXCEPT ![t] = "locked"]
  /\ UNCHANGED <<clock, rows, keyLock, job, began, batch>>

Terminate(t) ==
  /\ pc[t] = "locked" /\ job[t].op \in {"DECLINE", "CANCEL"}
  /\ request' = [request EXCEPT ![job[t].id].status = Outcome(job[t].op)]
  /\ outbox' = Enqueued(job[t].id, Event(job[t].op), t)
  /\ End(t, "ok")
  /\ UNCHANGED <<settlement, keyRow>>

\* Mutant: whoever ended the request, the caller hears of success.
AnyOutcome(t) == IsActor(t)

\* Repeating what already happened is success.
AlreadySo(t) == IsActor(t) /\ request[job[t].id].status = Outcome(job[t].op)

\* The UPDATE matches nothing, so it does not wait for the row either.
AnswerAgain(t) ==
  /\ pc[t] = "begun" /\ job[t].op \in {"DECLINE", "CANCEL"}
  /\ ~(IsActor(t) /\ StillPending(job[t].id))
  /\ End(t, IF AlreadySo(t) THEN "ok" ELSE "refused")
  /\ UNCHANGED rows

\* explainUnsettleable: a committed row that does not match is not waited for.
RefuseAccept(t) ==
  /\ pc[t] = "claimed" /\ job[t].op = "ACCEPT"
  /\ ~Settleable(t)
  /\ End(t, "refused")
  /\ UNCHANGED rows

\* A payer that cannot pay, an unknown participant, a timeout, a crash: ROLLBACK.
Abort(t) ==
  /\ pc[t] \in {"begun", "claimed", "locked"}
  /\ End(t, "refused") /\ UNCHANGED rows

-----------------------------------------------------------------------------
(* The expiry worker *)

\* Mutant: strictly before now(), as a timer that never fires on the instant.
DueStrictly == {r \in DOMAIN request :
                  StillPending(r) /\ request[r].expires < clock /\ rowLock[r] = Nobody}

\* FOR UPDATE SKIP LOCKED
Due == {r \in DOMAIN request :
          StillPending(r) /\ request[r].expires <= clock /\ rowLock[r] = Nobody}

\* The due rows that expired first, at most BatchSize of them.
Oldest(s) ==
  {b \in SUBSET s :
     /\ Cardinality(b) = IF Cardinality(s) < BatchSize THEN Cardinality(s) ELSE BatchSize
     /\ \A r \in b, q \in s \ b : request[r].expires <= request[q].expires}

ExpireDue(w) ==
  /\ batch[w] = {} /\ Due # {}
  /\ \E b \in Oldest(Due) :
       /\ batch' = [batch EXCEPT ![w] = b]
       /\ rowLock' = [r \in Request |-> IF r \in b THEN w ELSE rowLock[r]]
  /\ UNCHANGED <<clock, rows, keyLock, pc, job, began>>

EndRun(w) ==
  /\ batch' = [batch EXCEPT ![w] = {}]
  /\ rowLock' = [r \in Request |-> IF rowLock[r] = w THEN Nobody ELSE rowLock[r]]
  /\ UNCHANGED <<clock, keyLock, pc, job, began>>

\* expireRequests: the event of every row, and COMMIT.
CommitExpiry(w) ==
  /\ batch[w] # {}
  /\ request' = [r \in DOMAIN request |->
       IF r \in batch[w] THEN [request[r] EXCEPT !.status = "EXPIRED"] ELSE request[r]]
  /\ outbox' = outbox \cup {<<r, "REQUEST_EXPIRED", w>> : r \in batch[w]}
  /\ EndRun(w)
  /\ UNCHANGED <<settlement, keyRow>>

\* The process dies or the database is away: the run rolls back.
CrashRun(w) == batch[w] # {} /\ EndRun(w) /\ UNCHANGED rows

Tick == clock < MaxClock /\ clock' = clock + 1
        /\ UNCHANGED <<rows, keyLock, rowLock, pc, job, began, batch>>

Progress(t) ==
  \/ ClaimIdempotencyKey(t) \/ Replay(t) \/ CreateRequest(t) \/ CreateLegs(t)
  \/ LockSettleableRequest(t) \/ Accept(t) \/ RefuseAccept(t)
  \/ Transition(t) \/ Terminate(t) \/ AnswerAgain(t)

Next ==
  \/ \E t \in Txn : Begin(t) \/ Progress(t) \/ Abort(t)
  \/ \E w \in Worker : ExpireDue(w) \/ CommitExpiry(w) \/ CrashRun(w)
  \/ Tick

Spec == Init /\ [][Next]_vars

\* Begun transactions end; the worker's timer keeps firing and its runs do not crash
\* for ever.  Nothing is assumed about the users.
RequestsFairness ==
  /\ \A t \in Txn : WF_vars(Progress(t))
  /\ \A w \in Worker : WF_vars(ExpireDue(w)) /\ SF_vars(CommitExpiry(w))

FairSpec == Spec /\ RequestsFairness

-----------------------------------------------------------------------------
(* Properties *)

RequestType ==
  [status: {"PENDING", "ACCEPTED", "DECLINED", "CANCELLED", "EXPIRED"},
   requester: User, payer: User, expires: Nat, settledBy: Txn \cup {Nobody}]

\* Types, and every lock is held by someone who is at work.
TypeOK ==
  /\ clock \in 0 .. MaxClock
  /\ DOMAIN request \subseteq Request /\ request \in [DOMAIN request -> RequestType]
  /\ settlement \subseteq Request \X Txn
  /\ \A e \in outbox : e[1] \in DOMAIN request /\ e[3] \in Txn \cup Worker
  /\ DOMAIN keyRow \subseteq Key /\ keyRow \in [DOMAIN keyRow -> Txn]
  /\ \A k \in Key : keyLock[k] # Nobody => pc[keyLock[k]] \in {"claimed", "locked"}
  /\ \A r \in Request :
       \/ rowLock[r] = Nobody
       \/ rowLock[r] \in Txn /\ pc[rowLock[r]] = "locked"
       \/ rowLock[r] \in Worker /\ r \in batch[rowLock[r]]

Kind(status) == CASE status = "ACCEPTED" -> "REQUEST_ACCEPTED"
                  [] status = "DECLINED" -> "REQUEST_DECLINED"
                  [] status = "CANCELLED" -> "REQUEST_CANCELLED"
                  [] status = "EXPIRED" -> "REQUEST_EXPIRED"

\* Whoever accepts, declines, cancels or expires a request at the same time, it is
\* ACCEPTED exactly when it has been paid, it is paid once, by a call that came within
\* its validity (settled_iff_accepted), and people are told of the outcome it has, once.
SettledOnce ==
  \A r \in DOMAIN request :
    LET told == {e \in outbox : e[1] = r /\ e[2] # "REQUEST_CREATED"} IN
      /\ {t \in Txn : <<r, t>> \in settlement}
           = IF request[r].status = "ACCEPTED" THEN {request[r].settledBy} ELSE {}
      /\ request[r].status = "ACCEPTED" => began[request[r].settledBy] < request[r].expires
      /\ IF request[r].status = "PENDING" THEN told = {}
         ELSE Cardinality(told) = 1 /\ \A e \in told : e[2] = Kind(request[r].status)

\* Who is answered "done" finds it done: also a replay, a repeated decline or cancel,
\* and a caller that lost a race (request.service.ts, "repeating an action that already
\* happened is success").
AnswersAreTrue ==
  \A t \in Txn : pc[t] = "ok" /\ job[t].op \notin {"REQUEST", "SPLIT"} =>
    request[job[t].id].status = Outcome(job[t].op)

\* One key makes one request or one bill, with all its legs and the event of each,
\* however often it is submitted.
OneBillPerKey ==
  \A s, t \in Txn : <<s, 1>> \in DOMAIN request /\ <<t, 1>> \in DOMAIN request =>
    /\ job[s].key = job[t].key => s = t
    /\ \A i \in DOMAIN job[t].bill : /\ <<t, i>> \in DOMAIN request
                                     /\ <<<<t, i>>, "REQUEST_CREATED", t>> \in outbox

Overdue == {r \in DOMAIN request : StillPending(r) /\ request[r].expires <= clock}

\* Requests that nobody answers in time do not stay pending.
NothingStaysOverdue == Overdue # {} ~> Overdue = {}
=============================================================================
