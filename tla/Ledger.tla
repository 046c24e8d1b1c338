------------------------------- MODULE Ledger -------------------------------
(***************************************************************************)
(* The money path of TakaFlow as PostgreSQL executes it: each member of    *)
(* Txn is one database transaction (one attempt of one request), READ      *)
(* COMMITTED, whose writes become visible at COMMIT and whose locks are    *)
(* held until it ends.  A retry, by the client or by withTransaction, is   *)
(* another transaction with the same request, so a duplicate submission,   *)
(* a crash before COMMIT and an answer lost after it are all behaviours    *)
(* of this model.                                                          *)
(*                                                                         *)
(* Locks, in the order the code takes them: the index entry of the         *)
(* idempotency key, then the advisory lock of the sender (a payment) or    *)
(* the row of the original transfer (a reversal), then the two account     *)
(* rows in ascending id order.                                             *)
(***************************************************************************)
EXTENDS Integers

CONSTANTS
  Account, System, Txn, Key, Amount, Opening, InitStatus,  \* as in AbstractLedger
  Request,      \* the requests clients may make
  Nobody        \* the holder of a free lock

User == Account \ System

Send      == [op: {"P2P"}, key: Key, from: User, to: User, amount: Amount]
Reversal  == [op: {"REVERSAL"}, key: Key, by: User, of: Txn]
Register  == [op: {"MINT"}, user: User, from: System, amount: Amount]
SetFrozen == [op: {"STATUS"}, user: User, target: {"ACTIVE", "FROZEN"}]

Keyed == {"P2P", "REVERSAL"}

\* Who makes the request.
Actor(r) ==
  CASE r.op = "P2P" -> r.from
    [] r.op = "REVERSAL" -> r.by
    [] OTHER -> r.user

ASSUME LedgerAssumption ==
  /\ Account \subseteq Nat /\ System \subseteq Account
  /\ Amount \subseteq Nat \ {0}
  /\ Nobody \notin Txn
  /\ Opening \in [Account -> Int]
  /\ InitStatus \in [Account -> {"ABSENT", "ACTIVE", "FROZEN", "CLOSED"}]
  /\ \A a \in User : Opening[a] >= 0
  /\ Request \subseteq Send \cup Reversal \cup Register \cup SetFrozen

\* The UNIQUE (user_id, key) scope: a member of Key belongs to one user.
ASSUME KeyScope ==
  \A r, s \in Request :
    (r.op \in Keyed /\ s.op \in Keyed /\ r.key = s.key) => Actor(r) = Actor(s)

VARIABLES
  balance, status, transfer, keyRow,  \* committed rows, as in AbstractLedger
  keyLock,       \* Key -> the transaction whose uncommitted INSERT holds the key
  velocityLock,  \* User -> the holder of pg_advisory_xact_lock(account)
  transferLock,  \* Txn -> the transaction that updated that transfer's row
  accountLock,   \* Account -> the holder of the row (FOR UPDATE, or its INSERT)
  pc,            \* how far each transaction is
  call,          \* its request
  leg,           \* its movement: who pays whom how much
  after          \* the balances it computed under the locks

rows  == <<balance, status, transfer, keyRow>>
locks == <<keyLock, velocityLock, transferLock, accountLock>>
local == <<call, leg, after>>
vars  == <<rows, locks, pc, local>>

With(f, k, v) == [x \in DOMAIN f \cup {k} |-> IF x = k THEN v ELSE f[x]]

NoLeg   == [from |-> 0, to |-> 0, amount |-> 0]
NoCall  == [op |-> "NONE"]
NoAfter == [from |-> 0, to |-> 0]

Init ==
  /\ balance = Opening /\ status = InitStatus
  /\ transfer = << >> /\ keyRow = << >>
  /\ keyLock = [k \in Key |-> Nobody]
  /\ velocityLock = [a \in User |-> Nobody]
  /\ transferLock = [t \in Txn |-> Nobody]
  /\ accountLock = [a \in Account |-> Nobody]
  /\ pc = [t \in Txn |-> "idle"]
  /\ call = [t \in Txn |-> NoCall]
  /\ leg = [t \in Txn |-> NoLeg]
  /\ after = [t \in Txn |-> NoAfter]

Live == {"begun", "claimed", "loaded", "gated", "first", "both", "posted"}
Over == {"committed", "replayed", "refused", "aborted"}

-----------------------------------------------------------------------------
(* Locks *)

Freed(lock, t) == [x \in DOMAIN lock |-> IF lock[x] = t THEN Nobody ELSE lock[x]]

\* COMMIT and ROLLBACK both end the transaction and drop every lock it holds.
End(t, outcome) ==
  /\ pc' = [pc EXCEPT ![t] = outcome]
  /\ keyLock' = Freed(keyLock, t)
  /\ velocityLock' = Freed(velocityLock, t)
  /\ transferLock' = Freed(transferLock, t)
  /\ accountLock' = Freed(accountLock, t)
  /\ UNCHANGED local

Step(t, from, to) == pc[t] = from /\ pc' = [pc EXCEPT ![t] = to]

\* Mutant: a plain SELECT, without FOR UPDATE.
TakesWithoutWaiting(lock, x, t) == lock' = [lock EXCEPT ![x] = t]

\* A row lock is granted when nobody else holds it.
Takes(lock, x, t) ==
  /\ lock[x] \in {Nobody, t}
  /\ lock' = [lock EXCEPT ![x] = t]

\* Mutant: the payer's row first.
PayerFirst(l) == <<l.from, l.to>>

\* The order in which lockAccountPair takes the two rows.
LockOrder(l) == IF l.from < l.to THEN <<l.from, l.to>> ELSE <<l.to, l.from>>

-----------------------------------------------------------------------------
(* A request reaches the service and its transaction begins *)

\* requireActiveAccount looks at the account without a lock, before the transaction.
Admitted(r) ==
  /\ r.op \in Keyed => status[Actor(r)] = "ACTIVE"
  /\ r.op = "STATUS" => status[r.user] # "ABSENT"
  /\ r.op = "REVERSAL" => r.of \in DOMAIN transfer  \* a reference exists once committed

Begin(t) ==
  /\ Step(t, "idle", "begun")
  /\ \E r \in Request : Admitted(r) /\ call' = [call EXCEPT ![t] = r]
  /\ UNCHANGED <<rows, locks, leg, after>>

-----------------------------------------------------------------------------
(* claimIdempotencyKey *)

\* Mutant: the request hash is not compared.
AnyRequest(t, u) == TRUE

\* The stored hash is that of the request that executed under the key.
SameRequest(t, u) == call[t] = call[u]

\* Mutant: look the key up first instead of inserting it, so nothing waits.
AtKeyWithoutWaiting(t) == call[t].op \in Keyed

\* INSERT ... ON CONFLICT DO NOTHING waits for an uncommitted duplicate.
AtKey(t) == call[t].op \in Keyed /\ keyLock[call[t].key] = Nobody

ClaimIdempotencyKey(t) ==
  /\ AtKey(t) /\ call[t].key \notin DOMAIN keyRow
  /\ Step(t, "begun", "claimed")
  /\ keyLock' = [keyLock EXCEPT ![call[t].key] = t]
  /\ UNCHANGED <<rows, velocityLock, transferLock, accountLock, local>>

\* The key is executed: answer with what is stored, or refuse another payload.
Replay(t) ==
  /\ pc[t] = "begun" /\ AtKey(t)
  /\ call[t].key \in DOMAIN keyRow
  /\ \/ SameRequest(t, keyRow[call[t].key]) /\ End(t, "replayed")
     \/ ~SameRequest(t, keyRow[call[t].key]) /\ End(t, "refused")
  /\ UNCHANGED rows

-----------------------------------------------------------------------------
(* What each kind of movement does before it locks the accounts *)

\* sendMoney: the sender's advisory lock, then the payee must be registered.
EnforceVelocity(t) ==
  /\ call[t].op = "P2P"
  /\ Step(t, "claimed", "gated")
  /\ status[call[t].to] # "ABSENT" /\ call[t].to # call[t].from
  /\ Takes(velocityLock, call[t].from, t)
  /\ leg' = [leg EXCEPT ![t] =
       [from |-> call[t].from, to |-> call[t].to, amount |-> call[t].amount]]
  /\ UNCHANGED <<rows, keyLock, transferLock, accountLock, call, after>>

\* reverseTransfer: the original, read without a lock.
Reversible(t) ==
  LET o == transfer[call[t].of] IN
    o.from = call[t].by /\ o.type \notin {"MINT", "REVERSAL"} /\ o.status = "COMPLETED"

LoadOriginal(t) ==
  /\ call[t].op = "REVERSAL"
  /\ Step(t, "claimed", "loaded")
  /\ Reversible(t)
  /\ LET o == transfer[call[t].of] IN
     leg' = [leg EXCEPT ![t] = [from |-> o.to, to |-> o.from, amount |-> o.amount]]
  /\ UNCHANGED <<rows, locks, call, after>>

\* Mutant: the UPDATE names the row by id only.
AssumedCompleted(t) == TRUE

\* UPDATE ... WHERE status = 'COMPLETED' looks at the row again after waiting for it.
StillCompleted(t) == transfer[call[t].of].status = "COMPLETED"

MarkReversed(t) ==
  /\ Step(t, "loaded", "gated")
  /\ StillCompleted(t)
  /\ Takes(transferLock, call[t].of, t)
  /\ UNCHANGED <<rows, keyLock, velocityLock, accountLock, local>>

\* register: the INSERT of user and account; the unique phone makes a rival wait.
InsertAccount(t) ==
  /\ call[t].op = "MINT"
  /\ Step(t, "begun", "gated")
  /\ status[call[t].user] = "ABSENT"
  /\ Takes(accountLock, call[t].user, t)
  /\ leg' = [leg EXCEPT ![t] =
       [from |-> call[t].from, to |-> call[t].user, amount |-> call[t].amount]]
  /\ UNCHANGED <<rows, keyLock, velocityLock, transferLock, call, after>>

-----------------------------------------------------------------------------
(* postDoubleEntry *)

FirstLock(t)  == LockOrder(leg[t])[1]
SecondLock(t) == LockOrder(leg[t])[2]

LockFirst(t) ==
  /\ Step(t, "gated", "first")
  /\ Takes(accountLock, FirstLock(t), t)
  /\ UNCHANGED <<rows, keyLock, velocityLock, transferLock, local>>

LockSecond(t) ==
  /\ Step(t, "first", "both")
  /\ Takes(accountLock, SecondLock(t), t)
  /\ UNCHANGED <<rows, keyLock, velocityLock, transferLock, local>>

\* Mutant: the freeze is only looked at before the transaction.
FundsOnly(t) == leg[t].from \in System \/ balance[leg[t].from] >= leg[t].amount

\* The checks made under both locks.
Payable(t) ==
  LET m == leg[t] IN
    /\ status[m.from] = "ACTIVE"
    /\ status[m.to] # "CLOSED"
    /\ m.from \in System \/ balance[m.from] >= m.amount

\* The balances the entries will record, computed from the locked rows.
PostDoubleEntry(t) ==
  /\ call[t].op # "STATUS"
  /\ Step(t, "both", "posted")
  /\ Payable(t)
  /\ after' = [after EXCEPT ![t] =
       [from |-> balance[leg[t].from] - leg[t].amount,
        to   |-> balance[leg[t].to] + leg[t].amount]]
  /\ UNCHANGED <<rows, locks, call, leg>>

\* The transfer and its DEBIT and CREDIT entries.
Row(t) ==
  [type |-> call[t].op, status |-> "COMPLETED",
   from |-> leg[t].from, to |-> leg[t].to, amount |-> leg[t].amount,
   fromAfter |-> after[t].from, toAfter |-> after[t].to]

\* Mutant: the payee's UPDATE is lost.
DebitOnly(t) == [balance EXCEPT ![leg[t].from] = @ - leg[t].amount]

\* The two balance UPDATEs.
Moved(t) ==
  [balance EXCEPT ![leg[t].from] = @ - leg[t].amount,
                  ![leg[t].to] = @ + leg[t].amount]

\* A reversal marked the original in the same transaction.
Marked(t) ==
  IF call[t].op = "REVERSAL"
  THEN [transfer EXCEPT ![call[t].of].status = "REVERSED"]
  ELSE transfer

\* Mutant: the response is not stored.
NeverAnswered(t) == keyRow

\* completeIdempotencyKey: the key is answered by the commit that moves the money.
Answered(t) == IF call[t].op \in Keyed THEN With(keyRow, call[t].key, t) ELSE keyRow

\* COMMIT makes everything the transaction wrote visible at once.
Commit(t) ==
  /\ pc[t] = "posted"
  /\ balance' = Moved(t)
  /\ transfer' = With(Marked(t), t, Row(t))
  /\ keyRow' = Answered(t)
  /\ status' = IF call[t].op = "MINT"
               THEN [status EXCEPT ![leg[t].to] = "ACTIVE"] ELSE status
  /\ End(t, "committed")

-----------------------------------------------------------------------------
(* setOwnFreeze and setAccountStatus *)

LockOwnAccount(t) ==
  /\ call[t].op = "STATUS"
  /\ Step(t, "begun", "both")
  /\ Takes(accountLock, call[t].user, t)
  /\ UNCHANGED <<rows, keyLock, velocityLock, transferLock, local>>

SetAccountStatus(t) ==
  /\ pc[t] = "both" /\ call[t].op = "STATUS"
  /\ status[call[t].user] # "CLOSED"
  /\ status' = [status EXCEPT ![call[t].user] = call[t].target]
  /\ End(t, "committed")
  /\ UNCHANGED <<balance, transfer, keyRow>>

-----------------------------------------------------------------------------
(* Refusals and failures *)

\* A business rule says no: the transaction rolls back and nothing is stored,
\* neither the money nor the key.
Refused(t) ==
  \/ /\ pc[t] = "begun" /\ call[t].op = "MINT"     \* the phone is taken
     /\ status[call[t].user] # "ABSENT" /\ accountLock[call[t].user] = Nobody
  \/ /\ pc[t] = "claimed" /\ call[t].op = "P2P"    \* no payee, or a limit is reached
  \/ /\ pc[t] = "claimed" /\ call[t].op = "REVERSAL"  \* not reversible, or too late
  \/ /\ pc[t] = "loaded" /\ ~StillCompleted(t)
     /\ transferLock[call[t].of] = Nobody
  \/ /\ pc[t] = "both" /\ call[t].op # "STATUS" /\ ~Payable(t)
  \/ /\ pc[t] = "both" /\ call[t].op = "STATUS" /\ status[call[t].user] = "CLOSED"

Refuse(t) == Refused(t) /\ End(t, "refused") /\ UNCHANGED rows

\* Lock timeout, statement timeout, deadline, or the process died: ROLLBACK.
Abort(t) == pc[t] \in Live /\ End(t, "aborted") /\ UNCHANGED rows

Progress(t) ==
  \/ ClaimIdempotencyKey(t) \/ Replay(t)
  \/ EnforceVelocity(t) \/ LoadOriginal(t) \/ MarkReversed(t) \/ InsertAccount(t)
  \/ LockFirst(t) \/ LockSecond(t) \/ PostDoubleEntry(t) \/ Commit(t)
  \/ LockOwnAccount(t) \/ SetAccountStatus(t)
  \/ Refuse(t)

Next == \E t \in Txn : Begin(t) \/ Progress(t) \/ Abort(t)

Spec == Init /\ [][Next]_vars

-----------------------------------------------------------------------------
(* Properties *)

RowType ==
  [type: {"P2P", "REVERSAL", "MINT"}, status: {"COMPLETED", "REVERSED"},
   from: Account, to: Account, amount: Amount, fromAfter: Int, toAfter: Int]

LegType == [from: Account, to: Account, amount: Amount]

\* Every variable has its type; a transaction past its gate knows its movement,
\* and only committed transactions have posted a transfer.
TypeOK ==
  /\ balance \in [Account -> Int]
  /\ status \in [Account -> {"ABSENT", "ACTIVE", "FROZEN", "CLOSED"}]
  /\ DOMAIN transfer \subseteq Txn /\ transfer \in [DOMAIN transfer -> RowType]
  /\ DOMAIN keyRow \subseteq Key /\ keyRow \in [DOMAIN keyRow -> Txn]
  /\ keyLock \in [Key -> Txn \cup {Nobody}]
  /\ velocityLock \in [User -> Txn \cup {Nobody}]
  /\ transferLock \in [Txn -> Txn \cup {Nobody}]
  /\ accountLock \in [Account -> Txn \cup {Nobody}]
  /\ pc \in [Txn -> {"idle"} \cup Live \cup Over]
  /\ call \in [Txn -> Request \cup {NoCall}]
  /\ leg \in [Txn -> LegType \cup {NoLeg}]
  /\ after \in [Txn -> [from: Int, to: Int]]

\* No user's committed balance is ever negative, whatever payments, reversals and
\* retries run at the same time (postDoubleEntry checks funds under the row lock).
FundsNeverNegative == \A a \in User : balance[a] >= 0

\* A key's committed row and the transfer made under it exist together or not at
\* all, and two transfers are never made under one key, however often the request
\* is submitted, retried or cut off by a crash (idempotency/store.ts).
ExactlyOnce ==
  /\ \A k \in DOMAIN keyRow :
       keyRow[k] \in DOMAIN transfer /\ call[keyRow[k]].key = k
  /\ \A t \in DOMAIN transfer :
       call[t].op \in Keyed => /\ call[t].key \in DOMAIN keyRow
                               /\ keyRow[call[t].key] = t

\* A client told that its request had already been executed is told the truth: a
\* transfer with exactly that payload stands in the ledger.
ReplayTellsTruth ==
  \A t \in Txn : pc[t] = "replayed" => \E u \in DOMAIN transfer : call[u] = call[t]

\* A transfer is marked REVERSED exactly when one compensating transfer exists for
\* it, and it never has two (the guarded UPDATE of reverseTransfer).
Compensations(o) == {t \in DOMAIN transfer : call[t].op = "REVERSAL" /\ call[t].of = o}

ReversedOnce ==
  \A o \in DOMAIN transfer :
    /\ transfer[o].status = "REVERSED" <=> Compensations(o) # {}
    /\ \A t, u \in Compensations(o) : t = u

\* t waits for a lock that u holds.
WaitsFor(t, u) ==
  LET c == call[t] IN
  \/ pc[t] = "begun" /\ c.op \in Keyed /\ keyLock[c.key] = u
  \/ pc[t] = "begun" /\ c.op \in {"MINT", "STATUS"} /\ accountLock[c.user] = u
  \/ pc[t] = "claimed" /\ c.op = "P2P" /\ velocityLock[c.from] = u
  \/ pc[t] = "loaded" /\ transferLock[c.of] = u
  \/ pc[t] = "gated" /\ accountLock[FirstLock(t)] = u
  \/ pc[t] = "first" /\ accountLock[SecondLock(t)] = u

\* No transactions wait for each other in a circle, so the database never has to
\* kill one as a deadlock victim (lockAccountPair's ascending order): every group
\* has a member that waits for nobody in it.
NoDeadlock ==
  \A group \in (SUBSET Txn) \ {{}} :
    \E t \in group : \A u \in group \ {t} : ~WaitsFor(t, u)

\* No step takes money from an account that is not ACTIVE at that moment: a freeze
\* that has committed is never overtaken by a payment already under way
\* (account.service.ts, "no interleaving where a frozen account pays out").
FrozenNeverPays ==
  [][\A a \in Account : balance'[a] < balance[a] => status[a] = "ACTIVE"]_vars

\* The balance_after of both entries is the balance their transaction commits.
AfterImagesTrue ==
  [][\A t \in DOMAIN transfer' \ DOMAIN transfer :
       /\ transfer'[t].fromAfter = balance'[transfer'[t].from]
       /\ transfer'[t].toAfter = balance'[transfer'[t].to]]_vars

\* Seen from outside, the locks and transactions disappear: every commit is one
\* indivisible step of AbstractLedger, everything else is invisible.
Promise ==
  INSTANCE AbstractLedger WITH
    balance <- balance, status <- status, transfer <- transfer, keyRow <- keyRow
ImplementsPromise == Promise!Spec
=============================================================================
