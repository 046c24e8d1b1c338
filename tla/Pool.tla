-------------------------------- MODULE Pool --------------------------------
(***************************************************************************)
(* The connections of one process.  A request reads with a connection of   *)
(* its own for one statement, then runs a transaction on another, which it *)
(* holds while it waits for a row, while its after-commit hooks run and    *)
(* while it backs off before a retry.  Whoever finds no connection queues. *)
(*                                                                         *)
(* The requests are those of acceptRequest, all for one request row; they  *)
(* stand for every handler that checks a PIN and then moves money.         *)
(***************************************************************************)
EXTENDS Integers, Sequences, FiniteSets

CONSTANTS
  Handler,
  PoolMax,        \* PG_POOL_MAX
  Attempts        \* maxAttempts of withTransaction

ASSUME PoolAssumption == PoolMax \in Nat \ {0} /\ Attempts \in Nat \ {0}

VARIABLES
  at,             \* where each handler is
  tries,          \* the attempts its transaction has begun
  queue           \* who waits for a connection, first come first

poolVars == <<at, tries, queue>>

PoolInit ==
  /\ at = [h \in Handler |-> "NEW"]
  /\ tries = [h \in Handler |-> 0]
  /\ queue = <<>>

Goes(h, from, to) ==
  /\ at[h] \in from
  /\ at' = [at EXCEPT ![h] = to]

-----------------------------------------------------------------------------
(* The pool *)

OnlyOne == {"QUERYING", "BEGUN", "OWNER", "READY", "COMMITTED", "ROLLED_BACK"}

Used ==
  Cardinality({h \in Handler : at[h] \in OnlyOne})
    + 2 * Cardinality({h \in Handler : at[h] = "LOOKING"})

Queues(h) == \E i \in DOMAIN queue : queue[i] = h

\* Mutant: a repository that reaches for the pool inside a transaction.
FromThePool == TRUE

\* A repository that reads inside a transaction is handed the transaction.
LooksUpOnItsOwn == FALSE

\* pool.connect(), or pool.query() which does it for one statement.
Connect(h) ==
  /\ ~Queues(h)
  /\ at[h] \in {"NEW", "CHECKED"} \cup (IF LooksUpOnItsOwn THEN {"OWNER"} ELSE {})
  /\ queue' = Append(queue, h)
  /\ UNCHANGED <<at, tries>>

Granted == [NEW |-> "QUERYING", CHECKED |-> "BEGUN", OWNER |-> "LOOKING"]

\* External: node-postgres hands a connection to the first in the queue.
Grant ==
  /\ queue # <<>>
  /\ Used < PoolMax
  /\ LET h == Head(queue) IN
       /\ at' = [at EXCEPT ![h] = Granted[@]]
       /\ tries' = IF at[h] = "CHECKED" THEN [tries EXCEPT ![h] = @ + 1] ELSE tries
  /\ queue' = Tail(queue)

\* connectionTimeoutMillis: the wait ends in an error, and so does the handler.
ConnectTimesOut(h) ==
  /\ Queues(h)
  /\ queue' = SelectSeq(queue, LAMBDA w : w # h)
  /\ at' = [at EXCEPT ![h] = "FAILED"]
  /\ UNCHANGED tries

-----------------------------------------------------------------------------
(* A handler *)

\* verifyPin's read; a wrong PIN ends the handler.
Queried(h) ==
  /\ Goes(h, {"QUERYING"}, "CHECKED") \/ Goes(h, {"QUERYING"}, "FAILED")
  /\ UNCHANGED <<tries, queue>>

\* lockSettleableRequest, which waits for whoever has the row.
LockRow(h) ==
  /\ \A g \in Handler : at[g] \notin {"OWNER", "LOOKING", "READY"}
  /\ Goes(h, {"BEGUN"}, "OWNER")
  /\ UNCHANGED <<tries, queue>>

\* findUserById(..., tx), on the connection the transaction has.
LookUp(h) ==
  /\ Goes(h, IF LooksUpOnItsOwn THEN {"LOOKING"} ELSE {"OWNER"}, "READY")
  /\ UNCHANGED <<tries, queue>>

CommitTx(h) == Goes(h, {"READY"}, "COMMITTED") /\ UNCHANGED <<tries, queue>>

\* The hooks have run, one after the other, whether they failed or not.
ReleaseConn(h) == Goes(h, {"COMMITTED"}, "DONE") /\ UNCHANGED <<tries, queue>>

\* A deadlock or a serialization failure: rolled back, the connection kept ...
Conflict(h) ==
  /\ tries[h] < Attempts /\ ~Queues(h)
  /\ Goes(h, {"BEGUN", "OWNER", "LOOKING", "READY"}, "ROLLED_BACK")
  /\ UNCHANGED <<tries, queue>>

\* ... until the pause is over.
BackedOff(h) == Goes(h, {"ROLLED_BACK"}, "CHECKED") /\ UNCHANGED <<tries, queue>>

\* Any other error, a refusal, a timeout of the database, the deadline.
Fails(h) ==
  /\ ~Queues(h)
  /\ Goes(h, {"BEGUN", "OWNER", "LOOKING", "READY"}, "FAILED")
  /\ UNCHANGED <<tries, queue>>

\* A request comes: verifyPin reads its row.
Comes(h) == at[h] = "NEW" /\ Connect(h)

Proceeds(h) ==
  (at[h] # "NEW" /\ Connect(h)) \/ Queried(h) \/ LockRow(h) \/ LookUp(h) \/ CommitTx(h)
    \/ ReleaseConn(h) \/ BackedOff(h)

PoolNext ==
  \/ Grant
  \/ \E h \in Handler :
       Comes(h) \/ Proceeds(h) \/ Conflict(h) \/ Fails(h) \/ ConnectTimesOut(h)

\* Handlers that have come go on, and lock a free row; free connections are handed
\* out.  No timeout is relied on.
PoolFairness ==
  /\ WF_poolVars(Grant)
  /\ \A h \in Handler : WF_poolVars(Proceeds(h))

PoolSpec == PoolInit /\ [][PoolNext]_poolVars /\ PoolFairness

-----------------------------------------------------------------------------
(* Properties *)

PoolTypeOK ==
  /\ at \in [Handler -> {"NEW", "CHECKED", "LOOKING", "DONE", "FAILED"} \cup OnlyOne]
  /\ tries \in [Handler -> 0..Attempts]
  /\ queue \in Seq(Handler)
  /\ Used <= PoolMax

\* Whoever comes gets its connections, each time, and is done, and no timeout is
\* needed for it: however small the pool, it never fills up with transactions that
\* hold a row and wait for a second connection while others wait for the row
\* (auth.repo.ts:7-11, "We shipped that bug"; transaction.ts:28-35).
EveryoneIsServed == \A h \in Handler : Queues(h) ~> at[h] \in {"DONE", "FAILED"}
=============================================================================
