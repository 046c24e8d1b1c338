--------------------------- MODULE RequestsProofs ---------------------------
(***************************************************************************)
(* Proofs about MoneyRequests: what the rows, the events and the answers   *)
(* say of each other, for any users, requests, bills, keys, number of      *)
(* transactions and of processes that expire what is due; and about        *)
(* Splits: the shares of a bill of any amount, between any number of       *)
(* people with any weights.                                                *)
(***************************************************************************)
EXTENDS MoneyRequests, Splits, Sums

-----------------------------------------------------------------------------
(* The inductive invariant *)

Creates == {"REQUEST", "SPLIT"}
Answers == {"ACCEPT", "DECLINE", "CANCEL"}
Stages == {"idle", "begun", "claimed", "locked", "ok", "refused"}

Asking == [op: Creates, key: Key, by: User, bill: Bills]
Accepting == [op: {"ACCEPT"}, key: Key, by: User, id: Request]
Ending == [op: {"DECLINE", "CANCEL"}, by: User, id: Request]

EventType ==
  Request \X {"REQUEST_CREATED", "REQUEST_ACCEPTED", "REQUEST_DECLINED",
              "REQUEST_CANCELLED", "REQUEST_EXPIRED"} \X (Txn \cup Worker)

Types ==
  /\ clock \in Nat
  /\ DOMAIN request \subseteq Request /\ request \in [DOMAIN request -> RequestType]
  /\ settlement \subseteq (DOMAIN request) \X Txn
  /\ outbox \subseteq EventType /\ \A e \in outbox : e[1] \in DOMAIN request
  /\ DOMAIN keyRow \subseteq Key /\ keyRow \in [DOMAIN keyRow -> Txn]
  /\ keyLock \in [Key -> Txn \cup {Nobody}]
  /\ rowLock \in [Request -> Txn \cup Worker \cup {Nobody}]
  /\ pc \in [Txn -> Stages]
  /\ job \in [Txn -> Asking \cup Accepting \cup Ending \cup {NoJob}]
  /\ began \in [Txn -> Nat]
  /\ batch \in [Worker -> SUBSET Request]

\* What a transaction at each stage has found, holds and has been told.
Held(t) ==
  /\ pc[t] = "idle" <=> job[t].op = "NONE"
  /\ pc[t] = "claimed" => job[t].op \in Keyed
  /\ (pc[t] \in {"claimed", "locked"} /\ job[t].op \in Keyed) =>
       keyLock[job[t].key] = t /\ job[t].key \notin DOMAIN keyRow
  /\ pc[t] = "locked" => job[t].op \in Answers /\ rowLock[job[t].id] = t
  /\ job[t].op \in Answers => job[t].id \in DOMAIN request
  /\ (pc[t] = "locked" /\ job[t].op = "ACCEPT") => began[t] < request[job[t].id].expires
  /\ (pc[t] = "ok" /\ job[t].op \in Answers) =>
       request[job[t].id].status = Outcome(job[t].op)

\* A key in the table is that of the committed transaction that used it.
KeysUsed ==
  \A k \in DOMAIN keyRow :
    pc[keyRow[k]] = "ok" /\ job[keyRow[k]].op \in Keyed /\ job[keyRow[k]].key = k

\* A held row is pending; the holder is answering it, or expiring it.
RowsHeld ==
  /\ \A r \in Request : rowLock[r] # Nobody =>
       /\ r \in DOMAIN request /\ StillPending(r)
       /\ rowLock[r] \in Txn => pc[rowLock[r]] = "locked" /\ job[rowLock[r]].id = r
  /\ \A w \in Worker : \A r \in batch[w] : rowLock[r] = w

\* The rows of a bill come with all their legs, their events and the stored answer.
Billed(t) ==
  /\ pc[t] = "ok" /\ job[t].op \in Creates
  /\ job[t].key \in DOMAIN keyRow /\ keyRow[job[t].key] = t
  /\ \A i \in DOMAIN job[t].bill :
       <<t, i>> \in DOMAIN request /\ <<<<t, i>>, "REQUEST_CREATED", t>> \in outbox

BillsWhole ==
  \A r \in DOMAIN request \ Standing : \E t \in Txn : \E i \in Nat : r = <<t, i>> /\ Billed(t)

\* Settled and told as its status says (SettledOnce), the one event with its author.
Told(r) == {e \in outbox : e[1] = r /\ e[2] # "REQUEST_CREATED"}

Ended(r) ==
  /\ {t \in Txn : <<r, t>> \in settlement}
       = IF request[r].status = "ACCEPTED" THEN {request[r].settledBy} ELSE {}
  /\ request[r].status = "ACCEPTED" =>
       /\ request[r].settledBy \in Txn /\ pc[request[r].settledBy] = "ok"
       /\ began[request[r].settledBy] < request[r].expires
  /\ StillPending(r) => Told(r) = {}
  /\ ~ StillPending(r) => \E by \in Txn \cup Worker :
                            Told(r) = {<<r, Kind(request[r].status), by>>}

RequestsInv ==
  /\ Types
  /\ \A t \in Txn : Held(t)
  /\ KeysUsed /\ RowsHeld /\ BillsWhole
  /\ \A r \in DOMAIN request : Ended(r)

-----------------------------------------------------------------------------
(* Lemmas *)

\* Each kind of call is recognised by its op.
LEMMA Kinds ==
  ASSUME NEW j \in Asking \cup Accepting \cup Ending \cup {NoJob}
  PROVE  /\ j.op \in Creates \cup Answers \cup {"NONE"}
         /\ j.op \in Creates => j \in Asking
         /\ j.op = "ACCEPT" => j \in Accepting
         /\ j.op \in {"DECLINE", "CANCEL"} => j \in Ending
         /\ j.op = "NONE" => j = NoJob
         /\ j.op \in Keyed => j.key \in Key
         /\ j.op \in Answers => j.id \in Request
BY DEF Asking, Accepting, Ending, NoJob, Creates, Answers, Keyed

\* What a transaction has found stays so while others take what is free, add rows and
\* end pending ones.
LEMMA OthersHeld ==
  ASSUME Types, NEW u \in Txn, Held(u),
         pc'[u] = pc[u], job'[u] = job[u], began'[u] = began[u],
         \A k \in Key : keyLock[k] = u => keyLock'[k] = u,
         \A r \in Request : rowLock[r] = u => rowLock'[r] = u,
         \A k \in DOMAIN keyRow' : k \in DOMAIN keyRow \/ keyLock[k] # u,
         DOMAIN request \subseteq DOMAIN request',
         \A r \in DOMAIN request :
           /\ request'[r].expires = request[r].expires
           /\ ~ StillPending(r) => request'[r].status = request[r].status
  PROVE  Held(u)'
<1>1. job[u].op \in Keyed => job[u].key \in Key
  BY Kinds DEF Types
<1>2. job[u].op \in Answers => job[u].id \in Request
  BY Kinds DEF Types
<1>3. job[u].op \in Answers => Outcome(job[u].op) # "PENDING"
  BY DEF Answers, Outcome
<1>. QED
  BY <1>1, <1>2, <1>3 DEF Held, StillPending, Answers

\* The end of a transaction: its locks are free, all others stay.
LEMMA EndFrees ==
  ASSUME Types, NEW t \in Txn, NEW outcome \in {"ok", "refused"}, End(t, outcome)
  PROVE  /\ pc' \in [Txn -> Stages] /\ pc'[t] = outcome
         /\ \A u \in Txn \ {t} : pc'[u] = pc[u]
         /\ keyLock' \in [Key -> Txn \cup {Nobody}]
         /\ \A k \in Key : keyLock[k] # t => keyLock'[k] = keyLock[k]
         /\ rowLock' \in [Request -> Txn \cup Worker \cup {Nobody}]
         /\ \A r \in Request : rowLock[r] # t => rowLock'[r] = rowLock[r]
         /\ \A r \in Request : rowLock[r] = t => rowLock'[r] = Nobody
         /\ UNCHANGED <<clock, job, began, batch>>
BY DEF Types, End, Stages

\* Nobody holds a row after its holder's end unless he did before.
LEMMA EndRowsHeld ==
  ASSUME Types, RowsHeld, NEW t \in Txn, NEW outcome \in {"ok", "refused"}, End(t, outcome),
         DOMAIN request \subseteq DOMAIN request',
         \A r \in DOMAIN request : rowLock[r] # t /\ rowLock[r] # Nobody
                                     => request'[r].status = request[r].status
  PROVE  RowsHeld'
<1>1. /\ pc'[t] = outcome
      /\ \A u \in Txn \ {t} : pc'[u] = pc[u]
      /\ \A r \in Request : rowLock[r] # t => rowLock'[r] = rowLock[r]
      /\ \A r \in Request : rowLock[r] = t => rowLock'[r] = Nobody
      /\ UNCHANGED <<job, batch>>
  BY EndFrees
<1>2. \A w \in Worker : w # t
  BY RequestsAssumption
<1>. QED
  BY <1>1, <1>2 DEF RowsHeld, StillPending, Types

\* Rows, events and stored answers that nobody touches keep saying what they said.
LEMMA RowsKept ==
  ASSUME RequestsInv, UNCHANGED rows,
         \A t \in Txn : pc[t] = "ok" =>
           pc'[t] = "ok" /\ job'[t] = job[t] /\ began'[t] = began[t]
  PROVE  KeysUsed' /\ BillsWhole' /\ \A r \in DOMAIN request' : Ended(r)'
<1>1. KeysUsed'
  BY DEF RequestsInv, Types, KeysUsed, rows
<1>2. BillsWhole'
  <2>1. \A t \in Txn : Billed(t) => Billed(t)'
    BY DEF Billed, rows
  <2>. QED
    BY <2>1 DEF RequestsInv, BillsWhole, rows
<1>3. \A r \in DOMAIN request : Ended(r) => Ended(r)'
  BY DEF Ended, Told, StillPending, rows
<1>. QED
  BY <1>1, <1>2, <1>3 DEF RequestsInv, rows

\* A row that keeps its value and gets no event and no settlement.
LEMMA RowKept ==
  ASSUME NEW r \in DOMAIN request, Ended(r),
         request'[r] = request[r],
         \A t \in Txn : <<r, t>> \in settlement' <=> <<r, t>> \in settlement,
         Told(r)' = Told(r),
         \A t \in Txn : pc[t] = "ok" => pc'[t] = "ok" /\ began'[t] = began[t]
  PROVE  Ended(r)'
BY DEF Ended, StillPending

-----------------------------------------------------------------------------
(* Steps that leave the rows alone *)

LEMMA InitRequestsInv == Init => RequestsInv
<1>. SUFFICES ASSUME Init PROVE RequestsInv
  OBVIOUS
<1>1. Types
  <2>1. Standing \subseteq Request
    BY DEF Request
  <2>2. request \in [Standing -> RequestType]
    BY RequestsAssumption DEF Init, Pending, RequestType
  <2>3. DOMAIN request = Standing
    BY DEF Init
  <2>4. keyRow \in [DOMAIN keyRow -> Txn] /\ DOMAIN keyRow = {}
    BY DEF Init
  <2>. QED
    BY <2>1, <2>2, <2>3, <2>4 DEF Init, Types, Stages
<1>2. \A t \in Txn : Held(t)
  BY DEF Init, Held, NoJob, Keyed, Answers
<1>3. DOMAIN keyRow = {} /\ KeysUsed
  BY DEF Init, KeysUsed
<1>4. RowsHeld /\ BillsWhole
  BY DEF Init, RowsHeld, BillsWhole
<1>5. \A r \in DOMAIN request : Ended(r)
  BY DEF Init, Ended, Told, StillPending, Pending
<1>. QED
  BY <1>1, <1>2, <1>3, <1>4, <1>5 DEF RequestsInv

\* A transaction that ends without a write: it was told the truth.
LEMMA QuietEnd ==
  ASSUME RequestsInv, UNCHANGED rows, NEW t \in Txn, pc[t] \in {"begun", "claimed", "locked"},
         NEW outcome \in {"ok", "refused"}, End(t, outcome),
         (outcome = "ok" /\ job[t].op \in Answers) =>
           request[job[t].id].status = Outcome(job[t].op)
  PROVE  RequestsInv'
<1>1. Types /\ Held(t) /\ RowsHeld
  BY DEF RequestsInv
<1>2. /\ pc' \in [Txn -> Stages] /\ pc'[t] = outcome
      /\ \A u \in Txn \ {t} : pc'[u] = pc[u]
      /\ keyLock' \in [Key -> Txn \cup {Nobody}]
      /\ \A k \in Key : keyLock[k] # t => keyLock'[k] = keyLock[k]
      /\ rowLock' \in [Request -> Txn \cup Worker \cup {Nobody}]
      /\ \A r \in Request : rowLock[r] # t => rowLock'[r] = rowLock[r]
      /\ UNCHANGED <<clock, job, began, batch>>
  BY <1>1, EndFrees
<1>3. Types'
  BY <1>1, <1>2 DEF Types, rows
<1>4. Held(t)'
  BY <1>1, <1>2 DEF Held, rows
<1>5. ASSUME NEW u \in Txn \ {t} PROVE Held(u)'
  <2>1. Held(u)
    BY DEF RequestsInv
  <2>. QED
    BY <1>1, <1>2, <2>1, OthersHeld DEF rows
<1>6. RowsHeld'
  BY <1>1, EndRowsHeld DEF rows
<1>7. KeysUsed' /\ BillsWhole' /\ \A r \in DOMAIN request' : Ended(r)'
  BY <1>2, RowsKept
<1>. QED
  BY <1>3, <1>4, <1>5, <1>6, <1>7 DEF RequestsInv

LEMMA QuietSteps ==
  ASSUME RequestsInv, NEW t \in Txn,
         Replay(t) \/ AnswerAgain(t) \/ RefuseAccept(t) \/ Abort(t)
  PROVE  RequestsInv'
<1>1. Types /\ Held(t) /\ KeysUsed
  BY DEF RequestsInv
<1>2. CASE Replay(t)
  <2>. DEFINE s == keyRow[job[t].key]
  <2>1. s \in Txn /\ pc[s] = "ok" /\ Held(s)
    BY <1>1, <1>2 DEF Replay, KeysUsed, Types, RequestsInv
  <2>2. job[s] = job[t] /\ job[t].op \in Answers
          => request[job[t].id].status = Outcome(job[t].op)
    BY <2>1 DEF Held
  <2>3. PICK outcome \in {"ok", "refused"} :
          End(t, outcome) /\ (outcome = "ok" => job[s] = job[t])
    BY <1>2 DEF Replay
  <2>. QED
    BY <1>2, <2>2, <2>3, QuietEnd DEF Replay
<1>3. CASE AnswerAgain(t)
  <2>1. PICK outcome \in {"ok", "refused"} :
          End(t, outcome) /\ (outcome = "ok" => AlreadySo(t))
    BY <1>3 DEF AnswerAgain
  <2>. QED
    BY <1>3, <2>1, QuietEnd DEF AnswerAgain, AlreadySo
<1>4. CASE RefuseAccept(t) \/ Abort(t)
  BY <1>4, QuietEnd DEF RefuseAccept, Abort
<1>. QED
  BY <1>2, <1>3, <1>4

LEMMA BeginKeeps ==
  ASSUME RequestsInv, NEW t \in Txn, Begin(t)
  PROVE  RequestsInv'
<1>1. Types /\ Held(t) /\ RowsHeld
  BY DEF RequestsInv
<1>2. PICK j \in Jobs : job' = [job EXCEPT ![t] = j]
  BY DEF Begin
<1>3. /\ j \in Asking \cup Accepting \cup Ending
      /\ j.op # "NONE"
      /\ j.op \in Answers => j.id \in DOMAIN request
  BY <1>1 DEF Jobs, Types, Asking, Accepting, Ending, Creates, Answers
<1>4. Types'
  BY <1>1, <1>2, <1>3 DEF Begin, Types, Stages, rows
<1>5. Held(t)'
  <2>1. pc'[t] = "begun" /\ job'[t] = j /\ request' = request
    BY <1>1, <1>2 DEF Begin, Types, rows
  <2>. QED
    BY <1>3, <2>1 DEF Held
<1>6. ASSUME NEW u \in Txn \ {t} PROVE Held(u)'
  <2>1. Held(u)
    BY DEF RequestsInv
  <2>2. pc'[u] = pc[u] /\ job'[u] = job[u] /\ began'[u] = began[u]
    BY <1>1, <1>2 DEF Begin, Types
  <2>. QED
    BY <1>1, <2>1, <2>2, OthersHeld DEF Begin, rows
<1>7. RowsHeld'
  BY <1>1, <1>2 DEF Begin, RowsHeld, StillPending, Types, rows
<1>8. KeysUsed' /\ BillsWhole' /\ \A r \in DOMAIN request' : Ended(r)'
  <2>1. \A u \in Txn : pc[u] = "ok" =>
          pc'[u] = "ok" /\ job'[u] = job[u] /\ began'[u] = began[u]
    BY <1>1, <1>2 DEF Begin, Types
  <2>. QED
    BY <2>1, RowsKept DEF Begin
<1>. QED
  BY <1>4, <1>5, <1>6, <1>7, <1>8 DEF RequestsInv

\* A key or a row is taken when it is free.
LEMMA TakingKeeps ==
  ASSUME RequestsInv, NEW t \in Txn,
         ClaimIdempotencyKey(t) \/ LockSettleableRequest(t) \/ Transition(t)
  PROVE  RequestsInv'
<1>1. Types /\ Held(t) /\ RowsHeld
  BY DEF RequestsInv
<1>2. /\ job[t].op \in Keyed => job[t].key \in Key
      /\ job[t].op \in Answers => job[t].id \in Request
  BY <1>1, Kinds DEF Types
<1>3. /\ UNCHANGED rows /\ UNCHANGED <<clock, job, began, batch>>
      /\ pc[t] \in {"begun", "claimed"}
      /\ \/ pc' = [pc EXCEPT ![t] = "claimed"] /\ job[t].op \in Keyed
         \/ pc' = [pc EXCEPT ![t] = "locked"] /\ job[t].op \in Answers
  BY DEF ClaimIdempotencyKey, LockSettleableRequest, Transition, AtKey, Answers
<1>4. /\ keyLock' \in [Key -> Txn \cup {Nobody}]
      /\ \A k \in Key : keyLock[k] # Nobody => keyLock'[k] = keyLock[k]
  BY <1>1, <1>2 DEF Types, ClaimIdempotencyKey, LockSettleableRequest, Transition, AtKey
<1>5. /\ rowLock' \in [Request -> Txn \cup Worker \cup {Nobody}]
      /\ \A r \in Request :
           \/ rowLock'[r] = rowLock[r]
           \/ /\ rowLock[r] = Nobody /\ rowLock'[r] = t
              /\ r = job[t].id /\ job[t].op \in Answers /\ StillPending(r)
              /\ pc'[t] = "locked"
  BY <1>1, <1>2
     DEF Types, ClaimIdempotencyKey, LockSettleableRequest, Transition, Answers, Settleable
<1>6. Types'
  BY <1>1, <1>3, <1>4, <1>5 DEF Types, Stages, rows
<1>7. Held(t)'
  <2>1. CASE ClaimIdempotencyKey(t)
    BY <1>1, <1>2, <2>1 DEF Held, ClaimIdempotencyKey, Types, rows, AtKey
  <2>2. CASE LockSettleableRequest(t)
    BY <1>1, <1>2, <2>2 DEF Held, LockSettleableRequest, Settleable, Types, rows, Answers, Keyed
  <2>3. CASE Transition(t)
    BY <1>1, <1>2, <2>3 DEF Held, Transition, Types, rows, Answers, Keyed
  <2>. QED
    BY <2>1, <2>2, <2>3
<1>8. ASSUME NEW u \in Txn \ {t} PROVE Held(u)'
  <2>1. Held(u) /\ u # Nobody
    BY RequestsAssumption DEF RequestsInv
  <2>2. pc'[u] = pc[u] /\ job'[u] = job[u] /\ began'[u] = began[u]
    BY <1>1, <1>3 DEF Types
  <2>. QED
    BY <1>1, <1>3, <1>4, <1>5, <2>1, <2>2, OthersHeld DEF rows
<1>9. RowsHeld'
  <2>1. \A w \in Worker : w # Nobody /\ w # t
    BY RequestsAssumption
  <2>2. \A u \in Txn : pc[u] = "locked" => pc'[u] = "locked"
    BY <1>1, <1>3 DEF Types
  <2>3. job[t].op \in Answers => job[t].id \in DOMAIN request
    BY <1>1 DEF Held
  <2>. QED
    BY <1>1, <1>3, <1>5, <2>1, <2>2, <2>3 DEF RowsHeld, StillPending, Types, rows
<1>10. KeysUsed' /\ BillsWhole' /\ \A r \in DOMAIN request' : Ended(r)'
  <2>1. \A u \in Txn : pc[u] = "ok" =>
          pc'[u] = "ok" /\ job'[u] = job[u] /\ began'[u] = began[u]
    BY <1>1, <1>3 DEF Types
  <2>. QED
    BY <1>3, <2>1, RowsKept
<1>. QED
  BY <1>6, <1>7, <1>8, <1>9, <1>10 DEF RequestsInv

-----------------------------------------------------------------------------
(* The expiry worker *)

\* A run takes free rows only, and rolls back to free rows.
LEMMA RunKeeps ==
  ASSUME RequestsInv, NEW w \in Worker, ExpireDue(w) \/ CrashRun(w)
  PROVE  RequestsInv'
<1>1. Types /\ RowsHeld /\ w # Nobody /\ \A t \in Txn : w # t /\ t # Nobody
  BY RequestsAssumption DEF RequestsInv
<1>2. UNCHANGED rows /\ UNCHANGED <<clock, keyLock, pc, job, began>>
  BY DEF ExpireDue, CrashRun, EndRun
<1>3. /\ batch' \in [Worker -> SUBSET Request]
      /\ rowLock' \in [Request -> Txn \cup Worker \cup {Nobody}]
      /\ \A r \in Request : rowLock[r] \in Txn => rowLock'[r] = rowLock[r]
      /\ RowsHeld'
  <2>1. CASE ExpireDue(w)
    <3>1. PICK b \in Oldest(Due) :
            /\ batch' = [batch EXCEPT ![w] = b]
            /\ rowLock' = [r \in Request |-> IF r \in b THEN w ELSE rowLock[r]]
      BY <2>1 DEF ExpireDue
    <3>2. b \subseteq Due /\ Due \subseteq DOMAIN request
      BY DEF Oldest, Due
    <3>3. b \subseteq Request /\ \A r \in b : StillPending(r) /\ rowLock[r] = Nobody
      BY <1>1, <3>2 DEF Due, Types
    <3>4. \A x \in Worker \ {w} : batch'[x] = batch[x]
      BY <1>1, <3>1 DEF Types
    <3>5. batch'[w] = b
      BY <1>1, <3>1 DEF Types
    <3>6. \A x \in Worker : \A r \in batch'[x] : rowLock'[r] = x
      BY <1>1, <3>1, <3>3, <3>4, <3>5, RequestsAssumption DEF RowsHeld, Types
    <3>7. \A r \in Request : rowLock'[r] # Nobody =>
            /\ r \in DOMAIN request' /\ StillPending(r)'
            /\ rowLock'[r] \in Txn =>
                 pc'[rowLock'[r]] = "locked" /\ job'[rowLock'[r]].id = r
      BY <1>1, <1>2, <3>1, <3>2, <3>3 DEF RowsHeld, StillPending, rows
    <3>. QED
      BY <1>1, <3>1, <3>3, <3>6, <3>7 DEF Types, RowsHeld
  <2>2. CASE EndRun(w)
    <3>1. \A x \in Worker : \A r \in batch'[x] : rowLock'[r] = x
      BY <1>1, <2>2, RequestsAssumption DEF EndRun, RowsHeld, Types
    <3>2. \A r \in Request : rowLock'[r] # Nobody =>
            /\ r \in DOMAIN request' /\ StillPending(r)'
            /\ rowLock'[r] \in Txn =>
                 pc'[rowLock'[r]] = "locked" /\ job'[rowLock'[r]].id = r
      BY <1>1, <1>2, <2>2 DEF EndRun, RowsHeld, StillPending, rows
    <3>. QED
      BY <1>1, <2>2, <3>1, <3>2 DEF EndRun, RowsHeld, Types
  <2>. QED
    BY <2>1, <2>2 DEF CrashRun
<1>4. Types'
  BY <1>1, <1>2, <1>3 DEF Types, rows
<1>5. ASSUME NEW t \in Txn PROVE Held(t)'
  <2>1. Held(t)
    BY DEF RequestsInv
  <2>. QED
    BY <1>1, <1>2, <1>3, <2>1, OthersHeld DEF rows
<1>6. KeysUsed' /\ BillsWhole' /\ \A r \in DOMAIN request' : Ended(r)'
  BY <1>2, RowsKept
<1>. QED
  BY <1>3, <1>4, <1>5, <1>6 DEF RequestsInv

LEMMA CommitExpiryKeeps ==
  ASSUME RequestsInv, NEW w \in Worker, CommitExpiry(w)
  PROVE  RequestsInv'
<1>1. Types /\ RowsHeld /\ w # Nobody /\ \A t \in Txn : w # t /\ t # Nobody
  BY RequestsAssumption DEF RequestsInv
<1>2. /\ UNCHANGED <<clock, keyLock, pc, job, began, settlement, keyRow>>
      /\ DOMAIN request' = DOMAIN request
      /\ outbox' = outbox \cup {<<r, "REQUEST_EXPIRED", w>> : r \in batch[w]}
  BY DEF CommitExpiry, EndRun
<1>3. /\ batch[w] \subseteq DOMAIN request
      /\ \A r \in batch[w] : rowLock[r] = w /\ StillPending(r)
  BY <1>1 DEF RowsHeld, Types
<1>4. /\ \A r \in batch[w] : request'[r] = [request[r] EXCEPT !.status = "EXPIRED"]
      /\ \A r \in DOMAIN request \ batch[w] : request'[r] = request[r]
  BY <1>3 DEF CommitExpiry
<1>5. request' \in [DOMAIN request' -> RequestType]
  <2>1. \A r \in batch[w] : request[r] \in RequestType
    BY <1>1, <1>3 DEF Types
  <2>2. ASSUME NEW r \in batch[w] PROVE request'[r] \in RequestType
    <3>1. request[r] \in RequestType
      BY <2>1
    <3>2. [request[r] EXCEPT !.status = "EXPIRED"] \in RequestType
      BY <3>1 DEF RequestType
    <3>. QED
      BY <1>4, <3>2
  <2>3. \A r \in DOMAIN request : request'[r] \in RequestType
    BY <1>1, <1>4, <2>2 DEF Types
  <2>4. request' = [r \in DOMAIN request |-> request'[r]]
    BY DEF CommitExpiry
  <2>. QED
    BY <1>2, <2>3, <2>4
<1>6. Types'
  <2>1. /\ batch' \in [Worker -> SUBSET Request]
        /\ rowLock' \in [Request -> Txn \cup Worker \cup {Nobody}]
    BY <1>1 DEF CommitExpiry, EndRun, Types
  <2>2. outbox' \subseteq EventType /\ \A e \in outbox' : e[1] \in DOMAIN request
    BY <1>1, <1>2, <1>3 DEF Types, EventType
  <2>. QED
    BY <1>1, <1>2, <1>5, <2>1, <2>2 DEF Types
<1>7. \A r \in DOMAIN request :
        /\ request'[r].expires = request[r].expires
        /\ ~ StillPending(r) => request'[r].status = request[r].status
  <2>1. \A r \in DOMAIN request : request[r] \in RequestType
    BY <1>1 DEF Types
  <2>2. \A r \in batch[w] : request'[r].expires = request[r].expires
    BY <1>3, <1>4, <2>1 DEF RequestType
  <2>. QED
    BY <1>3, <1>4, <2>2
<1>8. ASSUME NEW t \in Txn PROVE Held(t)'
  <2>1. Held(t)
    BY DEF RequestsInv
  <2>2. \A r \in Request : rowLock[r] = t => rowLock'[r] = t
    BY <1>1 DEF CommitExpiry, EndRun
  <2>. QED
    BY <1>1, <1>2, <1>7, <2>1, <2>2, OthersHeld
<1>9. RowsHeld'
  <2>1. \A x \in Worker : \A r \in batch'[x] : rowLock'[r] = x
    BY <1>1, RequestsAssumption DEF CommitExpiry, EndRun, RowsHeld, Types
  <2>2. \A r \in Request : rowLock'[r] # Nobody => rowLock[r] # w /\ rowLock'[r] = rowLock[r]
    BY <1>1 DEF CommitExpiry, EndRun
  <2>. QED
    BY <1>1, <1>2, <1>3, <1>4, <2>1, <2>2 DEF RowsHeld, StillPending, Types
<1>10. KeysUsed' /\ BillsWhole'
  <2>1. KeysUsed'
    BY <1>2 DEF KeysUsed, RequestsInv
  <2>2. \A t \in Txn : Billed(t) => Billed(t)'
    BY <1>2 DEF Billed
  <2>. QED
    BY <1>2, <2>1, <2>2 DEF RequestsInv, BillsWhole
<1>11. ASSUME NEW r \in DOMAIN request PROVE Ended(r)'
  <2>1. Ended(r)
    BY DEF RequestsInv
  <2>2. CASE r \notin batch[w]
    <3>1. Told(r)' = Told(r)
      BY <1>2, <2>2 DEF Told
    <3>. QED
      BY <1>2, <1>4, <2>1, <2>2, <3>1, RowKept
  <2>3. CASE r \in batch[w]
    <3>1. StillPending(r) /\ Told(r) = {} /\ request[r] \in RequestType
      BY <1>1, <1>3, <2>1, <2>3 DEF Ended, Types
    <3>2. request'[r].status = "EXPIRED"
      BY <1>4, <2>3, <3>1 DEF RequestType
    <3>3. Told(r)' = {<<r, "REQUEST_EXPIRED", w>>}
      BY <1>2, <2>3, <3>1 DEF Told
    <3>4. Kind("EXPIRED") = "REQUEST_EXPIRED"
      BY DEF Kind
    <3>5. {t \in Txn : <<r, t>> \in settlement} = {}
      BY <2>1, <3>1 DEF Ended, StillPending
    <3>. QED
      BY <1>2, <3>2, <3>3, <3>4, <3>5 DEF Ended, StillPending
  <2>. QED
    BY <2>2, <2>3
<1>. QED
  BY <1>2, <1>6, <1>8, <1>9, <1>10, <1>11 DEF RequestsInv

-----------------------------------------------------------------------------
(* The committed writes *)

\* One row takes its outcome: accepted by t, declined or cancelled.
LEMMA AnswerKeeps ==
  ASSUME RequestsInv, NEW t \in Txn, Accept(t) \/ Terminate(t)
  PROVE  RequestsInv'
<1>. DEFINE r == job[t].id
            status == Outcome(job[t].op)
            told == Kind(status)
<1>1. Types /\ Held(t) /\ RowsHeld /\ KeysUsed /\ t # Nobody
  BY RequestsAssumption DEF RequestsInv
<1>2. /\ pc[t] = "locked" /\ job[t].op \in Answers /\ r \in DOMAIN request
      /\ rowLock[r] = t /\ StillPending(r) /\ r \in Request
      /\ request[r] \in RequestType
      /\ job[t].op \in Keyed => job[t].op = "ACCEPT" /\ job[t].key \in Key
  BY <1>1, Kinds
     DEF Accept, Terminate, Held, RowsHeld, Types, Answers, Keyed
<1>3. /\ status \in {"ACCEPTED", "DECLINED", "CANCELLED"}
      /\ told \in {"REQUEST_ACCEPTED", "REQUEST_DECLINED", "REQUEST_CANCELLED"}
      /\ job[t].op = "ACCEPT" <=> status = "ACCEPTED"
  BY <1>2 DEF Answers, Outcome, Kind
<1>4. /\ End(t, "ok")
      /\ outbox' = outbox \cup {<<r, told, t>>}
      /\ DOMAIN request' = DOMAIN request
      /\ \A q \in DOMAIN request \ {r} : request'[q] = request[q]
      /\ request'[r].status = status /\ request'[r].expires = request[r].expires
      /\ request'[r] \in RequestType
  <2>1. CASE Accept(t)
    <3>1. request'[r] = [request[r] EXCEPT !.status = "ACCEPTED", !.settledBy = t]
      BY <1>2, <2>1 DEF Accept
    <3>2. request'[r] \in RequestType
      BY <1>2, <3>1 DEF RequestType
    <3>3. status = "ACCEPTED" /\ told = "REQUEST_ACCEPTED"
      BY <2>1 DEF Accept, Outcome, Kind
    <3>4. request'[r].status = "ACCEPTED" /\ request'[r].expires = request[r].expires
      BY <1>2, <3>1 DEF RequestType
    <3>. QED
      BY <1>2, <2>1, <3>2, <3>3, <3>4 DEF Accept, Enqueued
  <2>2. CASE Terminate(t)
    <3>1. request'[r] = [request[r] EXCEPT !.status = status]
      BY <1>2, <2>2 DEF Terminate
    <3>2. request'[r] \in RequestType
      BY <1>2, <1>3, <3>1 DEF RequestType
    <3>3. told = Event(job[t].op)
      BY <2>2 DEF Terminate, Outcome, Kind, Event
    <3>4. request'[r].status = status /\ request'[r].expires = request[r].expires
      BY <1>2, <3>1 DEF RequestType
    <3>. QED
      BY <1>2, <2>2, <3>2, <3>3, <3>4 DEF Terminate, Enqueued
  <2>. QED
    BY <2>1, <2>2
<1>5. /\ pc' \in [Txn -> Stages] /\ pc'[t] = "ok"
      /\ \A u \in Txn \ {t} : pc'[u] = pc[u]
      /\ keyLock' \in [Key -> Txn \cup {Nobody}]
      /\ \A k \in Key : keyLock[k] # t => keyLock'[k] = keyLock[k]
      /\ rowLock' \in [Request -> Txn \cup Worker \cup {Nobody}]
      /\ \A q \in Request : rowLock[q] # t => rowLock'[q] = rowLock[q]
      /\ UNCHANGED <<clock, job, began, batch>>
  BY <1>1, <1>4, EndFrees
<1>6. /\ settlement' = IF status = "ACCEPTED" THEN settlement \cup {<<r, t>>} ELSE settlement
      /\ status = "ACCEPTED" => /\ keyRow' = With(keyRow, job[t].key, t)
                                /\ request'[r].settledBy = t
                                /\ job[t].op \in Keyed
      /\ status # "ACCEPTED" => keyRow' = keyRow /\ job[t].op \notin Keyed
  <2>1. CASE Accept(t)
    <3>1. request'[r].settledBy = t
      BY <1>2, <2>1 DEF Accept, RequestType
    <3>. QED
      BY <1>3, <2>1, <3>1 DEF Accept, Keyed
  <2>2. CASE Terminate(t)
    BY <1>3, <2>2 DEF Terminate, Keyed
  <2>. QED
    BY <2>1, <2>2
<1>7. /\ DOMAIN keyRow' \subseteq Key /\ keyRow' \in [DOMAIN keyRow' -> Txn]
      /\ \A k \in DOMAIN keyRow : keyRow'[k] = keyRow[k] /\ k \in DOMAIN keyRow'
      /\ \A k \in DOMAIN keyRow' : \/ k \in DOMAIN keyRow
                                   \/ /\ k = job[t].key /\ keyRow'[k] = t
                                      /\ keyLock[k] = t /\ job[t].op \in Keyed
  <2>1. CASE status = "ACCEPTED"
    <3>1. keyLock[job[t].key] = t /\ job[t].key \notin DOMAIN keyRow /\ job[t].key \in Key
      BY <1>1, <1>2, <1>6, <2>1 DEF Held
    <3>. QED
      BY <1>1, <1>6, <2>1, <3>1 DEF With, Types
  <2>2. CASE status # "ACCEPTED"
    BY <1>1, <1>6, <2>2 DEF Types
  <2>. QED
    BY <2>1, <2>2
<1>8. Types'
  <2>1. request' \in [DOMAIN request' -> RequestType]
    <3>1. \A q \in DOMAIN request : request'[q] \in RequestType
      BY <1>1, <1>4 DEF Types
    <3>2. request' = [q \in DOMAIN request |-> request'[q]]
      BY <1>1 DEF Accept, Terminate, Types
    <3>. QED
      BY <1>4, <3>1, <3>2
  <2>2. outbox' \subseteq EventType /\ \A e \in outbox' : e[1] \in DOMAIN request
    BY <1>1, <1>2, <1>3, <1>4 DEF Types, EventType
  <2>3. settlement' \subseteq (DOMAIN request) \X Txn
    BY <1>1, <1>2, <1>6 DEF Types
  <2>4. DOMAIN request' \subseteq Request /\ DOMAIN request' = DOMAIN request
    BY <1>1, <1>4 DEF Types
  <2>. QED
    BY <1>1, <1>5, <1>7, <2>1, <2>2, <2>3, <2>4 DEF Types
<1>9. Held(t)'
  BY <1>1, <1>2, <1>4, <1>5 DEF Held
<1>10. ASSUME NEW u \in Txn \ {t} PROVE Held(u)'
  <2>1. Held(u)
    BY DEF RequestsInv
  <2>2. \A q \in DOMAIN request :
          /\ request'[q].expires = request[q].expires
          /\ ~ StillPending(q) => request'[q].status = request[q].status
    BY <1>2, <1>4
  <2>. QED
    BY <1>1, <1>4, <1>5, <1>7, <2>1, <2>2, OthersHeld
<1>11. RowsHeld'
  BY <1>1, <1>2, <1>4, EndRowsHeld
<1>12. KeysUsed'
  BY <1>1, <1>5, <1>7 DEF KeysUsed, Types
<1>13. BillsWhole'
  <2>1. ASSUME NEW u \in Txn, Billed(u) PROVE Billed(u)'
    <3>1. pc'[u] = "ok" /\ job'[u] = job[u]
      BY <1>5, <2>1, <1>2 DEF Billed
    <3>2. job[u].key \in DOMAIN keyRow' /\ keyRow'[job[u].key] = u
      BY <1>7, <2>1 DEF Billed
    <3>. QED
      BY <1>4, <2>1, <3>1, <3>2 DEF Billed
  <2>. QED
    BY <1>4, <2>1 DEF RequestsInv, BillsWhole
<1>14. ASSUME NEW q \in DOMAIN request PROVE Ended(q)'
  <2>1. Ended(q)
    BY DEF RequestsInv
  <2>2. CASE q # r
    <3>1. Told(q)' = Told(q)
      BY <1>4, <2>2 DEF Told
    <3>2. \A u \in Txn : <<q, u>> \in settlement' <=> <<q, u>> \in settlement
      BY <1>6, <2>2
    <3>. QED
      BY <1>2, <1>4, <1>5, <2>1, <2>2, <3>1, <3>2, RowKept
  <2>3. CASE q = r
    <3>1. Told(q) = {} /\ \A u \in Txn : <<q, u>> \notin settlement
      BY <1>2, <2>1, <2>3 DEF Ended, StillPending
    <3>2. Told(q)' = {<<r, told, t>>}
      BY <1>3, <1>4, <2>3, <3>1 DEF Told
    <3>3. {u \in Txn : <<q, u>> \in settlement'} = IF status = "ACCEPTED" THEN {t} ELSE {}
      BY <1>6, <2>3, <3>1
    <3>4. status = "ACCEPTED" => began'[t] < request'[q].expires
      BY <1>1, <1>2, <1>3, <1>4, <1>5, <2>3 DEF Held
    <3>. QED
      BY <1>3, <1>4, <1>5, <1>6, <2>3, <3>2, <3>3, <3>4 DEF Ended, StillPending
  <2>. QED
    BY <2>2, <2>3
<1>. QED
  BY <1>4, <1>8, <1>9, <1>10, <1>11, <1>12, <1>13, <1>14 DEF RequestsInv

\* A request or a bill: new rows, with their events and the stored answer.
LEMMA CreateKeeps ==
  ASSUME RequestsInv, NEW t \in Txn, CreateRequest(t) \/ CreateLegs(t)
  PROVE  RequestsInv'
<1>. DEFINE asked == job[t].bill
            legs == {<<t, i>> : i \in DOMAIN asked}
<1>1. Types /\ Held(t) /\ RowsHeld /\ KeysUsed /\ t # Nobody
  BY RequestsAssumption DEF RequestsInv
<1>2. /\ pc[t] = "claimed" /\ job[t].op \in Creates /\ job[t].op \in Keyed
      /\ job[t].op \notin Answers
      /\ InsertRequests(t)
  BY DEF CreateRequest, CreateLegs, Creates, Keyed, Answers
<1>3. /\ job[t].key \in Key /\ asked \in Bills /\ job[t].by \in User
      /\ keyLock[job[t].key] = t /\ job[t].key \notin DOMAIN keyRow
  BY <1>1, <1>2, Kinds DEF Held, Types, Asking
<1>4. asked \in Seq(User) /\ DOMAIN asked \subseteq Nat
  <2>1. asked \in Seq(User)
    BY <1>3, RequestsAssumption
  <2>2. DOMAIN asked = 1 .. Len(asked) /\ Len(asked) \in Nat
    BY <2>1
  <2>. QED
    BY <2>1, <2>2
<1>5. legs \subseteq Request
  <2>1. legs \in {{<<u, i>> : i \in DOMAIN b} : u \in Txn, b \in Bills}
    BY <1>3
  <2>. HIDE DEF legs
  <2>. QED
    BY <2>1 DEF Request
<1>6. legs \cap DOMAIN request = {}
  <2>1. SUFFICES ASSUME NEW i \in DOMAIN asked, <<t, i>> \in DOMAIN request PROVE FALSE
    OBVIOUS
  <2>2. <<t, i>> \notin Standing
    <3>1. <<t, i>> \in Txn \X Nat
      BY <1>4
    <3>. QED
      BY <3>1, RequestsAssumption
  <2>3. PICK u \in Txn : \E k \in Nat : <<t, i>> = <<u, k>> /\ Billed(u)
    BY <2>1, <2>2 DEF RequestsInv, BillsWhole
  <2>. QED
    BY <1>2, <2>3 DEF Billed
<1>7. /\ End(t, "ok")
      /\ DOMAIN request' = DOMAIN request \cup legs
      /\ \A r \in DOMAIN request : request'[r] = request[r]
      /\ \A r \in legs : request'[r] = Pending(job[t].by, asked[r[2]], clock + Life)
      /\ outbox' = outbox \cup {<<r, "REQUEST_CREATED", t>> : r \in legs}
      /\ keyRow' = With(keyRow, job[t].key, t)
      /\ settlement' = settlement
  BY <1>2, <1>6 DEF InsertRequests
<1>8. /\ pc' \in [Txn -> Stages] /\ pc'[t] = "ok"
      /\ \A u \in Txn \ {t} : pc'[u] = pc[u]
      /\ keyLock' \in [Key -> Txn \cup {Nobody}]
      /\ \A k \in Key : keyLock[k] # t => keyLock'[k] = keyLock[k]
      /\ rowLock' \in [Request -> Txn \cup Worker \cup {Nobody}]
      /\ \A r \in Request : rowLock[r] # t => rowLock'[r] = rowLock[r]
      /\ UNCHANGED <<clock, job, began, batch>>
  BY <1>1, <1>7, EndFrees
<1>9. /\ DOMAIN keyRow' \subseteq Key /\ keyRow' \in [DOMAIN keyRow' -> Txn]
      /\ \A k \in DOMAIN keyRow : keyRow'[k] = keyRow[k] /\ k \in DOMAIN keyRow'
      /\ job[t].key \in DOMAIN keyRow' /\ keyRow'[job[t].key] = t
      /\ \A k \in DOMAIN keyRow' : \/ k \in DOMAIN keyRow
                                   \/ k = job[t].key /\ keyRow'[k] = t /\ keyLock[k] = t
  BY <1>1, <1>3, <1>7 DEF With, Types
<1>10. \A r \in legs : /\ request'[r] \in RequestType /\ request'[r].status = "PENDING"
                       /\ r \in Request
  <2>1. ASSUME NEW i \in DOMAIN asked
        PROVE  LET r == <<t, i>> IN
                 request'[r] \in RequestType /\ request'[r].status = "PENDING"
    <3>1. asked[i] \in User
      BY <1>4
    <3>2. clock + Life \in Nat
      BY <1>1, RequestsAssumption DEF Types
    <3>3. request'[<<t, i>>] = Pending(job[t].by, asked[i], clock + Life)
      BY <1>7
    <3>. QED
      BY <1>3, <3>1, <3>2, <3>3 DEF Pending, RequestType
  <2>. QED
    BY <1>5, <2>1
<1>11. Types'
  <2>1. request' \in [DOMAIN request' -> RequestType]
    <3>1. \A r \in DOMAIN request' : request'[r] \in RequestType
      BY <1>1, <1>7, <1>10 DEF Types
    <3>2. request' = [r \in DOMAIN request \cup legs |-> request'[r]]
      BY <1>2 DEF InsertRequests
    <3>. QED
      BY <1>7, <3>1, <3>2
  <2>2. DOMAIN request' \subseteq Request
    BY <1>1, <1>5, <1>7 DEF Types
  <2>3. outbox' \subseteq EventType /\ \A e \in outbox' : e[1] \in DOMAIN request'
    BY <1>1, <1>5, <1>7 DEF Types, EventType
  <2>4. settlement' \subseteq (DOMAIN request') \X Txn
    BY <1>1, <1>7 DEF Types
  <2>. QED
    BY <1>1, <1>8, <1>9, <2>1, <2>2, <2>3, <2>4 DEF Types
<1>12. Held(t)'
  BY <1>1, <1>2, <1>8 DEF Held
<1>13. ASSUME NEW u \in Txn \ {t} PROVE Held(u)'
  <2>1. Held(u)
    BY DEF RequestsInv
  <2>. QED
    BY <1>1, <1>7, <1>8, <1>9, <2>1, OthersHeld
<1>14. RowsHeld'
  BY <1>1, <1>7, EndRowsHeld
<1>15. KeysUsed'
  BY <1>1, <1>2, <1>8, <1>9 DEF KeysUsed, Types
<1>16. BillsWhole'
  <2>1. ASSUME NEW u \in Txn, Billed(u) PROVE Billed(u)'
    <3>1. pc'[u] = "ok" /\ job'[u] = job[u]
      BY <1>2, <1>8, <2>1 DEF Billed
    <3>2. job[u].key \in DOMAIN keyRow' /\ keyRow'[job[u].key] = u
      BY <1>9, <2>1 DEF Billed
    <3>. QED
      BY <1>7, <2>1, <3>1, <3>2 DEF Billed
  <2>2. Billed(t)'
    BY <1>2, <1>7, <1>8, <1>9 DEF Billed
  <2>. QED
    BY <1>4, <1>7, <2>1, <2>2 DEF RequestsInv, BillsWhole
<1>17. ASSUME NEW r \in DOMAIN request PROVE Ended(r)'
  <2>1. Ended(r)
    BY DEF RequestsInv
  <2>2. Told(r)' = Told(r)
    BY <1>7 DEF Told
  <2>. QED
    BY <1>2, <1>7, <1>8, <2>1, <2>2, RowKept
<1>18. ASSUME NEW r \in legs PROVE Ended(r)'
  <2>1. Told(r)' = {}
    BY <1>1, <1>6, <1>7 DEF Told, Types
  <2>2. {u \in Txn : <<r, u>> \in settlement'} = {}
    BY <1>1, <1>6, <1>7 DEF Types
  <2>. QED
    BY <1>10, <2>1, <2>2 DEF Ended, StillPending
<1>. QED
  BY <1>7, <1>11, <1>12, <1>13, <1>14, <1>15, <1>16, <1>17, <1>18 DEF RequestsInv

LEMMA RequestsInvInductive == RequestsInv /\ [Next]_vars => RequestsInv'
<1>. SUFFICES ASSUME RequestsInv, [Next]_vars PROVE RequestsInv'
  OBVIOUS
<1>1. ASSUME NEW t \in Txn, Begin(t) \/ Progress(t) \/ Abort(t) PROVE RequestsInv'
  <2>1. CASE Begin(t)
    BY <2>1, BeginKeeps
  <2>2. CASE ClaimIdempotencyKey(t) \/ LockSettleableRequest(t) \/ Transition(t)
    BY <2>2, TakingKeeps
  <2>3. CASE Replay(t) \/ AnswerAgain(t) \/ RefuseAccept(t) \/ Abort(t)
    BY <2>3, QuietSteps
  <2>4. CASE Accept(t) \/ Terminate(t)
    BY <2>4, AnswerKeeps
  <2>5. CASE CreateRequest(t) \/ CreateLegs(t)
    BY <2>5, CreateKeeps
  <2>. QED
    BY <1>1, <2>1, <2>2, <2>3, <2>4, <2>5 DEF Progress
<1>2. ASSUME NEW w \in Worker, ExpireDue(w) \/ CommitExpiry(w) \/ CrashRun(w)
      PROVE  RequestsInv'
  BY <1>2, RunKeeps, CommitExpiryKeeps
<1>3. CASE Tick \/ UNCHANGED vars
  <2>1. /\ UNCHANGED <<rows, keyLock, rowLock, pc, job, began, batch>>
        /\ clock' = clock + 1 \/ clock' = clock
    BY <1>3 DEF Tick, vars
  <2>2. Types /\ RowsHeld /\ \A t \in Txn : Held(t)
    BY DEF RequestsInv
  <2>3. Types'
    BY <2>1, <2>2 DEF Types, rows
  <2>4. RowsHeld'
    BY <2>1, <2>2 DEF RowsHeld, StillPending, rows
  <2>5. \A t \in Txn : Held(t)'
    BY <2>1, <2>2, OthersHeld DEF rows
  <2>6. KeysUsed' /\ BillsWhole' /\ \A r \in DOMAIN request' : Ended(r)'
    BY <2>1, RowsKept
  <2>. QED
    BY <2>3, <2>4, <2>5, <2>6 DEF RequestsInv
<1>. QED
  BY <1>1, <1>2, <1>3 DEF Next

LEMMA RequestsInvariance == Spec => []RequestsInv
<1>. QED
  BY InitRequestsInv, RequestsInvInductive, PTL DEF Spec

-----------------------------------------------------------------------------
(* The theorems *)

\* Whoever accepts, declines, cancels or expires a request at the same time, in any
\* number of processes: it is paid exactly when it is ACCEPTED, once and in time, and one
\* event tells of its outcome (the guarded UPDATEs of request.repo.ts).
THEOREM RequestsSettledOnce == Spec => []SettledOnce
<1>1. RequestsInv => SettledOnce
  <2>. SUFFICES ASSUME RequestsInv, NEW r \in DOMAIN request
                PROVE  LET told == {e \in outbox : e[1] = r /\ e[2] # "REQUEST_CREATED"} IN
      /\ {t \in Txn : <<r, t>> \in settlement}
           = IF request[r].status = "ACCEPTED" THEN {request[r].settledBy} ELSE {}
      /\ request[r].status = "ACCEPTED" => began[request[r].settledBy] < request[r].expires
      /\ IF request[r].status = "PENDING" THEN told = {}
         ELSE Cardinality(told) = 1 /\ \A e \in told : e[2] = Kind(request[r].status)
    BY DEF SettledOnce
  <2>1. Ended(r)
    BY DEF RequestsInv
  <2>2. ASSUME ~ StillPending(r)
        PROVE  /\ Cardinality(Told(r)) = 1
               /\ \A e \in Told(r) : e[2] = Kind(request[r].status)
    <3>1. PICK by \in Txn \cup Worker : Told(r) = {<<r, Kind(request[r].status), by>>}
      BY <2>1, <2>2 DEF Ended
    <3>2. Cardinality(Told(r)) = 1
      BY <3>1, FS_Singleton
    <3>. QED
      BY <3>1, <3>2
  <2>. QED
    BY <2>1, <2>2 DEF Ended, Told, StillPending
<1>. QED
  BY <1>1, RequestsInvariance, PTL

\* Whoever is answered that a request is accepted, declined or cancelled finds it so, for
\* ever after: a replay, a repetition and the loser of a race as well (request.service.ts).
THEOREM RequestAnswersTrue == Spec => []AnswersAreTrue
<1>1. RequestsInv => AnswersAreTrue
  <2>. SUFFICES ASSUME RequestsInv, NEW t \in Txn, pc[t] = "ok", job[t].op \notin Creates
                PROVE  request[job[t].id].status = Outcome(job[t].op)
    BY DEF AnswersAreTrue, Creates
  <2>1. Held(t) /\ job[t].op \in Creates \cup Answers \cup {"NONE"}
    BY Kinds DEF RequestsInv, Types
  <2>. QED
    BY <2>1 DEF Held
<1>. QED
  BY <1>1, RequestsInvariance, PTL

\* However often one key is submitted, at once or later, it makes one request or one bill,
\* whole (claimIdempotencyKey in createRequest and createSplit).
THEOREM KeyMakesOneBill == Spec => []OneBillPerKey
<1>1. RequestsInv => OneBillPerKey
  <2>. SUFFICES ASSUME RequestsInv, NEW s \in Txn, NEW t \in Txn,
                       <<s, 1>> \in DOMAIN request, <<t, 1>> \in DOMAIN request
                PROVE  /\ job[s].key = job[t].key => s = t
                       /\ \A i \in DOMAIN job[t].bill :
                            /\ <<t, i>> \in DOMAIN request
                            /\ <<<<t, i>>, "REQUEST_CREATED", t>> \in outbox
    BY DEF OneBillPerKey
  <2>1. <<s, 1>> \notin Standing /\ <<t, 1>> \notin Standing
    <3>1. <<s, 1>> \in Txn \X Nat /\ <<t, 1>> \in Txn \X Nat
      OBVIOUS
    <3>. QED
      BY <3>1, RequestsAssumption
  <2>2. Billed(s) /\ Billed(t)
    BY <2>1 DEF RequestsInv, BillsWhole
  <2>. QED
    BY <2>2 DEF Billed
<1>. QED
  BY <1>1, RequestsInvariance, PTL

-----------------------------------------------------------------------------

\* Whoever holds a key is at work on it, and a run holds the rows of its batch only.
KeysHeld ==
  /\ clock \in 0 .. MaxClock
  /\ \A k \in Key : keyLock[k] # Nobody => pc[keyLock[k]] \in {"claimed", "locked"}
  /\ \A r \in Request : rowLock[r] \in Worker => r \in batch[rowLock[r]]

LEMMA KeysHeldInductive == RequestsInv /\ KeysHeld /\ [Next]_vars => KeysHeld'
<1>. SUFFICES ASSUME RequestsInv, KeysHeld, [Next]_vars PROVE KeysHeld'
  OBVIOUS
<1>1. /\ keyLock \in [Key -> Txn \cup {Nobody}] /\ pc \in [Txn -> Stages]
      /\ rowLock \in [Request -> Txn \cup Worker \cup {Nobody}]
      /\ batch \in [Worker -> SUBSET Request]
      /\ clock \in 0 .. MaxClock /\ MaxClock \in Nat
  BY RequestsAssumption DEF RequestsInv, Types, KeysHeld
<1>2. ASSUME NEW t \in Txn, Begin(t) PROVE KeysHeld'
  BY <1>1, <1>2 DEF Begin, KeysHeld
<1>3. ASSUME NEW t \in Txn, ClaimIdempotencyKey(t) PROVE KeysHeld'
  BY <1>1, <1>3 DEF ClaimIdempotencyKey, AtKey, KeysHeld
<1>4. ASSUME NEW t \in Txn, LockSettleableRequest(t) \/ Transition(t) PROVE KeysHeld'
  <2>1. /\ UNCHANGED <<clock, keyLock, batch>>
        /\ pc[t] \in {"begun", "claimed"} /\ pc' = [pc EXCEPT ![t] = "locked"]
        /\ rowLock' = [rowLock EXCEPT ![job[t].id] = t]
    BY <1>4 DEF LockSettleableRequest, Transition
  <2>. QED
    BY <1>1, <2>1, RequestsAssumption DEF KeysHeld
<1>5. ASSUME NEW t \in Txn, NEW outcome, End(t, outcome) PROVE KeysHeld'
  BY <1>1, <1>5, RequestsAssumption DEF End, KeysHeld
<1>6. ASSUME UNCHANGED vars PROVE KeysHeld'
  BY <1>6 DEF KeysHeld, vars
<1>7. CASE Tick
  BY <1>1, <1>7 DEF Tick, KeysHeld
<1>8. ASSUME NEW t \in Txn, Progress(t) \/ Abort(t) PROVE KeysHeld'
  BY <1>3, <1>4, <1>5, <1>8 DEF Progress, Abort, Replay, CreateRequest, CreateLegs,
     InsertRequests, Accept, RefuseAccept, Terminate, AnswerAgain
<1>9. ASSUME NEW w \in Worker, ExpireDue(w) PROVE KeysHeld'
  <2>1. PICK b \in Oldest(Due) :
          /\ batch' = [batch EXCEPT ![w] = b]
          /\ rowLock' = [r \in Request |-> IF r \in b THEN w ELSE rowLock[r]]
    BY <1>9 DEF ExpireDue
  <2>2. batch[w] = {} /\ UNCHANGED <<clock, keyLock, pc>>
    BY <1>9 DEF ExpireDue
  <2>. QED
    BY <1>1, <2>1, <2>2 DEF KeysHeld
<1>10. ASSUME NEW w \in Worker, CommitExpiry(w) \/ CrashRun(w) PROVE KeysHeld'
  <2>1. EndRun(w)
    BY <1>10 DEF CommitExpiry, CrashRun
  <2>. QED
    BY <1>1, <2>1, RequestsAssumption DEF EndRun, KeysHeld
<1>. QED
  BY <1>2, <1>6, <1>7, <1>8, <1>9, <1>10 DEF Next

\* Every variable has its type, and no key and no row stays with a call that is over or
\* with a run that has ended: whatever was taken is freed (COMMIT and ROLLBACK).
THEOREM RequestsTyped == Spec => []TypeOK
<1>1. Init => KeysHeld
  BY RequestsAssumption DEF Init, KeysHeld
<1>2. RequestsInv /\ KeysHeld => TypeOK
  <2>. SUFFICES ASSUME RequestsInv, KeysHeld PROVE TypeOK
    OBVIOUS
  <2>1. Types /\ RowsHeld /\ \A t \in Txn : Held(t)
    BY DEF RequestsInv
  <2>2. settlement \subseteq Request \X Txn
    BY <2>1 DEF Types
  <2>3. \A e \in outbox : e[1] \in DOMAIN request /\ e[3] \in Txn \cup Worker
    BY <2>1 DEF Types, EventType
  <2>4. ASSUME NEW r \in Request
        PROVE  \/ rowLock[r] = Nobody
               \/ rowLock[r] \in Txn /\ pc[rowLock[r]] = "locked"
               \/ rowLock[r] \in Worker /\ r \in batch[rowLock[r]]
    BY <2>1 DEF Types, RowsHeld, KeysHeld
  <2>. QED
    BY <2>1, <2>2, <2>3, <2>4 DEF TypeOK, Types, KeysHeld
<1>. QED
  BY <1>1, <1>2, RequestsInvariance, KeysHeldInductive, PTL DEF Spec

-----------------------------------------------------------------------------
(* The arithmetic of allocate.ts *)

Excess(share, weight, total, i) == share[i] * Total(weight) - total * weight[i]

Fair(share, weight, total) ==
  /\ Total(share) = total
  /\ \A i \in DOMAIN share :
       /\ -Total(weight) < Excess(share, weight, total, i)
       /\ Excess(share, weight, total, i) < Total(weight)
  /\ \A i, k \in DOMAIN share :
       Excess(share, weight, total, i) - Excess(share, weight, total, k) <= Total(weight)

\* What AllocateByWeight makes of its input, under names.
Floor(total, weight) == [i \in DOMAIN weight |-> (total * weight[i]) \div Total(weight)]

Remainder(total, weight) == [i \in DOMAIN weight |-> (total * weight[i]) % Total(weight)]

Leftover(total, weight) == total - Total(Floor(total, weight))

Ahead(total, weight) ==
  {p \in (DOMAIN weight) \X (DOMAIN weight) :
     \/ Remainder(total, weight)[p[1]] > Remainder(total, weight)[p[2]]
     \/ Remainder(total, weight)[p[1]] = Remainder(total, weight)[p[2]] /\ p[1] < p[2]}

Favoured(total, weight) ==
  {i \in DOMAIN weight : Rank(Ahead(total, weight), DOMAIN weight, i) < Leftover(total, weight)}

LEMMA TotalIs == ASSUME NEW s PROVE Total(s) = SumFunctionOnSet(s, DOMAIN s)
BY DEF Total, FoldFunction, SumFunctionOnSet

LEMMA DivMod ==
  ASSUME NEW a \in Nat, NEW d \in Nat \ {0}
  PROVE  /\ a \div d \in Nat /\ a % d \in Nat /\ a % d < d
         /\ a = d * (a \div d) + (a % d)
OBVIOUS

LEMMA TimesNat == ASSUME NEW a \in Nat, NEW b \in Nat PROVE a * b \in Nat
OBVIOUS

LEMMA EvenIsFair ==
  ASSUME NEW total \in Nat, NEW n \in Nat \ {0}
  PROVE  /\ AllocateEvenly(total, n) \in [1 .. n -> Nat]
         /\ Fair(AllocateEvenly(total, n), [i \in 1 .. n |-> 1], total)
<1>. DEFINE D == 1 .. n
            b == total \div n
            r == total % n
            one == [i \in D |-> 1]
            base == [i \in D |-> b]
            more == [i \in D |-> IF i \in 1 .. r THEN 1 ELSE 0]
            share == AllocateEvenly(total, n)
<1>1. b \in Nat /\ r \in Nat /\ r < n /\ total = n * b + r
  BY DivMod
<1>2. IsFiniteSet(D) /\ Cardinality(D) = n /\ Cardinality(1 .. r) = r
  BY <1>1, FS_Interval
<1>3. /\ share \in [D -> Nat] /\ DOMAIN share = D
      /\ \A i \in D : share[i] = base[i] + more[i]
  BY <1>1 DEF AllocateEvenly
<1>4. Total(one) = n
  <2>1. \A i \in D : one[i] = 1
    OBVIOUS
  <2>2. DOMAIN one = D
    OBVIOUS
  <2>. HIDE DEF one, D
  <2>3. SumFunctionOnSet(one, D) = 1 * Cardinality(D)
    BY <1>2, <2>1, SumConst
  <2>. QED
    BY <1>2, <2>2, <2>3, TotalIs
<1>5. SumFunctionOnSet(base, D) = b * n
  <2>1. \A i \in D : base[i] = b
    OBVIOUS
  <2>2. b \in Int
    BY <1>1
  <2>. HIDE DEF base, D, b
  <2>. QED
    BY <1>2, <2>1, <2>2, SumConst
<1>6. SumFunctionOnSet(more, D) = r
  <2>1. \A i \in D : more[i] = IF i \in 1 .. r THEN 1 ELSE 0
    OBVIOUS
  <2>2. 1 .. r \subseteq D
    BY <1>1
  <2>. HIDE DEF more, D, r
  <2>. QED
    BY <1>2, <2>1, <2>2, SumCount
<1>7. SumFunctionOnSet(share, D) = SumFunctionOnSet(base, D) + SumFunctionOnSet(more, D)
  <2>1. \A i \in D : base[i] \in Int /\ more[i] \in Int /\ share[i] = base[i] + more[i]
    BY <1>1, <1>3
  <2>. HIDE DEF more, D, base, share
  <2>. QED
    BY <1>2, <2>1, SumPlus
<1>8. Total(share) = total
  <2>1. b * n = n * b
    BY <1>1
  <2>2. b * n \in Int
    BY <1>1, TimesNat
  <2>. HIDE DEF more, D, base, share, b, r
  <2>. QED
    BY <1>1, <1>3, <1>5, <1>6, <1>7, <2>1, <2>2, TotalIs
<1>9. ASSUME NEW i \in D
      PROVE  /\ Excess(share, one, total, i) = more[i] * n - r
             /\ more[i] \in {0, 1} /\ (more[i] = 1 => r > 0)
             /\ Excess(share, one, total, i) \in Int
  <2>1. one[i] = 1 /\ more[i] \in {0, 1} /\ (more[i] = 1 => r > 0)
    BY <1>1
  <2>2. share[i] * n = n * b + more[i] * n
    <3>1. \A m \in Nat : (b + m) * n = n * b + m * n
      BY <1>1
    <3>2. share[i] = b + more[i]
      BY <1>3
    <3>. HIDE DEF more, b, share
    <3>. QED
      BY <2>1, <3>1, <3>2
  <2>3. Excess(share, one, total, i) = share[i] * n - total * 1
    <3>. HIDE DEF share, one, D
    <3>. QED
      BY <1>4, <2>1 DEF Excess
  <2>4. n * b \in Nat
    BY <1>1, TimesNat
  <2>. HIDE DEF more, b, r, share, one
  <2>. QED
    BY <1>1, <2>1, <2>2, <2>3, <2>4
<1>10. ASSUME NEW i \in D
       PROVE  /\ Excess(share, one, total, i) \in Int
              /\ -r <= Excess(share, one, total, i)
              /\ Excess(share, one, total, i) <= n - r
              /\ -n < Excess(share, one, total, i) /\ Excess(share, one, total, i) < n
  <2>1. more[i] * n = IF more[i] = 1 THEN n ELSE 0
    BY <1>9
  <2>. HIDE DEF more, b, r, share, one
  <2>. QED
    BY <1>1, <1>9, <2>1
<1>. HIDE DEF more, b, r, share, one, base
<1>11. Fair(share, one, total)
  <2>1. \A i, k \in D : Excess(share, one, total, i) - Excess(share, one, total, k) <= n
    BY <1>1, <1>10
  <2>. QED
    BY <1>3, <1>4, <1>8, <1>10, <2>1 DEF Fair
<1>. QED
  BY <1>3, <1>11 DEF share, one

\* A weight for each of n people.
Weights(weight, n) == n \in Nat \ {0} /\ weight \in [1 .. n -> Nat \ {0}]

\* What is left over is shared out one by one: it is the whole of the remainders, and
\* less than would go round.
LEMMA LeftoverFits ==
  ASSUME NEW total \in Nat, NEW n, NEW weight, Weights(weight, n)
  PROVE  /\ Total(weight) \in Nat \ {0}
         /\ Leftover(total, weight) \in 0 .. n
         /\ SumFunctionOnSet(Remainder(total, weight), 1 .. n)
              = Total(weight) * Leftover(total, weight)
         /\ SumFunctionOnSet(Floor(total, weight), 1 .. n) = total - Leftover(total, weight)
         /\ \A i \in 1 .. n :
              /\ Floor(total, weight)[i] \in Nat /\ Remainder(total, weight)[i] \in Nat
              /\ Remainder(total, weight)[i] < Total(weight)
              /\ total * weight[i]
                   = Total(weight) * Floor(total, weight)[i] + Remainder(total, weight)[i]
<1>. DEFINE D == 1 .. n
            W == Total(weight)
            part == [i \in D |-> total * weight[i]]
            floor == Floor(total, weight)
            rem == Remainder(total, weight)
            whole == [i \in D |-> W * floor[i]]
            most == [i \in D |-> W - 1]
            L == Leftover(total, weight)
<1>1. /\ n \in Nat /\ n >= 1 /\ DOMAIN weight = D /\ \A i \in D : weight[i] \in Nat /\ weight[i] >= 1
      /\ IsFiniteSet(D) /\ Cardinality(D) = n
  <2>1. n \in Nat \ {0} /\ weight \in [1 .. n -> Nat \ {0}]
    BY DEF Weights
  <2>2. IsFiniteSet(D) /\ Cardinality(D) = n
    BY <2>1, FS_Interval
  <2>. QED
    BY <2>1, <2>2
<1>2. W \in Nat /\ W >= 1
  <2>. DEFINE one == [i \in D |-> 1]
  <2>1. \A i \in D : one[i] \in Int /\ one[i] = 1 /\ weight[i] \in Int /\ one[i] <= weight[i]
    BY <1>1
  <2>. HIDE DEF one, D
  <2>2. SumFunctionOnSet(one, D) = 1 * Cardinality(D)
    BY <1>1, <2>1, SumConst
  <2>3. SumFunctionOnSet(one, D) <= SumFunctionOnSet(weight, D)
    BY <1>1, <2>1, SumAtMost
  <2>4. SumFunctionOnSet(weight, D) \in Int
    BY <1>1, <2>1, SumInt
  <2>. QED
    BY <1>1, <2>2, <2>3, <2>4, TotalIs
<1>3. ASSUME NEW i \in D
      PROVE  /\ part[i] \in Nat /\ floor[i] \in Nat /\ rem[i] \in Nat /\ rem[i] < W
             /\ part[i] = W * floor[i] + rem[i] /\ part[i] = total * weight[i]
  <2>1. weight[i] \in Nat /\ part[i] = total * weight[i]
    BY <1>1
  <2>2. part[i] \in Nat
    BY <2>1, TimesNat
  <2>3. floor[i] = part[i] \div W /\ rem[i] = part[i] % W
    BY <1>1 DEF Floor, Remainder
  <2>. HIDE DEF part, floor, rem, W
  <2>4. /\ part[i] \div W \in Nat /\ part[i] % W \in Nat /\ part[i] % W < W
        /\ part[i] = W * (part[i] \div W) + (part[i] % W)
    <3>1. W \in Nat \ {0}
      BY <1>2
    <3>. QED
      BY <2>2, <3>1, DivMod
  <2>. QED
    BY <2>1, <2>2, <2>3, <2>4
<1>4. \A i \in D : whole[i] = W * floor[i] /\ whole[i] \in Nat
  <2>. HIDE DEF floor, W
  <2>. QED
    BY <1>2, <1>3, TimesNat
<1>5. ASSUME NEW i \in D
      PROVE  /\ weight[i] \in Int /\ part[i] = total * weight[i] /\ floor[i] \in Int
             /\ rem[i] \in Int /\ whole[i] \in Int /\ part[i] = whole[i] + rem[i]
             /\ most[i] = W - 1 /\ most[i] \in Int /\ rem[i] <= most[i]
  <2>1. most[i] = W - 1
    OBVIOUS
  <2>2. part[i] = whole[i] + rem[i]
    BY <1>3, <1>4
  <2>. HIDE DEF part, floor, rem, W, whole, most, D
  <2>. QED
    BY <1>1, <1>2, <1>3, <1>4, <2>1, <2>2
<1>6. DOMAIN floor = D
  BY <1>1 DEF Floor
<1>7. W = SumFunctionOnSet(weight, D) /\ L = total - SumFunctionOnSet(floor, D)
  BY <1>1, <1>6, TotalIs DEF Leftover
<1>. HIDE DEF part, floor, rem, W, whole, most, D, L
<1>8. /\ SumFunctionOnSet(part, D) = total * W
      /\ SumFunctionOnSet(part, D) = SumFunctionOnSet(whole, D) + SumFunctionOnSet(rem, D)
      /\ SumFunctionOnSet(whole, D) = W * SumFunctionOnSet(floor, D)
      /\ SumFunctionOnSet(most, D) = (W - 1) * n
      /\ SumFunctionOnSet(rem, D) <= SumFunctionOnSet(most, D)
  <2>1. SumFunctionOnSet(part, D) = total * W
    BY <1>1, <1>5, <1>7, SumTimes
  <2>2. SumFunctionOnSet(part, D) = SumFunctionOnSet(whole, D) + SumFunctionOnSet(rem, D)
    BY <1>1, <1>5, SumPlus
  <2>3. SumFunctionOnSet(whole, D) = W * SumFunctionOnSet(floor, D)
    BY <1>1, <1>2, <1>4, <1>5, SumTimes
  <2>4. SumFunctionOnSet(most, D) = (W - 1) * n
    BY <1>1, <1>2, <1>5, SumConst
  <2>5. SumFunctionOnSet(rem, D) <= SumFunctionOnSet(most, D)
    BY <1>1, <1>5, SumAtMost
  <2>. QED
    BY <2>1, <2>2, <2>3, <2>4, <2>5
<1>9. SumFunctionOnSet(rem, D) \in Nat /\ SumFunctionOnSet(floor, D) \in Int
  BY <1>1, <1>3, <1>5, SumNat, SumInt
<1>10. SumFunctionOnSet(rem, D) = W * L /\ L \in Int
  <2>1. \A a, b \in Int : W * (a - b) = W * a - W * b
    BY <1>2
  <2>2. total * W = W * total /\ total * W \in Int
    BY <1>2, TimesNat
  <2>3. W * L = W * total - W * SumFunctionOnSet(floor, D)
    BY <1>7, <1>9, <2>1
  <2>4. W * SumFunctionOnSet(floor, D) \in Int
    BY <1>2, <1>9
  <2>. QED
    BY <1>7, <1>8, <1>9, <2>2, <2>3, <2>4
<1>11. L >= 0 /\ L <= n
  <2>1. W * L >= 0 /\ W * L <= (W - 1) * n
    BY <1>8, <1>10, <1>9
  <2>2. PICK w \in Nat, l \in Int : w = W /\ l = L /\ w >= 1
    BY <1>2, <1>10
  <2>3. w * l >= 0 /\ w * l <= (w - 1) * n
    BY <2>1, <2>2
  <2>4. l >= 0
    BY <2>2, <2>3
  <2>5. l <= n
    <3>1. (w - 1) * n = w * n - n
      BY <1>1, <2>2
    <3>2. l > n => w * l > w * n
      BY <1>1, <2>2
    <3>3. w * n \in Int /\ w * l \in Int
      BY <1>1, <2>2
    <3>. QED
      BY <1>1, <2>2, <2>3, <3>1, <3>2, <3>3
  <2>. QED
    BY <2>2, <2>4, <2>5
<1>. QED
  BY <1>1, <1>2, <1>3, <1>7, <1>9, <1>10, <1>11 DEF W, floor, rem, L, D

LEMMA AheadOrders ==
  ASSUME NEW total \in Nat, NEW n, NEW weight, Weights(weight, n)
  PROVE  Orders(Ahead(total, weight), 1 .. n)
<1>. DEFINE rem == Remainder(total, weight)
<1>1. DOMAIN weight = 1 .. n /\ n \in Nat /\ \A i \in 1 .. n : rem[i] \in Int
  <2>1. DOMAIN weight = 1 .. n /\ n \in Nat
    BY DEF Weights
  <2>2. \A i \in 1 .. n : rem[i] \in Nat
    BY LeftoverFits
  <2>. QED
    BY <2>1, <2>2
<1>2. \A i, j \in 1 .. n :
        <<i, j>> \in Ahead(total, weight) <=> rem[i] > rem[j] \/ (rem[i] = rem[j] /\ i < j)
  BY <1>1 DEF Ahead
<1>. HIDE DEF rem
<1>3. \A i, j \in 1 .. n : i # j => <<i, j>> \in Ahead(total, weight) \/ <<j, i>> \in Ahead(total, weight)
  BY <1>1, <1>2
<1>4. \A i \in 1 .. n : <<i, i>> \notin Ahead(total, weight)
  BY <1>1, <1>2
<1>5. ASSUME NEW i \in 1 .. n, NEW j \in 1 .. n, NEW k \in 1 .. n,
             <<i, j>> \in Ahead(total, weight), <<j, k>> \in Ahead(total, weight)
      PROVE  <<i, k>> \in Ahead(total, weight)
  <2>1. rem[i] \in Int /\ rem[j] \in Int /\ rem[k] \in Int
    BY <1>1
  <2>2. rem[i] > rem[j] \/ (rem[i] = rem[j] /\ i < j)
    BY <1>2, <1>5
  <2>3. rem[j] > rem[k] \/ (rem[j] = rem[k] /\ j < k)
    BY <1>2, <1>5
  <2>4. rem[i] > rem[k] \/ (rem[i] = rem[k] /\ i < k)
    BY <1>1, <2>1, <2>2, <2>3
  <2>. QED
    BY <1>2, <2>4
<1>. QED
  BY <1>3, <1>4, <1>5 DEF Orders

LEMMA AllocateByWeightIs ==
  ASSUME NEW total, NEW weight
  PROVE  AllocateByWeight(total, weight) =
           [i \in DOMAIN weight |-> Floor(total, weight)[i]
              + (IF i \in Favoured(total, weight) THEN 1 ELSE 0)]
<1>. DEFINE D == DOMAIN weight
            rem == Remainder(total, weight)
            Before(j, i) == rem[j] > rem[i] \/ (rem[j] = rem[i] /\ j < i)
<1>1. ASSUME NEW i \in D
      PROVE  Cardinality({j \in D : Before(j, i)}) = Rank(Ahead(total, weight), D, i)
  <2>1. {j \in D : Before(j, i)} = {j \in D : <<j, i>> \in Ahead(total, weight)}
    BY DEF Ahead
  <2>. QED
    BY <2>1 DEF Rank
<1>2. AllocateByWeight(total, weight) =
        [i \in D |-> Floor(total, weight)[i]
           + (IF Cardinality({j \in D : Before(j, i)}) < Leftover(total, weight) THEN 1 ELSE 0)]
  BY DEF AllocateByWeight, Floor, Remainder, Leftover
<1>3. \A i \in D : i \in Favoured(total, weight)
                   <=> Cardinality({j \in D : Before(j, i)}) < Leftover(total, weight)
  BY <1>1 DEF Favoured
<1>. HIDE DEF Before
<1>. QED
  BY <1>2, <1>3

\* Nobody is favoured whose share was exact, nor over one with a greater remainder.
LEMMA FavouredLack ==
  ASSUME NEW total \in Nat, NEW n, NEW weight, Weights(weight, n), NEW i \in Favoured(total, weight)
  PROVE  /\ Remainder(total, weight)[i] > 0
         /\ \A k \in 1 .. n : k \notin Favoured(total, weight) =>
              Remainder(total, weight)[k] <= Remainder(total, weight)[i]
<1>. DEFINE D == 1 .. n
            R == Ahead(total, weight)
            rem == Remainder(total, weight)
            W == Total(weight)
            L == Leftover(total, weight)
<1>1. /\ DOMAIN weight = D /\ n \in Nat /\ IsFiniteSet(D) /\ Orders(R, D)
      /\ i \in D /\ Rank(R, D, i) < L
  <2>1. DOMAIN weight = D /\ n \in Nat
    BY DEF Weights
  <2>2. IsFiniteSet(D)
    BY <2>1, FS_Interval
  <2>. QED
    BY <2>1, <2>2, AheadOrders DEF Favoured
<1>2. /\ W \in Nat /\ W >= 1 /\ L \in Int /\ SumFunctionOnSet(rem, D) = W * L
      /\ \A j \in D : rem[j] \in Nat /\ rem[j] < W
  <2>1. /\ W \in Nat \ {0} /\ L \in 0 .. n /\ SumFunctionOnSet(rem, D) = W * L
        /\ \A j \in D : rem[j] \in Nat /\ rem[j] < W
    BY LeftoverFits
  <2>. HIDE DEF rem, W, L, D
  <2>. QED
    BY <2>1
<1>3. \A j, k \in D : <<j, k>> \in R <=> rem[j] > rem[k] \/ (rem[j] = rem[k] /\ j < k)
  BY <1>1 DEF Ahead
<1>4. ASSUME NEW k \in D, k \notin Favoured(total, weight) PROVE rem[k] <= rem[i]
  <2>1. ~ (Rank(R, D, k) < L)
    BY <1>1, <1>4 DEF Favoured
  <2>2. Rank(R, D, k) \in Int /\ Rank(R, D, i) \in Int
    BY <1>1, RankType
  <2>3. <<k, i>> \notin R
    <3>1. <<k, i>> \in R => Rank(R, D, k) < Rank(R, D, i)
      BY <1>1, RankAscends
    <3>. HIDE DEF R, D, L
    <3>. QED
      BY <1>1, <1>2, <2>1, <2>2, <3>1
  <2>. HIDE DEF R, D, L, rem
  <2>. QED
    BY <1>1, <1>2, <1>3, <2>3
<1>5. ASSUME rem[i] = 0 PROVE FALSE
  <2>. DEFINE Pos == {j \in D : rem[j] > 0}
              cap == [j \in D |-> (W - 1) * (IF j \in Pos THEN 1 ELSE 0)]
              mark == [j \in D |-> IF j \in Pos THEN 1 ELSE 0]
              B == {j \in D : <<j, i>> \in R}
  <2>1. Pos \in SUBSET B /\ IsFiniteSet(B) /\ IsFiniteSet(Pos) /\ Pos \subseteq D
    <3>1. B \in SUBSET D /\ Pos \in SUBSET D /\ Pos \in SUBSET B
      <4>. HIDE DEF R, rem
      <4>. QED
        BY <1>1, <1>2, <1>3, <1>5
    <3>. HIDE DEF B, Pos, D
    <3>. QED
      BY <1>1, <3>1, FS_Subset
  <2>2. Cardinality(Pos) \in Nat /\ Cardinality(Pos) <= L - 1
    <3>1. Rank(R, D, i) = Cardinality(B)
      BY DEF Rank
    <3>. HIDE DEF B, Pos, D, R, L
    <3>2. /\ Cardinality(Pos) \in Nat /\ Cardinality(B) \in Nat
          /\ Cardinality(Pos) <= Cardinality(B)
      BY <2>1, FS_Subset, FS_CardinalityType
    <3>. QED
      BY <1>1, <1>2, <3>1, <3>2
  <2>3. /\ \A j \in D : mark[j] = IF j \in Pos THEN 1 ELSE 0
        /\ \A j \in D : mark[j] \in Int /\ cap[j] = (W - 1) * mark[j]
    OBVIOUS
  <2>4. \A j \in D : rem[j] \in Int /\ cap[j] \in Int /\ rem[j] <= cap[j]
    <3>. SUFFICES ASSUME NEW j \in D
                  PROVE  rem[j] \in Int /\ cap[j] \in Int /\ rem[j] <= cap[j]
      OBVIOUS
    <3>1. cap[j] = IF rem[j] > 0 THEN W - 1 ELSE 0
      <4>. HIDE DEF rem, W
      <4>. QED
        BY <1>2
    <3>. HIDE DEF rem, W, cap, D
    <3>. QED
      BY <1>2, <3>1
  <2>. HIDE DEF rem, W, cap, mark, D, Pos, L, B, R
  <2>5. SumFunctionOnSet(mark, D) = Cardinality(Pos)
    BY <1>1, <2>1, <2>3, SumCount
  <2>6. SumFunctionOnSet(cap, D) = (W - 1) * SumFunctionOnSet(mark, D)
    <3>1. W - 1 \in Int
      BY <1>2
    <3>. QED
      BY <1>1, <2>3, <3>1, SumTimes
  <2>7. SumFunctionOnSet(rem, D) <= SumFunctionOnSet(cap, D)
    BY <1>1, <2>4, SumAtMost
  <2>8. W * L <= (W - 1) * Cardinality(Pos)
    BY <1>2, <2>5, <2>6, <2>7
  <2>9. PICK w \in Nat, l \in Int, p \in Nat :
          w = W /\ l = L /\ p = Cardinality(Pos) /\ w >= 1 /\ p <= l - 1
    BY <1>2, <2>2
  <2>10. w * l <= (w - 1) * p
    BY <2>8, <2>9
  <2>11. (w - 1) * p <= (w - 1) * (l - 1)
    BY <2>9
  <2>12. (w - 1) * (l - 1) = w * l - w - l + 1
    BY <2>9
  <2>13. w * l \in Int /\ (w - 1) * p \in Int
    BY <2>9
  <2>. QED
    BY <2>9, <2>10, <2>11, <2>12, <2>13
<1>. HIDE DEF rem, D
<1>6. rem[i] > 0
  BY <1>1, <1>2, <1>5
<1>. QED
  BY <1>4, <1>6 DEF rem, D

LEMMA WeightedIsFair ==
  ASSUME NEW total \in Nat, NEW n, NEW weight, Weights(weight, n)
  PROVE  /\ AllocateByWeight(total, weight) \in [1 .. n -> Nat]
         /\ Fair(AllocateByWeight(total, weight), weight, total)
<1>. DEFINE D == 1 .. n
            W == Total(weight)
            L == Leftover(total, weight)
            floor == Floor(total, weight)
            rem == Remainder(total, weight)
            F == Favoured(total, weight)
            more == [i \in D |-> IF i \in F THEN 1 ELSE 0]
            share == AllocateByWeight(total, weight)
<1>1. /\ DOMAIN weight = D /\ n \in Nat /\ \A i \in D : weight[i] \in Nat
      /\ IsFiniteSet(D) /\ Cardinality(D) = n
  <2>1. DOMAIN weight = D /\ n \in Nat /\ \A i \in D : weight[i] \in Nat
    BY DEF Weights
  <2>2. IsFiniteSet(D) /\ Cardinality(D) = n
    BY <2>1, FS_Interval
  <2>. QED
    BY <2>1, <2>2
<1>2. /\ W \in Nat /\ W >= 1 /\ L \in Int /\ SumFunctionOnSet(floor, D) = total - L
      /\ \A i \in D : /\ floor[i] \in Nat /\ rem[i] \in Nat /\ rem[i] < W
                      /\ total * weight[i] = W * floor[i] + rem[i]
  <2>1. W \in Nat \ {0} /\ L \in 0 .. n /\ SumFunctionOnSet(floor, D) = total - L
    BY LeftoverFits
  <2>2. \A i \in D : floor[i] \in Nat /\ rem[i] \in Nat /\ rem[i] < W
    BY LeftoverFits
  <2>3. \A i \in D : total * weight[i] = W * floor[i] + rem[i]
    BY LeftoverFits
  <2>. HIDE DEF W, L, D, floor, rem
  <2>. QED
    BY <2>1, <2>2, <2>3
<1>3. Cardinality(F) = L /\ F \subseteq D
  <2>1. F = {i \in D : Rank(Ahead(total, weight), D, i) < L}
    BY <1>1 DEF Favoured
  <2>2. L \in 0 .. Cardinality(D)
    BY <1>1, LeftoverFits
  <2>3. Orders(Ahead(total, weight), D)
    BY AheadOrders
  <2>. HIDE DEF L, D, F
  <2>. QED
    BY <1>1, <2>1, <2>2, <2>3, RankBelow
<1>4. /\ share \in [D -> Nat] /\ DOMAIN share = D
      /\ \A i \in D : share[i] = floor[i] + more[i]
  <2>1. share = [i \in D |-> floor[i] + (IF i \in F THEN 1 ELSE 0)]
    BY <1>1, AllocateByWeightIs
  <2>. HIDE DEF share, floor, F
  <2>. QED
    BY <1>2, <2>1
<1>5. \A i \in D : /\ more[i] = IF i \in F THEN 1 ELSE 0
                   /\ more[i] \in {0, 1} /\ (more[i] = 1 <=> i \in F)
  OBVIOUS
<1>. HIDE DEF W, L, D, floor, rem, F, more, share
<1>6. Total(share) = total
  <2>1. SumFunctionOnSet(more, D) = L
    BY <1>1, <1>3, <1>5, SumCount
  <2>2. SumFunctionOnSet(share, D) = SumFunctionOnSet(floor, D) + SumFunctionOnSet(more, D)
    <3>1. \A i \in D : floor[i] \in Int /\ more[i] \in Int /\ share[i] = floor[i] + more[i]
      BY <1>2, <1>4, <1>5
    <3>. QED
      BY <1>1, <3>1, SumPlus
  <2>. QED
    BY <1>2, <1>4, <2>1, <2>2, TotalIs
<1>7. ASSUME NEW i \in D
      PROVE  Excess(share, weight, total, i) = more[i] * W - rem[i]
  <2>1. PICK w \in Nat, a \in Nat, m \in Nat, q \in Nat :
          w = W /\ a = floor[i] /\ m = more[i] /\ q = rem[i]
    BY <1>2, <1>5
  <2>2. Excess(share, weight, total, i) = (a + m) * w - (w * a + q)
    BY <1>2, <1>4, <2>1 DEF Excess, W
  <2>3. (a + m) * w = w * a + m * w
    BY <2>1
  <2>4. w * a \in Int /\ m * w \in Int
    BY <2>1
  <2>. QED
    BY <2>1, <2>2, <2>3, <2>4
<1>8. ASSUME NEW i \in D
      PROVE  /\ Excess(share, weight, total, i) = (IF i \in F THEN W ELSE 0) - rem[i]
             /\ Excess(share, weight, total, i) \in Int
             /\ -W < Excess(share, weight, total, i) /\ Excess(share, weight, total, i) < W
  <2>1. more[i] * W = IF i \in F THEN W ELSE 0
    BY <1>2, <1>5
  <2>2. i \in F => rem[i] > 0
    BY FavouredLack DEF F, rem
  <2>. QED
    BY <1>2, <1>7, <2>1, <2>2
<1>9. ASSUME NEW i \in D, NEW k \in D
      PROVE  Excess(share, weight, total, i) - Excess(share, weight, total, k) <= W
  <2>1. i \in F /\ k \notin F => rem[k] <= rem[i]
    BY FavouredLack DEF F, rem, D
  <2>2. rem[i] \in Nat /\ rem[k] \in Nat /\ rem[i] < W /\ rem[k] < W /\ W \in Nat
    BY <1>2
  <2>. QED
    BY <1>8, <2>1, <2>2
<1>10. Fair(share, weight, total)
  BY <1>4, <1>6, <1>8, <1>9 DEF Fair, W
<1>. QED
  BY <1>4, <1>10 DEF share, D

-----------------------------------------------------------------------------
(* A bill *)

People(b) == b.party + (IF b.includeSelf THEN 1 ELSE 0)

WeightOf(b) ==
  IF b.weight = << >> THEN [i \in 1 .. People(b) |-> 1]
  ELSE IF b.includeSelf THEN <<b.selfWeight>> \o b.weight ELSE b.weight

LEMMA BillShape ==
  ASSUME NEW b \in BillInput
  PROVE  /\ b.total \in Nat /\ b.total >= 1 /\ b.party \in Nat /\ b.party >= 1
         /\ b.includeSelf \in BOOLEAN
         /\ People(b) \in Nat \ {0} /\ People(b) = IF b.includeSelf THEN b.party + 1 ELSE b.party
         /\ b.weight # << >> => Weights(WeightOf(b), People(b))
<1>1. /\ b.total \in 1 .. MaxTotal /\ b.party \in 1 .. MaxParty /\ b.includeSelf \in BOOLEAN
      /\ b.weight # << >> => /\ b.weight \in [1 .. b.party -> 1 .. MaxWeight]
                             /\ b.selfWeight \in 1 .. MaxWeight
  BY DEF BillInput
<1>2. People(b) \in Nat \ {0} /\ People(b) = IF b.includeSelf THEN b.party + 1 ELSE b.party
  BY <1>1, SplitsAssumption DEF People
<1>3. ASSUME b.weight # << >> PROVE Weights(WeightOf(b), People(b))
  <2>1. b.party \in Nat /\ b.weight \in [1 .. b.party -> Nat \ {0}] /\ b.selfWeight \in Nat \ {0}
    BY <1>1, <1>3, SplitsAssumption
  <2>2. CASE b.includeSelf
    <3>1. /\ b.weight \in Seq(Nat \ {0}) /\ Len(b.weight) = b.party
          /\ <<b.selfWeight>> \in Seq(Nat \ {0}) /\ Len(<<b.selfWeight>>) = 1
      BY <2>1
    <3>2. /\ <<b.selfWeight>> \o b.weight \in Seq(Nat \ {0})
          /\ Len(<<b.selfWeight>> \o b.weight) = b.party + 1
      BY <2>1, <3>1
    <3>3. <<b.selfWeight>> \o b.weight \in [1 .. b.party + 1 -> Nat \ {0}]
      <4>1. \A all \in Seq(Nat \ {0}) : all \in [1 .. Len(all) -> Nat \ {0}]
        OBVIOUS
      <4>. QED
        BY <3>2, <4>1
    <3>. QED
      BY <1>2, <1>3, <2>2, <3>3 DEF Weights, WeightOf
  <2>3. CASE ~ b.includeSelf
    BY <1>2, <1>3, <2>1, <2>3 DEF Weights, WeightOf
  <2>. QED
    BY <1>1, <2>2, <2>3
<1>. QED
  BY <1>1, <1>2, <1>3, SplitsAssumption

LEMMA AllocateIsFair ==
  ASSUME NEW b \in BillInput
  PROVE  /\ Allocate(b) \in [1 .. People(b) -> Nat]
         /\ Fair(Allocate(b), WeightOf(b), b.total)
<1>1. /\ b.total \in Nat /\ People(b) \in Nat \ {0}
      /\ b.weight # << >> => Weights(WeightOf(b), People(b))
  BY BillShape
<1>2. CASE b.weight = << >>
  <2>1. /\ Allocate(b) = AllocateEvenly(b.total, People(b))
        /\ WeightOf(b) = [i \in 1 .. People(b) |-> 1]
    BY <1>2 DEF Allocate, People, WeightOf
  <2>. QED
    BY <1>1, <2>1, EvenIsFair
<1>3. CASE b.weight # << >>
  <2>1. Allocate(b) = AllocateByWeight(b.total, WeightOf(b))
    BY <1>3 DEF Allocate, WeightOf
  <2>. QED
    BY <1>1, <1>3, <2>1, WeightedIsFair
<1>. QED
  BY <1>2, <1>3

\* Whatever is split between however many, with or without weights: the shares add up
\* to the bill, so createSplit never refuses one for its sum (split.service.ts:94-99).
THEOREM NothingLost == \A b \in BillInput : Total(Allocate(b)) = b.total
BY AllocateIsFair DEF Fair

-----------------------------------------------------------------------------
(* What people are shown *)

\* The legs ask for what createSplit computed, whatever has become of them.
BillInv ==
  IF bill = NoBill THEN leg = << >>
  ELSE /\ bill \in BillInput
       /\ DOMAIN leg = 1 .. bill.party
       /\ \A i \in DOMAIN leg : leg[i].amount = LegShares(bill)[i]

Asked == [i \in DOMAIN leg |-> leg[i].amount]

LEMMA BillInvariance == SplitSpec => []BillInv
<1>1. SplitInit => BillInv
  BY DEF SplitInit, BillInv
<1>2. ASSUME BillInv, [SplitNext]_splitVars PROVE BillInv'
  <2>1. CASE UNCHANGED splitVars
    BY <1>2, <2>1 DEF BillInv, splitVars
  <2>2. ASSUME NEW b \in BillInput, CreateSplit(b) PROVE BillInv'
    <3>1. b # NoBill
      <4>1. b.total >= 1 /\ NoBill.total = 0
        BY BillShape DEF NoBill
      <4>. QED
        BY <4>1
    <3>. QED
      BY <2>2, <3>1 DEF CreateSplit, BillInv
  <2>3. ASSUME NEW i \in DOMAIN leg, NEW s, LegEnds(i, s) PROVE BillInv'
    <3>1. /\ bill' = bill /\ DOMAIN leg' = DOMAIN leg
          /\ \A k \in DOMAIN leg : leg'[k].amount = leg[k].amount
      BY <2>3 DEF LegEnds
    <3>2. leg # << >>
      OBVIOUS
    <3>. QED
      BY <1>2, <3>1, <3>2 DEF BillInv
  <2>. QED
    BY <1>2, <2>1, <2>2, <2>3 DEF SplitNext
<1>. QED
  BY <1>1, <1>2, PTL DEF SplitSpec

\* What was asked for and what is left to the creator are the shares allocated.
LEMMA LegsAre ==
  ASSUME BillInv, bill # NoBill
  PROVE  /\ Legs(DOMAIN leg) = SumFunctionOnSet(Asked, DOMAIN leg)
         /\ IsFiniteSet(DOMAIN leg) /\ \A i \in DOMAIN leg : Asked[i] \in Nat
         /\ (IF bill.includeSelf THEN <<Detail.yourShare>> \o Asked ELSE Asked) = Allocate(bill)
<1>. DEFINE n == bill.party
            all == Allocate(bill)
<1>1. /\ bill \in BillInput /\ DOMAIN leg = 1 .. n
      /\ \A i \in 1 .. n : leg[i].amount = LegShares(bill)[i]
  BY DEF BillInv
<1>2. /\ n \in Nat /\ bill.includeSelf \in BOOLEAN /\ bill.total \in Nat
      /\ People(bill) = IF bill.includeSelf THEN n + 1 ELSE n
  BY <1>1, BillShape
<1>3. all \in [1 .. People(bill) -> Nat] /\ Total(all) = bill.total
  BY <1>1, AllocateIsFair DEF Fair
<1>4. Legs(DOMAIN leg) = SumFunctionOnSet(Asked, DOMAIN leg) /\ DOMAIN Asked = 1 .. n
  BY <1>1, TotalIs DEF Legs, Asked
<1>5. IsFiniteSet(DOMAIN leg)
  BY <1>1, <1>2, FS_Interval
<1>. HIDE DEF all, n
<1>6. CASE ~ bill.includeSelf
  <2>1. \A i \in 1 .. n : Asked[i] = all[i]
    BY <1>1, <1>6 DEF Asked, LegShares, all
  <2>2. Asked = all
    BY <1>1, <1>2, <1>3, <1>4, <1>6, <2>1 DEF Asked
  <2>. QED
    BY <1>1, <1>2, <1>3, <1>4, <1>5, <1>6, <2>1, <2>2 DEF all
<1>7. CASE bill.includeSelf
  <2>1. all \in Seq(Nat) /\ Len(all) = n + 1 /\ all \in [1 .. n + 1 -> Nat]
    BY <1>2, <1>3, <1>7
  <2>2. \A i \in 1 .. n : Tail(all)[i] = all[i + 1]
    BY <1>2, <2>1
  <2>3. \A i \in 1 .. n : Asked[i] = all[i + 1] /\ Asked[i] \in Nat
    <3>1. \A i \in 1 .. n : Asked[i] = Tail(all)[i]
      BY <1>1, <1>7 DEF Asked, LegShares, all
    <3>2. \A i \in 1 .. n : i + 1 \in 1 .. n + 1
      BY <1>2
    <3>. QED
      BY <2>1, <2>2, <3>1, <3>2
  <2>4. SumFunctionOnSet(all, 1 .. n + 1) = all[1] + SumFunctionOnSet(Asked, 1 .. n)
    <3>1. \A i \in 1 .. n + 1 : all[i] \in Int
      BY <2>1
    <3>. QED
      BY <1>2, <2>3, <3>1, SumTail
  <2>5. Detail.yourShare = all[1]
    <3>1. Detail.yourShare = bill.total - Legs(DOMAIN leg)
      BY DEF Detail
    <3>2. bill.total = SumFunctionOnSet(all, 1 .. n + 1)
      BY <1>3, <2>1, TotalIs
    <3>3. SumFunctionOnSet(Asked, 1 .. n) \in Int /\ all[1] \in Int
      <4>1. \A i \in 1 .. n : Asked[i] \in Int
        BY <2>3
      <4>. QED
        BY <1>1, <1>2, <1>5, <2>1, <4>1, SumInt
    <3>. QED
      BY <1>1, <1>4, <2>4, <3>1, <3>2, <3>3
  <2>6. <<all[1]>> \o Asked = all
    <3>1. Asked \in Seq(Nat) /\ Len(Asked) = n
      BY <1>1, <1>2, <2>3 DEF Asked
    <3>2. /\ <<all[1]>> \o Asked \in Seq(Nat) /\ Len(<<all[1]>> \o Asked) = n + 1
          /\ \A i \in 1 .. n + 1 : (<<all[1]>> \o Asked)[i] = all[i]
      <4>1. <<all[1]>> \in Seq(Nat) /\ Len(<<all[1]>>) = 1 /\ <<all[1]>>[1] = all[1]
        BY <1>2, <2>1
      <4>2. \A i \in 1 .. n + 1 : (<<all[1]>> \o Asked)[i] = IF i = 1 THEN all[1] ELSE Asked[i - 1]
        BY <1>2, <3>1, <4>1
      <4>3. \A i \in 1 .. n + 1 : i # 1 => i - 1 \in 1 .. n /\ (i - 1) + 1 = i
        BY <1>2
      <4>4. \A i \in 1 .. n + 1 : i # 1 => Asked[i - 1] = all[i]
        BY <2>3, <4>3
      <4>. QED
        BY <1>2, <3>1, <4>1, <4>2, <4>4
    <3>3. \A u, v \in Seq(Nat) :
            Len(u) = Len(v) /\ (\A i \in 1 .. Len(u) : u[i] = v[i]) => u = v
      OBVIOUS
    <3>. QED
      BY <2>1, <3>2, <3>3
  <2>. QED
    BY <1>1, <1>4, <1>5, <1>7, <2>3, <2>5, <2>6 DEF all
<1>. QED
  BY <1>2, <1>6, <1>7

\* The shares of every bill, of any amount, between any people with any weights, are
\* fair, in the legs and in what the creator is shown of his own share (allocate.ts).
THEOREM EveryBillIsFair == SplitSpec => []SharesAreFair
<1>1. ASSUME BillInv, bill # NoBill PROVE SharesAreFair
  <2>1. bill \in BillInput
    BY <1>1 DEF BillInv
  <2>2. /\ Allocate(bill) \in [1 .. People(bill) -> Nat]
        /\ Fair(Allocate(bill), WeightOf(bill), bill.total)
    BY <2>1, AllocateIsFair
  <2>. DEFINE share == IF bill.includeSelf THEN <<Detail.yourShare>> \o Asked ELSE Asked
              weight == IF bill.weight = << >> THEN [i \in DOMAIN share |-> 1]
                        ELSE IF bill.includeSelf THEN <<bill.selfWeight>> \o bill.weight
                        ELSE bill.weight
              excess == [i \in DOMAIN share |->
                           share[i] * Total(weight) - bill.total * weight[i]]
  <2>3. share = Allocate(bill) /\ DOMAIN share = 1 .. People(bill)
    BY <1>1, <2>2, LegsAre
  <2>4. weight = WeightOf(bill)
    BY <2>3 DEF WeightOf
  <2>5. \A i \in DOMAIN share : excess[i] = Excess(share, weight, bill.total, i)
    BY DEF Excess
  <2>. HIDE DEF share, weight
  <2>6. /\ Total(share) = bill.total
        /\ \A i \in DOMAIN share : -Total(weight) < excess[i] /\ excess[i] < Total(weight)
        /\ \A i, k \in DOMAIN share : excess[i] - excess[k] <= Total(weight)
    BY <2>2, <2>3, <2>4, <2>5 DEF Fair
  <2>. QED
    BY <2>6 DEF SharesAreFair, Asked, share, weight
<1>2. ASSUME BillInv, bill = NoBill PROVE SharesAreFair
  BY <1>2 DEF SharesAreFair
<1>3. BillInv => SharesAreFair
  BY <1>1, <1>2
<1>. QED
  BY <1>3, BillInvariance, PTL

\* The page's preview, the list and the detail agree, for every bill and every outcome
\* of its legs (splitDTO, listSplits, Splits.tsx).
THEOREM EveryViewAgrees == SplitSpec => []ViewsAgree
<1>1. ASSUME BillInv, bill # NoBill PROVE ViewsAgree
  <2>1. bill \in BillInput
    BY <1>1 DEF BillInv
  <2>2. ASSUME bill.weight = << >>
        PROVE  (IF bill.includeSelf THEN <<Detail.yourShare>> ELSE << >>) \o Asked
                 = Preview(bill.total, bill.includeSelf, bill.party)
    <3>. DEFINE n == People(bill)
                r == bill.total % n
    <3>1. n \in Nat \ {0} /\ r \in Nat /\ bill.total \div n \in Nat
      BY <2>1, BillShape, DivMod
    <3>2. Allocate(bill) = AllocateEvenly(bill.total, n)
      BY <2>2 DEF Allocate, People
    <3>3. AllocateEvenly(bill.total, n) = Preview(bill.total, bill.includeSelf, bill.party)
      <4>1. \A k \in 1 .. n : k <= r <=> k - 1 < r
        BY <3>1
      <4>2. \A k \in 1 .. n :
              AllocateEvenly(bill.total, n)[k]
                = IF k - 1 < r THEN bill.total \div n + 1 ELSE bill.total \div n
        BY <3>1, <4>1 DEF AllocateEvenly
      <4>3. Preview(bill.total, bill.includeSelf, bill.party)
              = [k \in 1 .. n |->
                   IF k - 1 < r THEN bill.total \div n + 1 ELSE bill.total \div n]
        BY DEF Preview, People
      <4>4. AllocateEvenly(bill.total, n) = [k \in 1 .. n |-> AllocateEvenly(bill.total, n)[k]]
        BY DEF AllocateEvenly
      <4>. HIDE DEF r, n
      <4>. QED
        BY <4>2, <4>3, <4>4
    <3>4. (IF bill.includeSelf THEN <<Detail.yourShare>> ELSE << >>) \o Asked = Allocate(bill)
      <4>1. CASE bill.includeSelf
        BY <1>1, <4>1, LegsAre
      <4>2. CASE ~ bill.includeSelf
        <5>1. Asked \in Seq(Nat)
          <6>1. DOMAIN Asked = 1 .. bill.party /\ bill.party \in Nat
            BY <1>1, <2>1, BillShape DEF BillInv, Asked
          <6>2. \A i \in 1 .. bill.party : Asked[i] \in Nat
            BY <1>1, LegsAre DEF BillInv
          <6>3. Asked = [i \in 1 .. bill.party |-> Asked[i]]
            BY <1>1 DEF BillInv, Asked
          <6>4. Asked \in [1 .. bill.party -> Nat]
            BY <6>2, <6>3
          <6>5. \A m \in Nat : \A s \in [1 .. m -> Nat] : s \in Seq(Nat)
            OBVIOUS
          <6>. QED
            BY <6>1, <6>4, <6>5
        <5>2. << >> \o Asked = Asked
          BY <5>1
        <5>. QED
          BY <1>1, <4>2, <5>2, LegsAre
      <4>. QED
        BY <4>1, <4>2
    <3>. QED
      BY <3>2, <3>3, <3>4
  <2>3. \A viewer \in {Creator} \cup DOMAIN leg, f \in DOMAIN Summary :
          Summary[f] = GetSplit(viewer)[f]
    BY DEF Summary, GetSplit, Detail
  <2>4. Detail.yourShare + Detail.collected + Detail.outstanding = bill.total
    <3>. DEFINE A == {i \in DOMAIN leg : leg[i].status = "ACCEPTED"}
    <3>1. Legs(DOMAIN leg) \in Int
      <4>1. \A i \in DOMAIN leg : Asked[i] \in Int
        BY <1>1, LegsAre
      <4>. QED
        BY <1>1, <4>1, LegsAre, SumInt
    <3>2. Legs(A) \in Int
      <4>. DEFINE amount == [i \in A |-> leg[i].amount]
      <4>1. A \in SUBSET DOMAIN leg /\ \A i \in A : amount[i] \in Int
        BY <1>1, LegsAre DEF Asked
      <4>2. IsFiniteSet(A)
        BY <1>1, <4>1, LegsAre, FS_Subset
      <4>3. Legs(A) = SumFunctionOnSet(amount, A)
        BY TotalIs DEF Legs
      <4>. HIDE DEF A, amount
      <4>. QED
        BY <4>1, <4>2, <4>3, SumInt
    <3>3. bill.total \in Int
      BY <2>1, BillShape
    <3>4. /\ Detail.yourShare = bill.total - Legs(DOMAIN leg) /\ Detail.collected = Legs(A)
          /\ Detail.outstanding = Legs(DOMAIN leg) - Legs(A)
      BY DEF Detail
    <3>. HIDE DEF A
    <3>. QED
      BY <3>1, <3>2, <3>3, <3>4
  <2>. QED
    BY <2>2, <2>3, <2>4 DEF ViewsAgree, Asked
<1>2. ASSUME BillInv, bill = NoBill PROVE ViewsAgree
  BY <1>2 DEF ViewsAgree
<1>3. BillInv => ViewsAgree
  BY <1>1, <1>2
<1>. QED
  BY <1>3, BillInvariance, PTL
=============================================================================
