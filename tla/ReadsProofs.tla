----------------------------- MODULE ReadsProofs -----------------------------
(***************************************************************************)
(* Proofs about ReadPath and Statements: what is answered from a cache or  *)
(* from a replica is true, a transfer is found by its reference, and pages *)
(* add up to the list, for any number of accounts, writes, reads, rows and *)
(* rows to a page.                                                         *)
(***************************************************************************)
EXTENDS ReadPath, Statements, Sums

-----------------------------------------------------------------------------
(* ReadPath: the inductive invariant *)

AccountRows == [Account -> [balance: Int, version: Nat]]

PrimaryTypes == wal \in Seq(AccountRows) /\ Len(wal) >= 1

\* A row the account has had.
Was(a, row) == \E n \in DOMAIN wal : row = wal[n][a]

\* A write that is tracked has not seen more than its position; one that has
\* committed is on the primary.
WritesTrue ==
  /\ DOMAIN write = Write
  /\ \A w \in Write :
       /\ {"pc", "base", "lsn", "at"} \subseteq DOMAIN write[w]
       /\ write[w].base \in 0 .. Len(wal) /\ write[w].lsn \in 0 .. Len(wal)
       /\ write[w].lsn # 0 => write[w].base <= write[w].lsn
       /\ write[w].pc # "idle" => write[w].from \in Account /\ write[w].to \in Account
       /\ write[w].pc \in {"committed", "published"} => write[w].at \in DOMAIN wal

\* Redis holds rows that were, and positions that the primary has passed.
RedisTrue ==
  /\ DOMAIN cache = Account /\ DOMAIN wlsn = Account
  /\ \A a \in Account :
       /\ cache[a] # Nothing => Was(a, cache[a])
       /\ wlsn[a] # Nothing => wlsn[a] \in 0 .. Len(wal)

ReplicaBehind == replayed \in 1 .. Len(wal)

BalanceRead(r) ==
  /\ DOMAIN read[r] = {"op", "pc", "account", "row", "answer"}
  /\ read[r].pc \in {"row", "publishing", "answered"}
  /\ read[r].account \in Account /\ Was(read[r].account, read[r].row)
  /\ read[r].pc # "row" => /\ Was(read[r].account, read[r].answer)
                           /\ read[r].answer.version >= read[r].row.version

HistoryRead(r) ==
  /\ DOMAIN read[r] = {"op", "pc", "account", "required", "shown"}
  /\ read[r].pc \in {"asked", "replica", "primary", "answered"} /\ read[r].shown \in Nat
  /\ read[r].required # Nothing =>
       /\ read[r].required \in 0 .. Len(wal)
       /\ read[r].pc = "replica" => replayed >= read[r].required
       /\ read[r].pc = "answered" => read[r].shown >= read[r].required

ReadsTrue ==
  /\ DOMAIN read = Read
  /\ \A r \in Read : \/ read[r] = Unasked
                     \/ read[r].op = "BALANCE" /\ BalanceRead(r)
                     \/ read[r].op = "HISTORY" /\ HistoryRead(r)

ReadsInv == PrimaryTypes /\ WritesTrue /\ RedisTrue /\ ReplicaBehind /\ ReadsTrue

-----------------------------------------------------------------------------
(* ReadPath: the primary and the replica *)

\* What has been committed stays as it was.
WalGrows ==
  /\ Len(wal') >= Len(wal)
  /\ \A n \in DOMAIN wal : n \in DOMAIN wal' /\ wal'[n] = wal[n]

\* Every step either commits one write, or leaves the rows alone.
LEMMA PrimaryKeeps ==
  ASSUME ReadsInv, [Next]_vars
  PROVE  PrimaryTypes' /\ WalGrows /\ ReplicaBehind'
<1>1. PrimaryTypes /\ ReplicaBehind /\ Len(wal) \in Nat /\ DOMAIN wal = 1 .. Len(wal)
  BY DEF ReadsInv, PrimaryTypes
<1>2. ASSUME NEW w \in Write, Commit(w) PROVE PrimaryTypes' /\ WalGrows /\ ReplicaBehind'
  <2>1. PICK rows : rows = [a \in Account |-> RowAfter(w, a)]
    OBVIOUS
  <2>2. rows \in AccountRows
    <3>1. Committed \in AccountRows
      BY <1>1 DEF Committed, PrimaryTypes
    <3>2. ASSUME NEW a \in Account PROVE RowAfter(w, a) \in [balance: Int, version: Nat]
      <4>1. Committed[a] \in [balance: Int, version: Nat]
        BY <3>1 DEF AccountRows
      <4>2. PICK delta : delta = IF write[w].kind \notin Movement THEN 0
                                   ELSE IF a = write[w].from THEN -1 ELSE 1
        OBVIOUS
      <4>3. delta \in Int
        BY <4>2
      <4>4. [balance |-> Committed[a].balance + delta, version |-> Committed[a].version + 1]
              \in [balance: Int, version: Nat]
        BY <4>1, <4>3
      <4>. QED
        BY <4>1, <4>2, <4>4, Zenon DEF RowAfter
    <3>. QED
      BY <2>1, <3>2 DEF AccountRows
  <2>3. wal' = Append(wal, rows) /\ replayed' = replayed
    BY <1>2, <2>1 DEF Commit
  <2>4. /\ wal' \in Seq(AccountRows) /\ Len(wal') = Len(wal) + 1
        /\ \A n \in 1 .. Len(wal) : wal'[n] = wal[n]
    BY <1>1, <2>2, <2>3 DEF PrimaryTypes
  <2>. QED
    BY <1>1, <2>3, <2>4 DEF PrimaryTypes, WalGrows, ReplicaBehind
<1>3. CASE Replay
  BY <1>1, <1>3 DEF Replay, PrimaryTypes, WalGrows, ReplicaBehind
<1>4. CASE UNCHANGED <<wal, replayed>>
  BY <1>1, <1>4 DEF PrimaryTypes, WalGrows, ReplicaBehind
<1>5. Next => UNCHANGED <<wal, replayed>> \/ Replay \/ \E w \in Write : Commit(w)
  BY DEF Next, Lock, TrackWrite, Abort, PublishBalances, PublishPosition, LoseHooks,
         ReadRow, Consult, Republish, Ask, Route, ReplicaFails, Answer, Expire,
         Disconnect, Reconnect
<1>. QED
  BY <1>2, <1>3, <1>4, <1>5 DEF vars

LEMMA WasStays ==
  ASSUME WalGrows, NEW a, NEW row, Was(a, row)
  PROVE  Was(a, row)'
BY DEF WalGrows, Was

-----------------------------------------------------------------------------
(* ReadPath: writes *)

\* What a step may do to the write it is about.
WriteSteps(w) ==
  \/ Lock(w) \/ TrackWrite(w) \/ Commit(w) \/ Abort(w)
  \/ PublishBalances(w) \/ PublishPosition(w) \/ LoseHooks(w)

LEMMA WritesKeep ==
  ASSUME ReadsInv, [Next]_vars
  PROVE  WritesTrue'
<1>1. /\ WritesTrue /\ PrimaryTypes' /\ WalGrows /\ Len(wal) \in Nat /\ Len(wal') \in Nat
      /\ Len(wal') >= Len(wal) /\ DOMAIN wal \subseteq DOMAIN wal'
      /\ DOMAIN wal = 1 .. Len(wal) /\ DOMAIN wal' = 1 .. Len(wal') /\ Len(wal) >= 1
  BY PrimaryKeeps DEF ReadsInv, PrimaryTypes, WalGrows
<1>2. \A n \in 0 .. Len(wal) : n \in 0 .. Len(wal')
  BY <1>1
<1>3. CASE UNCHANGED write
  BY <1>1, <1>2, <1>3 DEF WritesTrue
<1>4. ASSUME NEW w \in Write, WriteSteps(w) PROVE WritesTrue'
  <2>1. /\ DOMAIN write' = Write /\ \A x \in Write \ {w} : write'[x] = write[x]
    BY <1>1, <1>4 DEF WriteSteps, WritesTrue, Lock, TrackWrite, Commit, Abort, PublishBalances,
                      PublishPosition, LoseHooks
  <2>2. /\ {"pc", "base", "lsn", "at"} \subseteq DOMAIN write'[w]
        /\ write'[w].base \in 0 .. Len(wal') /\ write'[w].lsn \in 0 .. Len(wal')
        /\ write'[w].lsn # 0 => write'[w].base <= write'[w].lsn
        /\ write'[w].pc # "idle" => write'[w].from \in Account /\ write'[w].to \in Account
        /\ write'[w].pc \in {"committed", "published"} => write'[w].at \in DOMAIN wal'
    <3>1. CASE Lock(w)
      <4>1. PICK k \in Movement \cup {"FREEZE"}, a \in Account, b \in Account :
              write' = [write EXCEPT ![w] = [pc |-> "locked", kind |-> k, from |-> a, to |-> b,
                                             base |-> Len(wal), lsn |-> 0, at |-> 0]]
        BY <3>1 DEF Lock
      <4>2. write'[w] = [pc |-> "locked", kind |-> k, from |-> a, to |-> b,
                         base |-> Len(wal), lsn |-> 0, at |-> 0]
        BY <1>1, <4>1 DEF WritesTrue
      <4>3. Len(wal) \in 0 .. Len(wal')
        BY <1>1
      <4>. QED
        BY <1>1, <4>2, <4>3
    <3>2. CASE TrackWrite(w)
      <4>1. write'[w] = [write[w] EXCEPT !.pc = "tracked", !.lsn = Len(wal)]
        BY <1>1, <3>2 DEF TrackWrite, WritesTrue
      <4>2. /\ {"pc", "base", "lsn", "at"} \subseteq DOMAIN write'[w] /\ write'[w].pc = "tracked"
            /\ write'[w].base = write[w].base /\ write'[w].lsn = Len(wal)
            /\ write'[w].from = write[w].from /\ write'[w].to = write[w].to
        BY <1>1, <4>1 DEF WritesTrue
      <4>3. Len(wal) \in 0 .. Len(wal') /\ write[w].pc # "idle"
        BY <1>1, <3>2 DEF TrackWrite
      <4>4. \A n \in 0 .. Len(wal) : n <= Len(wal)
        BY <1>1
      <4>. QED
        BY <1>1, <1>2, <4>2, <4>3, <4>4 DEF WritesTrue
    <3>3. CASE Commit(w)
      <4>1. PICK pc : pc = IF write[w].kind \in Movement THEN "committed" ELSE "done"
        OBVIOUS
      <4>2. write'[w] = [write[w] EXCEPT !.at = Len(wal) + 1, !.pc = pc]
        BY <1>1, <3>3, <4>1 DEF Commit, WritesTrue
      <4>3. /\ {"pc", "base", "lsn", "at"} \subseteq DOMAIN write'[w]
            /\ write'[w].base = write[w].base /\ write'[w].lsn = write[w].lsn
            /\ write'[w].from = write[w].from /\ write'[w].to = write[w].to
            /\ write'[w].at = Len(wal) + 1
        BY <1>1, <4>2 DEF WritesTrue
      <4>4. Len(wal) + 1 \in DOMAIN wal'
        <5>1. Len(wal') = Len(wal) + 1
          BY <3>3 DEF Commit, ReadsInv, PrimaryTypes
        <5>. QED
          BY <1>1, <5>1
      <4>5. write[w].pc # "idle"
        BY <3>3 DEF Commit
      <4>. QED
        BY <1>1, <1>2, <4>3, <4>4, <4>5 DEF WritesTrue
    <3>4. CASE Abort(w) \/ PublishBalances(w) \/ PublishPosition(w) \/ LoseHooks(w)
      <4>1. PICK pc : /\ write' = [write EXCEPT ![w].pc = pc] /\ write[w].pc # "idle"
                      /\ pc \in {"committed", "published"} =>
                           write[w].pc \in {"committed", "published"}
        BY <3>4 DEF Abort, PublishBalances, PublishPosition, LoseHooks
      <4>2. /\ {"pc", "base", "lsn", "at"} \subseteq DOMAIN write'[w] /\ write'[w].pc = pc
            /\ write'[w].base = write[w].base /\ write'[w].lsn = write[w].lsn
            /\ write'[w].from = write[w].from /\ write'[w].to = write[w].to
            /\ write'[w].at = write[w].at
        BY <1>1, <4>1 DEF WritesTrue
      <4>. QED
        BY <1>1, <1>2, <4>1, <4>2 DEF WritesTrue
    <3>. QED
      BY <1>4, <3>1, <3>2, <3>3, <3>4 DEF WriteSteps
  <2>. QED
    BY <1>1, <1>2, <2>1, <2>2 DEF WritesTrue
<1>5. Next => UNCHANGED write \/ \E w \in Write : WriteSteps(w)
  BY DEF Next, WriteSteps, ReadRow, Consult, Republish, Ask, Route, ReplicaFails, Answer, Expire,
         Disconnect, Reconnect, Replay
<1>. QED
  BY <1>3, <1>4, <1>5 DEF vars

-----------------------------------------------------------------------------
(* ReadPath: Redis *)

\* The compare-and-set keeps rows that were, given one that was.
LEMMA StoredTrue ==
  ASSUME NEW c, NEW a \in Account, NEW row, Was(a, row), DOMAIN c = Account,
         \A x \in Account : c[x] # Nothing => Was(x, c[x])
  PROVE  /\ DOMAIN Stored(c, a, row) = Account
         /\ \A x \in Account : Stored(c, a, row)[x] # Nothing => Was(x, Stored(c, a, row)[x])
<1>1. Stored(c, a, row) = c \/ Stored(c, a, row) = [c EXCEPT ![a] = row]
  BY DEF Stored
<1>2. CASE Stored(c, a, row) = c
  BY <1>2
<1>3. CASE Stored(c, a, row) = [c EXCEPT ![a] = row]
  BY <1>3
<1>. QED
  BY <1>1, <1>2, <1>3

LEMMA RedisKeeps ==
  ASSUME ReadsInv, [Next]_vars
  PROVE  RedisTrue'
<1>1. /\ RedisTrue /\ WritesTrue /\ WalGrows /\ Len(wal) \in Nat /\ Len(wal') \in Nat
      /\ Len(wal') >= Len(wal)
  BY PrimaryKeeps DEF ReadsInv, PrimaryTypes, WalGrows
<1>2. /\ \A n \in 0 .. Len(wal) : n \in 0 .. Len(wal')
      /\ \A a, row : Was(a, row) => Was(a, row)'
  BY <1>1, WasStays
<1>3. CASE UNCHANGED <<cache, wlsn>>
  BY <1>1, <1>2, <1>3 DEF RedisTrue
<1>4. ASSUME NEW w \in Write, PublishBalances(w) PROVE RedisTrue'
  <2>1. PICK x, y : x = NewRow(w, write[w].from) /\ y = NewRow(w, write[w].to)
    OBVIOUS
  <2>2. /\ write[w].from \in Account /\ Was(write[w].from, x)
        /\ write[w].to \in Account /\ Was(write[w].to, y)
    BY <1>1, <1>4, <2>1 DEF PublishBalances, WritesTrue, NewRow, Was
  <2>3. PICK c : c = Stored(cache, write[w].from, x)
    OBVIOUS
  <2>4. DOMAIN c = Account /\ \A a \in Account : c[a] # Nothing => Was(a, c[a])
    BY <1>1, <2>2, <2>3, StoredTrue DEF RedisTrue
  <2>5. PICK d : d = Stored(c, write[w].to, y)
    OBVIOUS
  <2>6. DOMAIN d = Account /\ \A a \in Account : d[a] # Nothing => Was(a, d[a])
    BY <2>2, <2>4, <2>5, StoredTrue
  <2>7. cache' \in {cache, d} /\ wlsn' = wlsn
    BY <1>4, <2>1, <2>3, <2>5 DEF PublishBalances
  <2>. QED
    BY <1>1, <1>2, <2>6, <2>7 DEF RedisTrue
<1>5. ASSUME NEW w \in Write, PublishPosition(w) PROVE RedisTrue'
  <2>1. /\ cache' = cache /\ DOMAIN wlsn' = Account
        /\ \A a \in Account : wlsn'[a] \in {wlsn[a], write[w].lsn}
    BY <1>5 DEF PublishPosition
  <2>. QED
    BY <1>1, <1>2, <2>1 DEF RedisTrue, WritesTrue
<1>6. ASSUME NEW r \in Read, Republish(r) PROVE RedisTrue'
  <2>1. read[r].account \in Account /\ Was(read[r].account, read[r].row)
    BY <1>6 DEF Republish, ReadsInv, ReadsTrue, BalanceRead, HistoryRead, Unasked
  <2>2. PICK c : c = Stored(cache, read[r].account, read[r].row)
    OBVIOUS
  <2>3. DOMAIN c = Account /\ \A a \in Account : c[a] # Nothing => Was(a, c[a])
    BY <1>1, <2>1, <2>2, StoredTrue DEF RedisTrue
  <2>4. cache' \in {cache, c} /\ wlsn' = wlsn
    BY <1>6, <2>2 DEF Republish
  <2>. QED
    BY <1>1, <1>2, <2>3, <2>4 DEF RedisTrue
<1>7. CASE Reconnect \/ \E a \in Account : Expire(a)
  <2>1. /\ DOMAIN cache' = Account /\ DOMAIN wlsn' = Account
        /\ \A a \in Account : cache'[a] \in {cache[a], Nothing} /\ wlsn'[a] \in {wlsn[a], Nothing}
    BY <1>1, <1>7 DEF Reconnect, Expire, RedisTrue
  <2>. QED
    BY <1>1, <1>2, <2>1 DEF RedisTrue
<1>8. Next => \/ UNCHANGED <<cache, wlsn>>
              \/ \E w \in Write : PublishBalances(w) \/ PublishPosition(w)
              \/ \E r \in Read : Republish(r)
              \/ Reconnect \/ \E a \in Account : Expire(a)
  BY DEF Next, Lock, TrackWrite, Commit, Abort, LoseHooks, ReadRow, Consult, Ask, Route,
         ReplicaFails, Answer, Disconnect, Replay
<1>. QED
  BY <1>3, <1>4, <1>5, <1>6, <1>7, <1>8 DEF vars

-----------------------------------------------------------------------------
(* ReadPath: reads *)

ReadSteps(r) ==
  \/ ReadRow(r) \/ Consult(r) \/ Republish(r)
  \/ Ask(r) \/ Route(r) \/ ReplicaFails(r) \/ Answer(r)

\* A row is answered as it was read, or as a cache that is ahead of it has it.
LEMMA BalanceSteps ==
  ASSUME ReadsInv, [Next]_vars, NEW r \in Read, ReadRow(r) \/ Consult(r) \/ Republish(r)
  PROVE  read'[r].op = "BALANCE" /\ BalanceRead(r)'
<1>1. /\ ReadsTrue /\ RedisTrue /\ PrimaryTypes /\ WalGrows
      /\ \A a, row : Was(a, row) => Was(a, row)'
      /\ \A a \in Account : \A row : Was(a, row) => row.version \in Nat
  <2>1. \A a \in Account : \A n \in DOMAIN wal : wal[n][a].version \in Nat
    BY DEF ReadsInv, PrimaryTypes, AccountRows
  <2>. QED
    BY <2>1, PrimaryKeeps, WasStays DEF ReadsInv, Was
<1>2. CASE ReadRow(r)
  <2>1. PICK a \in Account :
          read'[r] = [op |-> "BALANCE", pc |-> "row", account |-> a, row |-> Committed[a],
                      answer |-> Nothing]
    BY <1>1, <1>2 DEF ReadRow, ReadsTrue
  <2>2. Was(a, Committed[a])
    BY <1>1 DEF Was, Committed, PrimaryTypes
  <2>. QED
    BY <1>1, <2>1, <2>2 DEF BalanceRead
<1>3. CASE Consult(r)
  <2>1. /\ read[r].pc = "row" /\ read[r].op = "BALANCE" /\ BalanceRead(r)
    BY <1>1, <1>3 DEF Consult, ReadsTrue, HistoryRead, Unasked
  <2>2. PICK pc : pc = IF UseCache(r) THEN "answered" ELSE "publishing"
    OBVIOUS
  <2>3. PICK answer : answer = IF UseCache(r) THEN cache[read[r].account] ELSE read[r].row
    OBVIOUS
  <2>4. read'[r] = [read[r] EXCEPT !.pc = pc, !.answer = answer]
    BY <1>1, <1>3, <2>2, <2>3 DEF Consult, ReadsTrue
  <2>5. Was(read[r].account, answer) /\ answer.version >= read[r].row.version
    <3>1. /\ read[r].row.version \in Nat /\ read[r].account \in Account
          /\ Was(read[r].account, read[r].row)
      BY <1>1, <2>1 DEF BalanceRead
    <3>2. CASE UseCache(r)
      <4>1. Was(read[r].account, answer) /\ answer.version > read[r].row.version
        BY <1>1, <2>3, <3>1, <3>2 DEF UseCache, RedisTrue
      <4>2. answer.version \in Nat
        BY <1>1, <3>1, <4>1
      <4>. QED
        BY <3>1, <4>1, <4>2
    <3>3. CASE ~ UseCache(r)
      <4>1. answer = read[r].row
        BY <2>3, <3>3
      <4>2. read[r].row.version >= read[r].row.version
        BY <3>1
      <4>. QED
        BY <3>1, <4>1, <4>2
    <3>. QED
      BY <3>2, <3>3
  <2>6. /\ DOMAIN read'[r] = DOMAIN read[r] /\ read'[r].op = read[r].op /\ read'[r].pc = pc
        /\ read'[r].account = read[r].account /\ read'[r].row = read[r].row
        /\ read'[r].answer = answer
    BY <2>1, <2>4 DEF BalanceRead
  <2>. QED
    BY <1>1, <2>1, <2>2, <2>5, <2>6 DEF BalanceRead
<1>4. CASE Republish(r)
  <2>1. read[r].pc = "publishing" /\ read[r].op = "BALANCE" /\ BalanceRead(r)
    BY <1>1, <1>4 DEF Republish, ReadsTrue, HistoryRead, Unasked
  <2>2. read'[r] = [read[r] EXCEPT !.pc = "answered"]
    BY <1>1, <1>4 DEF Republish, ReadsTrue
  <2>3. /\ DOMAIN read'[r] = DOMAIN read[r] /\ read'[r].op = read[r].op
        /\ read'[r].pc = "answered"
        /\ read'[r].account = read[r].account /\ read'[r].row = read[r].row
        /\ read'[r].answer = read[r].answer
    BY <2>1, <2>2 DEF BalanceRead
  <2>. QED
    BY <1>1, <2>1, <2>3 DEF BalanceRead
<1>. QED
  BY <1>2, <1>3, <1>4

\* A history is answered by a server that has reached the position it found.
LEMMA HistorySteps ==
  ASSUME ReadsInv, [Next]_vars, NEW r \in Read,
         Ask(r) \/ Route(r) \/ ReplicaFails(r) \/ Answer(r)
  PROVE  read'[r].op = "HISTORY" /\ HistoryRead(r)'
<1>1. /\ ReadsTrue /\ RedisTrue /\ UNCHANGED <<wal, replayed>>
      /\ replayed \in Nat /\ Len(wal) \in Nat /\ replayed <= Len(wal)
  BY DEF ReadsInv, PrimaryTypes, ReplicaBehind, Ask, Route, ReplicaFails, Answer
<1>2. CASE Ask(r)
  <2>1. PICK required : /\ \E a \in Account : required \in {wlsn[a], Nothing}
                        /\ \E a : read'[r] = [op |-> "HISTORY", pc |-> "asked", account |-> a,
                                              required |-> required, shown |-> 0]
    <3>1. PICK a \in Account :
            read' = [read EXCEPT ![r] =
                       [op |-> "HISTORY", pc |-> "asked", account |-> a,
                        required |-> IF up THEN wlsn[a] ELSE Nothing, shown |-> 0]]
      BY <1>2 DEF Ask
    <3>2. PICK required : required = IF up THEN wlsn[a] ELSE Nothing
      OBVIOUS
    <3>3. read'[r] = [op |-> "HISTORY", pc |-> "asked", account |-> a, required |-> required,
                      shown |-> 0]
      BY <1>1, <3>1, <3>2 DEF ReadsTrue
    <3>. QED
      BY <3>2, <3>3
  <2>2. required # Nothing => required \in 0 .. Len(wal)
    BY <1>1, <2>1 DEF RedisTrue
  <2>. QED
    BY <1>1, <2>1, <2>2 DEF HistoryRead
<1>3. CASE Route(r) \/ ReplicaFails(r) \/ Answer(r)
  <2>1. read[r].op = "HISTORY" /\ HistoryRead(r)
    BY <1>1, <1>3 DEF Route, ReplicaFails, Answer, ReadsTrue, BalanceRead, Unasked, ReadsInv
  <2>. SUFFICES /\ DOMAIN read'[r] = DOMAIN read[r] /\ read'[r].op = read[r].op
                /\ read'[r].required = read[r].required
                /\ read'[r].pc \in {"asked", "replica", "primary", "answered"}
                /\ read'[r].shown \in Nat
                /\ read[r].required # Nothing =>
                     /\ read'[r].pc = "replica" => replayed >= read[r].required
                     /\ read'[r].pc = "answered" => read'[r].shown >= read[r].required
    BY <1>1, <2>1 DEF HistoryRead
  <2>2. CASE Route(r)
    <3>1. PICK pc : pc = IF ReplicaHasCaughtUp(r) THEN "replica" ELSE "primary"
      OBVIOUS
    <3>2. read'[r] = [read[r] EXCEPT !.pc = pc]
      BY <1>1, <2>2, <3>1 DEF Route, ReadsTrue
    <3>3. /\ DOMAIN read'[r] = DOMAIN read[r] /\ read'[r].op = read[r].op
          /\ read'[r].required = read[r].required /\ read'[r].pc = pc
          /\ read'[r].shown = read[r].shown
      BY <2>1, <3>2 DEF HistoryRead
    <3>. QED
      BY <2>1, <3>1, <3>3 DEF ReplicaHasCaughtUp, HistoryRead
  <2>3. CASE ReplicaFails(r)
    <3>2. read'[r] = [read[r] EXCEPT !.pc = "primary"]
      BY <1>1, <2>3 DEF ReplicaFails, ReadsTrue
    <3>3. /\ DOMAIN read'[r] = DOMAIN read[r] /\ read'[r].op = read[r].op
          /\ read'[r].required = read[r].required /\ read'[r].pc = "primary"
          /\ read'[r].shown = read[r].shown
      BY <2>1, <3>2 DEF HistoryRead
    <3>. QED
      BY <2>1, <3>3 DEF HistoryRead
  <2>4. CASE Answer(r)
    <3>1. PICK shown : shown = IF read[r].pc = "replica" THEN replayed ELSE Len(wal)
      OBVIOUS
    <3>2. read'[r] = [read[r] EXCEPT !.pc = "answered", !.shown = shown]
      BY <1>1, <2>4, <3>1 DEF Answer, ReadsTrue
    <3>3. /\ DOMAIN read'[r] = DOMAIN read[r] /\ read'[r].op = read[r].op
          /\ read'[r].required = read[r].required /\ read'[r].pc = "answered"
          /\ read'[r].shown = shown
      BY <2>1, <3>2 DEF HistoryRead
    <3>4. ASSUME read[r].required # Nothing PROVE shown >= read[r].required
      <4>1. CASE read[r].pc = "replica"
        BY <2>1, <3>1, <3>4, <4>1 DEF HistoryRead
      <4>2. CASE read[r].pc # "replica"
        <5>1. read[r].required \in 0 .. Len(wal) /\ shown = Len(wal)
          BY <2>1, <3>1, <3>4, <4>2 DEF HistoryRead
        <5>. QED
          BY <1>1, <5>1
      <4>. QED
        BY <4>1, <4>2
    <3>. QED
      BY <1>1, <3>1, <3>3, <3>4
  <2>. QED
    BY <1>3, <2>2, <2>3, <2>4
<1>. QED
  BY <1>2, <1>3

\* The others only see the primary and the replica go on.
LEMMA ReadWaits ==
  ASSUME ReadsInv, [Next]_vars, NEW r \in Read, read'[r] = read[r]
  PROVE  /\ BalanceRead(r) => BalanceRead(r)'
         /\ HistoryRead(r) => HistoryRead(r)'
<1>1. /\ \A a, row : Was(a, row) => Was(a, row)'
      /\ Len(wal) \in Nat /\ Len(wal') \in Nat /\ Len(wal') >= Len(wal)
      /\ replayed \in Nat /\ replayed' \in Nat
  BY PrimaryKeeps, WasStays DEF ReadsInv, PrimaryTypes, ReplicaBehind, WalGrows
<1>2. replayed' >= replayed
  <2>1. UNCHANGED replayed \/ replayed' = replayed + 1
    BY DEF Next, vars, Lock, TrackWrite, Commit, Abort, PublishBalances, PublishPosition,
           LoseHooks, ReadRow, Consult, Republish, Ask, Route, ReplicaFails, Answer, Expire,
           Disconnect, Reconnect, Replay
  <2>. QED
    BY <1>1, <2>1
<1>3. BalanceRead(r) => BalanceRead(r)'
  BY <1>1 DEF BalanceRead
<1>4. ASSUME HistoryRead(r) PROVE HistoryRead(r)'
  <2>1. \A n \in 0 .. Len(wal) : n \in 0 .. Len(wal') /\ (replayed >= n => replayed' >= n)
    BY <1>1, <1>2
  <2>. QED
    BY <1>4, <2>1 DEF HistoryRead
<1>. QED
  BY <1>3, <1>4

LEMMA ReadsKeep ==
  ASSUME ReadsInv, [Next]_vars
  PROVE  ReadsTrue'
<1>1. ReadsTrue
  BY DEF ReadsInv
<1>2. CASE UNCHANGED read
  BY <1>1, <1>2, ReadWaits DEF ReadsTrue
<1>3. ASSUME NEW r \in Read, ReadSteps(r) PROVE ReadsTrue'
  <2>1. DOMAIN read' = Read /\ \A s \in Read \ {r} : read'[s] = read[s]
    BY <1>1, <1>3 DEF ReadSteps, ReadsTrue, ReadRow, Consult, Republish, Ask, Route, ReplicaFails,
                      Answer
  <2>2. (read'[r].op = "BALANCE" /\ BalanceRead(r)') \/ (read'[r].op = "HISTORY" /\ HistoryRead(r)')
    BY <1>3, BalanceSteps, HistorySteps DEF ReadSteps
  <2>. QED
    BY <1>1, <2>1, <2>2, ReadWaits DEF ReadsTrue
<1>4. Next => UNCHANGED read \/ \E r \in Read : ReadSteps(r)
  BY DEF Next, ReadSteps, Lock, TrackWrite, Commit, Abort, PublishBalances, PublishPosition,
         LoseHooks, Expire, Disconnect, Reconnect, Replay
<1>. QED
  BY <1>2, <1>3, <1>4 DEF vars

LEMMA ReadsInductive ==
  /\ Init => ReadsInv
  /\ ReadsInv /\ [Next]_vars => ReadsInv'
<1>1. ASSUME Init PROVE ReadsInv
  <2>1. PICK rows : rows = [a \in Account |-> [balance |-> Funds, version |-> 0]]
    OBVIOUS
  <2>2. rows \in AccountRows
    BY <2>1, ReadPathAssumption DEF AccountRows
  <2>3. wal = <<rows>>
    BY <1>1, <2>1 DEF Init
  <2>4. PrimaryTypes /\ Len(wal) = 1
    BY <2>2, <2>3 DEF PrimaryTypes
  <2>5. ReplicaBehind
    BY <1>1, <2>4 DEF Init, ReplicaBehind
  <2>6. WritesTrue
    BY <1>1, <2>4 DEF Init, WritesTrue, Waiting
  <2>7. RedisTrue
    BY <1>1 DEF Init, RedisTrue
  <2>8. ReadsTrue
    BY <1>1 DEF Init, ReadsTrue
  <2>. QED
    BY <2>4, <2>5, <2>6, <2>7, <2>8 DEF ReadsInv
<1>. QED
  BY <1>1, PrimaryKeeps, WritesKeep, RedisKeeps, ReadsKeep DEF ReadsInv

(***************************************************************************)
(* A balance that is answered, from the row or from Redis, is one the      *)
(* account had at or after the start of the request: whatever expires,     *)
(* comes back empty or is published late, the compare-and-set and the      *)
(* version check admit only rows that were committed                       *)
(* (balance-cache.ts, accounts.service.ts).                                *)
(***************************************************************************)
THEOREM BalancesAreTrue == Spec => []BalanceIsTrue
<1>1. ReadsInv => BalanceIsTrue
  BY DEF ReadsInv, ReadsTrue, BalanceIsTrue, Answered, BalanceRead, Was, Unasked
<1>. QED
  BY <1>1, ReadsInductive, PTL DEF Spec

(***************************************************************************)
(* A history that found the position of a write shows all that the write   *)
(* was based on: the position is taken after the rows were locked, and a   *)
(* replica answers only when it has replayed it (read-router.ts).          *)
(***************************************************************************)
THEOREM HistoryIsCausal == Spec => []ShowsWhatTheWriteSaw
<1>1. ASSUME ReadsInv PROVE ShowsWhatTheWriteSaw
  <2>. SUFFICES ASSUME NEW r \in Read, read[r].op = "HISTORY", read[r].pc = "answered",
                       NEW w \in Write, write[w].lsn # 0, write[w].lsn = read[r].required
                PROVE  read[r].shown >= write[w].base
    BY DEF ShowsWhatTheWriteSaw, Answered, Recorders
  <2>1. HistoryRead(r)
    BY <1>1 DEF ReadsInv, ReadsTrue, Unasked
  <2>2. /\ write[w].lsn \in Nat /\ write[w].base \in Nat /\ write[w].base <= write[w].lsn
    BY <1>1 DEF ReadsInv, WritesTrue, PrimaryTypes
  <2>3. read[r].required # Nothing
    BY <2>2, ReadPathAssumption
  <2>4. read[r].shown >= write[w].lsn
    BY <2>1, <2>3 DEF HistoryRead
  <2>5. read[r].shown \in Nat
    BY <2>1 DEF HistoryRead
  <2>. QED
    BY <2>2, <2>4, <2>5
<1>. QED
  BY <1>1, ReadsInductive, PTL DEF Spec

-----------------------------------------------------------------------------
(* Statements: rows and the days they were posted on *)

ListRows == [txn: Txn, mark: Mark, id: Int, day: Nat]

\* A row is of a transaction that has begun, and of no other row; its id is its own, and in
\* the ledger its place in the order of commits.
ListsInv ==
  /\ clock \in Nat /\ table \in {"LEDGER", "ROWS", "AUDIT"}
  /\ began \in [Txn -> Nat \cup {NotYet}]
  /\ log \in Seq(ListRows)
  /\ \A i \in DOMAIN log : began[log[i].txn] # NotYet
  /\ \A i, j \in DOMAIN log : log[i].txn = log[j].txn => i = j
  /\ \A i, j \in DOMAIN log : log[i].id = log[j].id => i = j
  /\ table = "LEDGER" => \A i \in DOMAIN log : log[i].id = i
  /\ arrived \in 0 .. Len(log)

\* Rows are added and marked; whose they are, and of what day, stays.
LEMMA ListsInductive ==
  /\ StatementsInit => ListsInv
  /\ ListsInv /\ [StatementsNext]_statementsVars => ListsInv'
<1>1. StatementsInit => ListsInv
  <2>. SUFFICES ASSUME StatementsInit PROVE ListsInv
    OBVIOUS
  <2>1. log = << >> /\ log \in Seq(ListRows) /\ DOMAIN log = {} /\ Len(log) = 0
    BY DEF StatementsInit
  <2>. QED
    BY <2>1 DEF StatementsInit, ListsInv
<1>2. ASSUME ListsInv, UNCHANGED <<clock, table, began, log, arrived>> PROVE ListsInv'
  BY <1>2 DEF ListsInv
<1>3. ASSUME ListsInv, NEW t \in Txn, Begin(t) PROVE ListsInv'
  <2>1. clock \in Nat /\ clock # NotYet
    BY <1>3 DEF ListsInv, NotYet
  <2>. QED
    BY <1>3, <2>1 DEF ListsInv, Begin
<1>4. ASSUME ListsInv, NEW t \in Txn, NEW mark \in Mark, NEW id \in 1 .. Cardinality(Txn),
             Post(t, mark, id)
      PROVE  ListsInv'
  <2>1. ReferenceDay \in Nat
    <3>1. clock \in Nat /\ PerDay \in Nat \ {0}
      BY <1>4, StatementsAssumption DEF ListsInv
    <3>2. clock \div PerDay \in Nat
      BY <3>1
    <3>. QED
      BY <3>2 DEF ReferenceDay
  <2>2. PICK row : row = [txn |-> t, mark |-> mark, id |-> id, day |-> ReferenceDay]
    OBVIOUS
  <2>3. row \in ListRows /\ row.txn = t
    BY <2>1, <2>2 DEF ListRows
  <2>4. /\ log' = Append(log, row) /\ UNCHANGED <<clock, table, began, arrived>> /\ began[t] # NotYet
        /\ \A i \in DOMAIN log : log[i].txn # t
    BY <1>4, <2>2 DEF Post
  <2>5. /\ log' \in Seq(ListRows) /\ Len(log') = Len(log) + 1 /\ log'[Len(log) + 1] = row
        /\ \A i \in DOMAIN log : log'[i] = log[i]
        /\ DOMAIN log = 1 .. Len(log) /\ DOMAIN log' = 1 .. (Len(log) + 1) /\ Len(log) \in Nat
    BY <1>4, <2>3, <2>4 DEF ListsInv
  <2>6. \A i \in DOMAIN log' : i \in DOMAIN log \/ i = Len(log) + 1
    BY <2>5
  <2>7. /\ table = "LEDGER" => row.id = Len(log) + 1
        /\ \A i \in DOMAIN log : log[i].id # row.id
    BY <1>4, <2>2, <2>5 DEF Post, MayHaveId, ListsInv
  <2>8. /\ \A i, j \in DOMAIN log' : log'[i].txn = log'[j].txn => i = j
        /\ \A i, j \in DOMAIN log' : log'[i].id = log'[j].id => i = j
    BY <1>4, <2>3, <2>4, <2>5, <2>6, <2>7 DEF ListsInv
  <2>9. table = "LEDGER" => \A i \in DOMAIN log' : log'[i].id = i
    BY <1>4, <2>5, <2>6, <2>7 DEF ListsInv
  <2>10. \A i \in DOMAIN log' : began[log'[i].txn] # NotYet
    BY <1>4, <2>3, <2>4, <2>5, <2>6 DEF ListsInv
  <2>11. arrived \in 0 .. Len(log')
    BY <1>4, <2>5 DEF ListsInv
  <2>. QED
    BY <1>4, <2>4, <2>5, <2>8, <2>9, <2>10, <2>11 DEF ListsInv
<1>5. ASSUME ListsInv, NEW i \in DOMAIN log, NEW mark \in Mark, Changes(i, mark) PROVE ListsInv'
  <2>1. /\ log[i] \in ListRows /\ DOMAIN log = 1 .. Len(log)
        /\ log' = [log EXCEPT ![i].mark = mark] /\ UNCHANGED <<clock, table, began, arrived>>
    BY <1>5 DEF ListsInv, Changes
  <2>2. PICK row : row = [log[i] EXCEPT !.mark = mark]
    OBVIOUS
  <2>3. row \in ListRows /\ row.txn = log[i].txn /\ row.id = log[i].id
    BY <2>1, <2>2 DEF ListRows
  <2>4. log' = [log EXCEPT ![i] = row]
    BY <2>1, <2>2
  <2>5. log' \in Seq(ListRows) /\ DOMAIN log' = DOMAIN log /\ Len(log') = Len(log)
    BY <1>5, <2>1, <2>3, <2>4 DEF ListsInv
  <2>6. \A j \in DOMAIN log : log'[j].txn = log[j].txn /\ log'[j].id = log[j].id
    BY <2>1, <2>3, <2>4
  <2>. QED
    BY <1>5, <2>1, <2>5, <2>6 DEF ListsInv
<1>6. ASSUME ListsInv, Tick PROVE ListsInv'
  BY <1>6 DEF ListsInv, Tick
<1>7. ASSUME ListsInv, Arrives PROVE ListsInv'
  <2>1. Len(log) \in Nat
    BY <1>7 DEF ListsInv
  <2>. QED
    BY <1>7, <2>1 DEF ListsInv, Arrives
<1>8. StatementsNext =>
        \/ UNCHANGED <<clock, table, began, log, arrived>> \/ Tick \/ Arrives
        \/ \E t \in Txn : Begin(t)
        \/ \E t \in Txn, mark \in Mark, id \in 1 .. Cardinality(Txn) : Post(t, mark, id)
        \/ \E i \in DOMAIN log, mark \in Mark : Changes(i, mark)
  BY DEF StatementsNext, OpenStatement, OpenHistory, ListRequests, ListSchedules,
         SearchAudit, Opens, HistoryPage, ListPage, StatementPage, Reading
<1>. QED
  BY <1>1, <1>2, <1>3, <1>4, <1>5, <1>6, <1>7, <1>8 DEF statementsVars

\* The instants of a day are those that lie in it.
LEMMA DayOf ==
  ASSUME NEW at \in Nat, NEW day \in Nat
  PROVE  at \in DateRange(day) <=> at \div PerDay = day
<1>. PICK p \in Nat : p = PerDay /\ p > 0
  BY StatementsAssumption
<1>1. PICK q \in Nat : q = at \div p
  OBVIOUS
<1>2. q * p <= at /\ at < q * p + p
  <2>1. PICK r \in Nat : r = at % p
    OBVIOUS
  <2>2. at = p * q + r /\ r < p
    BY <1>1, <2>1
  <2>. QED
    BY <2>2
<1>3. \A n, m \in Nat : n < m => n * p + p <= m * p
  <2>. SUFFICES ASSUME NEW n \in Nat, NEW m \in Nat, n < m PROVE n * p + p <= m * p
    OBVIOUS
  <2>1. PICK d \in Nat : m = n + 1 + d
    <3>1. m - (n + 1) \in Nat /\ m = n + 1 + (m - (n + 1))
      OBVIOUS
    <3>. QED
      BY <3>1
  <2>2. m * p = n * p + p + d * p /\ d * p \in Nat
    BY <2>1
  <2>. QED
    BY <2>2
<1>4. at \in DateRange(day) <=> day * p <= at /\ at < day * p + p
  <2>1. (day + 1) * p = day * p + p /\ day * p \in Nat
    OBVIOUS
  <2>2. DateRange(day) = day * p .. (day * p + p - 1)
    BY <2>1 DEF DateRange
  <2>3. PICK d \in Nat : d = day * p
    BY <2>1
  <2>. QED
    BY <2>2, <2>3
<1>5. CASE q = day
  BY <1>1, <1>2, <1>4, <1>5
<1>6. CASE q # day
  <2>1. PICK d, e \in Nat : d = day * p /\ e = q * p
    OBVIOUS
  <2>2. q < day \/ day < q
    BY <1>6
  <2>3. e + p <= d \/ d + p <= e
    BY <1>3, <2>1, <2>2
  <2>4. e <= at /\ at < e + p
    BY <1>2, <2>1
  <2>5. ~ (d <= at /\ at < d + p)
    BY <2>3, <2>4
  <2>. QED
    BY <1>1, <1>4, <1>6, <2>1, <2>5
<1>. QED
  BY <1>5, <1>6

(***************************************************************************)
(* A transfer is found by its reference exactly if it was posted on the    *)
(* day its transaction began: the range that is searched is that whole     *)
(* day, and its other rows are of other transactions                       *)
(* (ledger.service.ts:68-74).                                              *)
(***************************************************************************)
THEOREM FoundByReference == StatementsSpec => []FoundUnlessMidnight
<1>1. ASSUME ListsInv, NEW i \in DOMAIN log
      PROVE  GetReceipt(i) = {j \in {i} : CreatedAt(i) \div PerDay = log[i].day}
  <2>1. CreatedAt(i) \in Nat /\ log[i].day \in Nat
    <3>1. log[i] \in ListRows
      BY <1>1 DEF ListsInv
    <3>2. log[i].txn \in Txn /\ log[i].day \in Nat
      BY <3>1 DEF ListRows
    <3>3. began[log[i].txn] \in Nat \cup {NotYet} /\ began[log[i].txn] # NotYet
      BY <1>1, <3>2 DEF ListsInv
    <3>. QED
      BY <3>2, <3>3 DEF CreatedAt
  <2>2. CreatedAt(i) \in DateRange(log[i].day) <=> CreatedAt(i) \div PerDay = log[i].day
    BY <2>1, DayOf
  <2>3. \A j \in DOMAIN log : log[j].txn = log[i].txn => j = i
    BY <1>1 DEF ListsInv
  <2>. QED
    BY <1>1, <2>2, <2>3 DEF GetReceipt, FindByReference
<1>2. ListsInv => FoundUnlessMidnight
  BY <1>1, Zenon DEF FoundUnlessMidnight
<1>. QED
  BY <1>2, ListsInductive, PTL DEF StatementsSpec

-----------------------------------------------------------------------------
(* Pages put together *)

Joins(g, s, n) == g = [i \in 1 .. n |-> IF i = 1 THEN s[i] ELSE g[i - 1] \o s[i]]

LEMMA FlattenIs ==
  ASSUME NEW s, Len(s) # 0
  PROVE  FlattenSeq(s) = (CHOOSE g : Joins(g, s, Len(s)))[Len(s)]
BY DEF FlattenSeq, Joins

LEMMA JoinsExist ==
  ASSUME NEW s, NEW n \in Nat
  PROVE  \E g : Joins(g, s, n)
<1>. DEFINE Bad == {m \in Nat : ~ \E g : Joins(g, s, m)}
<1>. SUFFICES ASSUME Bad # {} PROVE FALSE
  OBVIOUS
<1>1. PICK m \in Bad : \A k \in Bad : m <= k
  <2>1. Bad \subseteq Nat
    OBVIOUS
  <2>. HIDE DEF Bad
  <2>. QED
    BY <2>1, Least
<1>2. m \in Nat /\ ~ \E g : Joins(g, s, m)
  OBVIOUS
<1>3. CASE m = 0
  <2>1. Joins([i \in 1 .. 0 |-> {}], s, 0)
    BY DEF Joins
  <2>. QED
    BY <1>2, <1>3, <2>1
<1>4. CASE m # 0
  <2>1. m - 1 \in Nat /\ m - 1 \notin Bad
    <3>. HIDE DEF Bad
    <3>. QED
      BY <1>1, <1>2, <1>4
  <2>2. PICK g : Joins(g, s, m - 1)
    BY <2>1
  <2>. DEFINE h == [i \in 1 .. m |-> IF i = 1 THEN s[i] ELSE g[i - 1] \o s[i]]
  <2>3. \A i \in 1 .. m - 1 : g[i] = IF i = 1 THEN s[i] ELSE g[i - 1] \o s[i]
    BY <2>2 DEF Joins
  <2>4. \A i \in 1 .. m : i # 1 => h[i - 1] = g[i - 1]
    <3>1. \A i \in 1 .. m - 1 : h[i] = g[i]
      BY <1>2, <2>3
    <3>2. \A i \in 1 .. m : i # 1 => i - 1 \in 1 .. m - 1
      BY <1>2
    <3>. HIDE DEF h
    <3>. QED
      BY <3>1, <3>2
  <2>5. \A i \in 1 .. m : h[i] = IF i = 1 THEN s[i] ELSE h[i - 1] \o s[i]
    <3>1. \A i \in 1 .. m : h[i] = IF i = 1 THEN s[i] ELSE g[i - 1] \o s[i]
      OBVIOUS
    <3>. HIDE DEF h
    <3>. QED
      BY <2>4, <3>1
  <2>6. h = [i \in 1 .. m |-> h[i]]
    OBVIOUS
  <2>7. Joins(h, s, m)
    <3>. HIDE DEF h
    <3>. QED
      BY <2>5, <2>6 DEF Joins
  <2>. QED
    BY <1>2, <2>7
<1>. QED
  BY <1>3, <1>4

SameTo(n, s, t) == \A i \in 1 .. n : s[i] = t[i]

\* Joining more pages leaves what has been joined as it is.
LEMMA JoinsAgree ==
  ASSUME NEW n \in Nat, NEW m \in Nat, n <= m, NEW s, NEW t, SameTo(n, s, t),
         NEW g, Joins(g, s, n), NEW h, Joins(h, t, m)
  PROVE  SameTo(n, g, h)
<1>. USE DEF SameTo
<1>. DEFINE Bad == {i \in 1 .. n : g[i] # h[i]}
<1>. SUFFICES ASSUME Bad # {} PROVE FALSE
  OBVIOUS
<1>1. PICK k \in Bad : \A i \in Bad : k <= i
  <2>1. Bad \subseteq Nat
    OBVIOUS
  <2>. HIDE DEF Bad
  <2>. QED
    BY <2>1, Least
<1>2. k \in 1 .. n /\ k \in 1 .. m /\ g[k] # h[k] /\ s[k] = t[k]
  OBVIOUS
<1>3. /\ g[k] = IF k = 1 THEN s[k] ELSE g[k - 1] \o s[k]
      /\ h[k] = IF k = 1 THEN t[k] ELSE h[k - 1] \o t[k]
  BY <1>2 DEF Joins
<1>4. k # 1 => g[k - 1] = h[k - 1]
  <2>1. k # 1 => k - 1 \in 1 .. n /\ ~ (k <= k - 1)
    BY <1>2
  <2>2. k - 1 \in 1 .. n /\ ~ (k <= k - 1) => k - 1 \notin Bad
    <3>. HIDE DEF Bad
    <3>. QED
      BY <1>1
  <2>. QED
    BY <2>1, <2>2
<1>. QED
  BY <1>2, <1>3, <1>4

\* One page more.
LEMMA FlattenAppend ==
  ASSUME NEW S, NEW s \in Seq(Seq(S)), NEW t \in Seq(S), FlattenSeq(s) \in Seq(S)
  PROVE  /\ FlattenSeq(<< >>) = << >>
         /\ FlattenSeq(Append(s, t)) = FlattenSeq(s) \o t
         /\ FlattenSeq(Append(s, t)) \in Seq(S)
<1>. DEFINE n == Len(s)
            a == Append(s, t)
<1>1. n \in Nat /\ Len(a) = n + 1 /\ a[n + 1] = t /\ \A i \in 1 .. n : s[i] = a[i]
  OBVIOUS
<1>2. FlattenSeq(<< >>) = << >>
  BY DEF FlattenSeq
<1>3. PICK h : h = CHOOSE g : Joins(g, a, n + 1)
  OBVIOUS
<1>4. Joins(h, a, n + 1)
  <2>1. \E g : Joins(g, a, n + 1)
    <3>1. n + 1 \in Nat
      BY <1>1
    <3>. HIDE DEF n, a
    <3>. QED
      BY <3>1, JoinsExist
  <2>. HIDE DEF n, a
  <2>. QED
    BY <1>3, <2>1
<1>5. FlattenSeq(a) = h[n + 1]
  <2>1. Len(a) # 0
    BY <1>1
  <2>2. FlattenSeq(a) = (CHOOSE g : Joins(g, a, Len(a)))[Len(a)]
    BY <2>1, FlattenIs
  <2>. QED
    BY <1>1, <1>3, <2>2
<1>6. h[n + 1] = IF n = 0 THEN t ELSE h[n] \o t
  <2>1. h[n + 1] = IF n + 1 = 1 THEN a[n + 1] ELSE h[(n + 1) - 1] \o a[n + 1]
    <3>1. n + 1 \in 1 .. n + 1
      BY <1>1
    <3>. HIDE DEF n, a
    <3>. QED
      BY <1>4, <3>1 DEF Joins
  <2>2. (n + 1 = 1 <=> n = 0) /\ (n + 1) - 1 = n
    BY <1>1
  <2>. HIDE DEF n, a
  <2>. QED
    BY <1>1, <2>1, <2>2
<1>7. n # 0 => FlattenSeq(s) = h[n]
  <2>1. PICK g : g = CHOOSE f : Joins(f, s, n)
    OBVIOUS
  <2>2. Joins(g, s, n)
    <3>. HIDE DEF n
    <3>1. \E f : Joins(f, s, n)
      BY <1>1, JoinsExist
    <3>. QED
      BY <2>1, <3>1
  <2>3. n # 0 => FlattenSeq(s) = g[n]
    BY <2>1, FlattenIs
  <2>4. \A i \in 1 .. n : g[i] = h[i]
    <3>. HIDE DEF n, a
    <3>1. PICK m \in Nat : m = n + 1 /\ n \in Nat /\ n <= m
      BY <1>1
    <3>2. SameTo(n, s, a) /\ Joins(h, a, m)
      BY <1>1, <1>4, <3>1 DEF SameTo
    <3>3. SameTo(n, g, h)
      BY <2>2, <3>1, <3>2, JoinsAgree
    <3>. QED
      BY <3>3 DEF SameTo
  <2>5. n # 0 => n \in 1 .. n
    BY <1>1
  <2>. HIDE DEF n
  <2>. QED
    BY <2>3, <2>4, <2>5
<1>8. n = 0 => FlattenSeq(s) \o t = t
  <2>1. n = 0 => s = << >>
    OBVIOUS
  <2>2. << >> \o t = t
    OBVIOUS
  <2>. QED
    BY <1>2, <2>1, <2>2
<1>9. FlattenSeq(a) = FlattenSeq(s) \o t
  <2>. HIDE DEF n, a
  <2>. QED
    BY <1>5, <1>6, <1>7, <1>8
<1>. QED
  BY <1>2, <1>9

-----------------------------------------------------------------------------
(* The order of a list, and one page of it *)

LEMMA Places ==
  ASSUME ListsInv, NEW i \in DOMAIN log
  PROVE  /\ CreatedAt(i) \in Nat /\ Place(i).at = CreatedAt(i) /\ Place(i).id = log[i].id
         /\ log[i].id \in Int /\ Place(i) # NoCursor
<1>1. log[i] \in ListRows
  BY DEF ListsInv
<1>2. log[i].txn \in Txn /\ log[i].id \in Int
  BY <1>1 DEF ListRows
<1>3. began[log[i].txn] \in Nat
  BY <1>2 DEF ListsInv
<1>. QED
  BY <1>2, <1>3 DEF CreatedAt, Place, NoCursor, NotYet

LEMMA NewerOrders ==
  ASSUME ListsInv
  PROVE  /\ \A i \in DOMAIN log : ~ Newer(i, i)
         /\ \A i, j, k \in DOMAIN log : Newer(i, j) /\ Newer(j, k) => Newer(i, k)
         /\ \A i, j \in DOMAIN log : i # j => Newer(i, j) \/ Newer(j, i)
<1>1. \A i, j \in DOMAIN log : log[i].id = log[j].id => i = j
  BY DEF ListsInv
<1>. QED
  BY <1>1, Places DEF Newer, Older

Matching(shown) == {i \in 1 .. shown : Matches(i, view.wants, view.to) /\ Below(i, view.cursor)}

\* The first `limit' rows that match and are below the cursor.
IsPage(items, shown, limit) ==
  /\ items \in Seq(Matching(shown)) /\ Len(items) <= limit
  /\ \A a, b \in 1 .. Len(items) : a < b => Newer(items[a], items[b])
  /\ \A i \in Matching(shown) :
       \/ \E a \in 1 .. Len(items) : items[a] = i
       \/ Len(items) = limit /\ \A a \in 1 .. Len(items) : Newer(items[a], i)

LEMMA RowsAre ==
  ASSUME ListsInv, NEW shown \in 0 .. Len(log), NEW limit \in Nat
  PROVE  IsPage(Rows(shown, limit), shown, limit)
<1>. DEFINE M == Matching(shown)
            R == {p \in M \X M : Newer(p[1], p[2])}
            c == Cardinality(M)
            n == Smaller(limit, c)
            r == [k \in 1 .. n |-> CHOOSE i \in M : Rank(R, M, i) = k - 1]
<1>1. M \subseteq DOMAIN log /\ IsFiniteSet(M) /\ c \in Nat
  <2>1. M \subseteq 1 .. shown
    BY DEF Matching
  <2>2. shown \in Nat /\ shown <= Len(log) /\ DOMAIN log = 1 .. Len(log) /\ Len(log) \in Nat
    BY DEF ListsInv
  <2>3. IsFiniteSet(1 .. shown) /\ 1 .. shown \subseteq DOMAIN log
    BY <2>2, FS_Interval
  <2>. HIDE DEF M
  <2>. QED
    BY <2>1, <2>3, FS_Subset, FS_CardinalityType
<1>2. Rows(shown, limit) = r
  <2>1. \A i \in M : {j \in M : Newer(j, i)} = {j \in M : <<j, i>> \in R}
    OBVIOUS
  <2>2. \A i \in M : Cardinality({j \in M : Newer(j, i)}) = Rank(R, M, i)
    BY <2>1 DEF Rank
  <2>3. Rows(shown, limit)
          = [k \in 1 .. n |-> CHOOSE i \in M : Cardinality({j \in M : Newer(j, i)}) = k - 1]
    BY DEF Rows, Matching
  <2>4. \A k : (CHOOSE i \in M : Cardinality({j \in M : Newer(j, i)}) = k - 1)
                = CHOOSE i \in M : Rank(R, M, i) = k - 1
    <3>. HIDE DEF M, R
    <3>. QED
      BY <2>2
  <2>. HIDE DEF M, R, n
  <2>. QED
    BY <2>3, <2>4
<1>3. \A i, j \in M : <<i, j>> \in R <=> Newer(i, j)
  OBVIOUS
<1>. HIDE DEF M, R
<1>4. Orders(R, M)
  BY <1>1, <1>3, NewerOrders DEF Orders
<1>5. /\ \A i \in M : Rank(R, M, i) \in 0 .. c - 1
      /\ \A i, j \in M : Rank(R, M, i) = Rank(R, M, j) => i = j
      /\ \A q \in 0 .. c - 1 : \E i \in M : Rank(R, M, i) = q
  <2>. DEFINE f == [i \in M |-> Rank(R, M, i)]
  <2>1. f \in Bijection(M, 0 .. c - 1)
    BY <1>1, <1>4, RankBijection
  <2>2. f \in [M -> 0 .. c - 1]
    BY <2>1 DEF Bijection, Injection
  <2>3. \A i, j \in M : f[i] = f[j] => i = j
    BY <2>1 DEF Bijection, Injection, IsInjective
  <2>4. \A q \in 0 .. c - 1 : \E i \in M : f[i] = q
    BY <2>1 DEF Bijection, Surjection
  <2>. QED
    BY <2>2, <2>3, <2>4
<1>6. /\ n \in Nat /\ n <= limit /\ n <= c /\ (n = limit \/ n = c)
  BY <1>1 DEF Smaller
<1>7. /\ DOMAIN r = 1 .. n
      /\ \A k \in 1 .. n : r[k] \in M /\ Rank(R, M, r[k]) = k - 1
  <2>1. \A k \in 1 .. n : k - 1 \in 0 .. c - 1
    BY <1>1, <1>6
  <2>. HIDE DEF n, c
  <2>2. \A k \in 1 .. n : \E i \in M : Rank(R, M, i) = k - 1
    BY <1>5, <2>1
  <2>. QED
    BY <2>2
<1>. HIDE DEF r
<1>8. r \in Seq(M) /\ Len(r) = n
  <2>1. r \in [1 .. n -> M]
    <3>1. r = [k \in 1 .. n |-> r[k]]
      BY DEF r
    <3>. HIDE DEF n
    <3>. QED
      BY <1>7, <3>1
  <2>. HIDE DEF n
  <2>. QED
    BY <1>6, <2>1
<1>. HIDE DEF n
<1>9. ASSUME NEW a \in 1 .. n, NEW b \in 1 .. n, a < b PROVE Newer(r[a], r[b])
  <2>1. r[a] \in M /\ r[b] \in M /\ Rank(R, M, r[a]) = a - 1 /\ Rank(R, M, r[b]) = b - 1
    BY <1>7
  <2>2. r[a] # r[b]
    BY <1>6, <1>9, <2>1
  <2>3. ~ (<<r[b], r[a]>> \in R)
    <3>1. <<r[b], r[a]>> \in R => Rank(R, M, r[b]) < Rank(R, M, r[a])
      BY <1>1, <1>4, <2>1, RankAscends
    <3>. QED
      BY <1>6, <1>9, <2>1, <3>1
  <2>4. <<r[a], r[b]>> \in R
    BY <1>4, <2>1, <2>2, <2>3 DEF Orders
  <2>. QED
    BY <1>3, <2>1, <2>4
<1>10. ASSUME NEW i \in M
       PROVE  \/ \E a \in 1 .. n : r[a] = i
              \/ n = limit /\ \A a \in 1 .. n : Newer(r[a], i)
  <2>1. PICK q \in Nat : q = Rank(R, M, i) /\ q <= c - 1
    BY <1>1, <1>5
  <2>2. CASE q + 1 <= n
    <3>1. q + 1 \in 1 .. n /\ (q + 1) - 1 = q
      BY <1>6, <2>2
    <3>2. r[q + 1] = i
      BY <1>5, <1>7, <2>1, <3>1
    <3>. QED
      BY <3>1, <3>2
  <2>3. CASE ~ (q + 1 <= n)
    <3>1. n = limit
      BY <1>1, <1>6, <2>1, <2>3
    <3>2. ASSUME NEW a \in 1 .. n PROVE Newer(r[a], i)
      <4>1. r[a] \in M /\ Rank(R, M, r[a]) = a - 1
        BY <1>7
      <4>2. r[a] # i
        BY <1>6, <2>1, <2>3, <4>1
      <4>3. ~ (<<i, r[a]>> \in R)
        <5>1. <<i, r[a]>> \in R => Rank(R, M, i) < Rank(R, M, r[a])
          BY <1>1, <1>4, <4>1, RankAscends
        <5>. QED
          BY <1>6, <2>1, <2>3, <4>1, <5>1
      <4>4. <<r[a], i>> \in R
        BY <1>4, <4>1, <4>2, <4>3 DEF Orders
      <4>. QED
        BY <1>3, <4>1, <4>4
    <3>. QED
      BY <3>1, <3>2
  <2>. QED
    BY <2>2, <2>3
<1>. QED
  BY <1>2, <1>6, <1>8, <1>9, <1>10 DEF IsPage, M

-----------------------------------------------------------------------------
(* What a reader has and is still owed *)

\* Nothing below the cursor has been listed, and what the reader is owed has been listed or is
\* below the cursor.
ReaderInv ==
  /\ {"pc", "op", "to", "wants", "cursor", "pages", "owed"} \subseteq DOMAIN view
  /\ view.pc \in {"IDLE", "READING", "DONE"}
  /\ view.pages \in Seq(Seq(DOMAIN log)) /\ Listed \in Seq(DOMAIN log)
  /\ \A a, b \in DOMAIN Listed : a < b => Newer(Listed[a], Listed[b])
  /\ view.owed \subseteq DOMAIN log
  /\ \A i \in view.owed : Matches(i, view.wants, view.to)
  /\ view.pc = "READING" =>
       /\ \A i \in view.owed : i \in ToSet(Listed) \/ Below(i, view.cursor)
       /\ \/ view.cursor = NoCursor /\ Listed = << >>
          \/ \E i \in DOMAIN log :
               /\ view.cursor = Place(i)
               /\ \A a \in DOMAIN Listed : Listed[a] = i \/ Newer(Listed[a], i)
  /\ view.pc = "DONE" => view.owed \subseteq ToSet(Listed)

\* The next page goes below those before it; the cursor follows it, or nothing is left.
LEMMA PageKeeps ==
  ASSUME ListsInv, ReaderInv, view.pc = "READING",
         NEW shown \in 0 .. Len(log), NEW items, IsPage(items, shown, PageSize),
         UNCHANGED <<clock, table, began, log, arrived>>,
         DOMAIN view' = DOMAIN view,
         view'.wants = view.wants, view'.to = view.to,
         view'.pages = Append(view.pages, items),
         view'.owed \subseteq view.owed \cap 1 .. shown,
         \/ /\ view'.pc = "READING" /\ Len(items) = PageSize
            /\ view'.cursor = Place(items[Len(items)])
         \/ /\ view'.pc = "DONE"
            /\ \A i \in Matching(shown) : \E a \in 1 .. Len(items) : items[a] = i
  PROVE  ReaderInv'
<1>. DEFINE n == Len(items)
            D == DOMAIN log
<1>1. /\ Matching(shown) \subseteq D
      /\ \A i \in Matching(shown) : Below(i, view.cursor)
      /\ D = 1 .. Len(log) /\ Len(log) \in Nat
  <2>1. DOMAIN log = 1 .. Len(log) /\ Len(log) \in Nat
    BY DEF ListsInv
  <2>. QED
    BY <2>1 DEF Matching
<1>2. /\ items \in Seq(D) /\ n \in Nat /\ DOMAIN items = 1 .. n
      /\ \A a \in 1 .. n : items[a] \in Matching(shown)
      /\ \A a, b \in 1 .. n : a < b => Newer(items[a], items[b])
  <2>1. items \in Seq(Matching(shown))
    BY DEF IsPage
  <2>. QED
    BY <1>1, <2>1 DEF IsPage
<1>3. /\ Listed \in Seq(D) /\ Listed' = Listed \o items /\ Listed' \in Seq(D)
      /\ view'.pages \in Seq(Seq(D))
  <2>1. view.pages \in Seq(Seq(D)) /\ FlattenSeq(view.pages) \in Seq(D)
    BY DEF ReaderInv, Listed
  <2>. HIDE DEF D
  <2>2. /\ FlattenSeq(Append(view.pages, items)) = FlattenSeq(view.pages) \o items
        /\ FlattenSeq(Append(view.pages, items)) \in Seq(D)
    BY <1>2, <2>1, FlattenAppend
  <2>. QED
    BY <1>2, <2>1, <2>2 DEF Listed
<1>. DEFINE m == Len(Listed)
<1>4. /\ m \in Nat /\ DOMAIN Listed = 1 .. m /\ DOMAIN Listed' = 1 .. m + n
      /\ \A a \in 1 .. m : Listed'[a] = Listed[a]
      /\ \A a \in 1 .. n : Listed'[m + a] = items[a]
  BY <1>2, <1>3
<1>5. \A a \in 1 .. m + n : a \in 1 .. m \/ (a - m \in 1 .. n /\ a = m + (a - m))
  BY <1>2, <1>4
<1>6. ASSUME NEW a \in 1 .. m, NEW i \in Matching(shown) PROVE Newer(Listed[a], i)
  <2>1. PICK j \in D : view.cursor = Place(j) /\ (Listed[a] = j \/ Newer(Listed[a], j))
    <3>1. Listed # << >>
      BY <1>4
    <3>. QED
      BY <1>4, <3>1 DEF ReaderInv
  <2>2. Older(Place(i), Place(j))
    BY <1>1, <2>1, Places DEF Below
  <2>3. Newer(j, i) /\ Listed[a] \in D /\ i \in D
    BY <1>1, <1>3, <1>4, <2>2 DEF Newer
  <2>. QED
    BY <2>1, <2>3, NewerOrders
<1>7. \A i, j : Newer(i, j)' <=> Newer(i, j)
  BY DEF Newer, Older, Place, CreatedAt
<1>8. ASSUME NEW a \in DOMAIN Listed', NEW b \in DOMAIN Listed', a < b
      PROVE  Newer(Listed'[a], Listed'[b])
  <2>1. CASE a \in 1 .. m /\ b \in 1 .. m
    BY <1>4, <1>8, <2>1 DEF ReaderInv
  <2>2. CASE a \in 1 .. m /\ b - m \in 1 .. n
    BY <1>2, <1>4, <1>5, <1>6, <2>2
  <2>3. CASE a - m \in 1 .. n /\ b - m \in 1 .. n
    <3>1. /\ a = m + (a - m) /\ b = m + (b - m) /\ a - m < b - m
      BY <1>4, <1>8
    <3>2. Listed'[a] = items[a - m] /\ Listed'[b] = items[b - m]
      BY <1>4, <2>3, <3>1
    <3>. QED
      BY <1>2, <2>3, <3>1, <3>2
  <2>4. ~ (a - m \in 1 .. n /\ b \in 1 .. m)
    BY <1>2, <1>4, <1>8
  <2>5. a \in 1 .. m + n /\ b \in 1 .. m + n
    BY <1>4
  <2>. HIDE DEF m, n
  <2>. QED
    BY <1>5, <2>1, <2>2, <2>3, <2>4, <2>5
<1>9. /\ \A i \in ToSet(Listed) : i \in ToSet(Listed)'
      /\ \A a \in 1 .. n : items[a] \in ToSet(Listed)'
  <2>1. \A a \in 1 .. m : a \in DOMAIN Listed' /\ Listed[a] = Listed'[a]
    BY <1>2, <1>4
  <2>2. \A a \in 1 .. n : m + a \in DOMAIN Listed' /\ items[a] = Listed'[m + a]
    BY <1>2, <1>4
  <2>3. /\ ToSet(Listed) = {Listed[a] : a \in 1 .. m}
        /\ ToSet(Listed)' = {Listed'[a] : a \in DOMAIN Listed'}
    BY <1>4 DEF ToSet
  <2>. HIDE DEF m, n
  <2>. QED
    BY <2>1, <2>2, <2>3
<1>10. ASSUME NEW i \in view'.owed
       PROVE  i \in D /\ Matches(i, view.wants, view.to) /\ (i \in ToSet(Listed) \/ i \in Matching(shown))
  <2>1. i \in view.owed /\ i \in 1 .. shown
    OBVIOUS
  <2>. QED
    BY <2>1 DEF ReaderInv, Matching
<1>11. /\ view'.owed \subseteq D
       /\ \A i \in view'.owed : Matches(i, view.wants, view.to)'
  BY <1>10 DEF Matches, CreatedAt
<1>12. CASE view'.pc = "DONE"
  <2>1. view'.owed \subseteq ToSet(Listed)'
    BY <1>9, <1>10, <1>12
  <2>. QED
    BY <1>3, <1>7, <1>8, <1>11, <1>12, <2>1 DEF ReaderInv
<1>13. CASE view'.pc = "READING"
  <2>1. /\ n = PageSize /\ n \in 1 .. n /\ view'.cursor = Place(items[n]) /\ items[n] \in D
    <3>1. PageSize \in Nat \ {0}
      BY StatementsAssumption
    <3>2. n = PageSize /\ view'.cursor = Place(items[n])
      BY <1>13
    <3>. HIDE DEF n
    <3>3. n \in 1 .. n
      BY <3>1, <3>2
    <3>4. items[n] \in D
      <4>1. items[n] \in Matching(shown)
        BY <1>2, <3>3
      <4>. HIDE DEF D
      <4>. QED
        BY <1>1, <4>1
    <3>. QED
      BY <3>2, <3>3, <3>4
  <2>2. \A a \in 1 .. n : a # n => a < n
    <3>1. n \in Nat
      BY <1>2
    <3>. HIDE DEF n
    <3>. QED
      BY <3>1
  <2>3. \A i \in view'.owed : i \in ToSet(Listed)' \/ Below(i, view'.cursor)
    <3>. SUFFICES ASSUME NEW i \in Matching(shown), \A a \in 1 .. n : items[a] # i
                  PROVE  Below(i, view'.cursor)
      BY <1>9, <1>10
    <3>1. Newer(items[n], i)
      BY <2>1 DEF IsPage
    <3>. QED
      BY <2>1, <3>1 DEF Newer, Below
  <2>4. \A a \in DOMAIN Listed' : Listed'[a] = items[n] \/ Newer(Listed'[a], items[n])
    <3>1. \A a \in 1 .. m : Newer(Listed'[a], items[n])
      BY <1>2, <1>4, <1>6, <2>1
    <3>2. \A a \in 1 .. n : items[a] = items[n] \/ Newer(items[a], items[n])
      <4>1. \A a, b \in 1 .. n : a < b => Newer(items[a], items[b])
        BY <1>2
      <4>. HIDE DEF n
      <4>. QED
        BY <2>1, <2>2, <4>1
    <3>3. \A a \in 1 .. m + n : a - m \in 1 .. n => Listed'[a] = items[a - m]
      <4>1. m \in Nat /\ \A a \in 1 .. n : Listed'[m + a] = items[a]
        BY <1>4
      <4>. HIDE DEF m, n
      <4>2. \A a \in Int : a = m + (a - m)
        BY <4>1
      <4>. QED
        BY <4>1, <4>2
    <3>. QED
      BY <1>4, <1>5, <3>1, <3>2, <3>3
  <2>5. /\ (Place(items[n]))' = Place(items[n])
        /\ \A i : (Below(i, view.cursor))' <=> Below(i, view'.cursor)
    BY DEF Place, CreatedAt, Below, Older
  <2>. QED
    BY <1>3, <1>7, <1>8, <1>11, <1>13, <2>1, <2>3, <2>4, <2>5 DEF ReaderInv
<1>. QED
  BY <1>12, <1>13

\* Rows that are added or marked leave every place where it is.
LEMMA WriteKeeps ==
  ASSUME ListsInv, ReaderInv, UNCHANGED table, DOMAIN log \subseteq DOMAIN log',
         \A i \in DOMAIN log : log'[i].id = log[i].id /\ CreatedAt(i)' = CreatedAt(i),
         DOMAIN view' = DOMAIN view, view'.pc = view.pc, view'.to = view.to,
         view'.wants = view.wants, view'.cursor = view.cursor, view'.pages = view.pages,
         view'.owed \subseteq view.owed, \A i \in view'.owed : log'[i].mark \in view.wants
  PROVE  ReaderInv'
<1>1. Listed' = Listed
  BY DEF Listed
<1>2. ASSUME NEW i \in DOMAIN log
      PROVE  /\ Place(i)' = Place(i)
             /\ \A c : Below(i, c)' <=> Below(i, c)
  BY DEF Place, Below, Older
<1>3. \A i, j \in DOMAIN log : Newer(i, j)' <=> Newer(i, j)
  BY <1>2 DEF Newer, Older
<1>4. /\ Listed \in Seq(DOMAIN log) /\ Listed' \in Seq(DOMAIN log')
      /\ \A a \in DOMAIN Listed : Listed[a] \in DOMAIN log
      /\ view'.pages \in Seq(Seq(DOMAIN log'))
  <2>1. /\ Listed \in Seq(DOMAIN log) /\ view.pages \in Seq(Seq(DOMAIN log))
    BY DEF ReaderInv
  <2>2. Seq(DOMAIN log) \subseteq Seq(DOMAIN log')
    OBVIOUS
  <2>3. Seq(Seq(DOMAIN log)) \subseteq Seq(Seq(DOMAIN log'))
    BY <2>2
  <2>. QED
    BY <1>1, <2>1, <2>2, <2>3
<1>5. ASSUME NEW i \in view'.owed
      PROVE  /\ i \in view.owed /\ i \in DOMAIN log /\ i \in DOMAIN log'
             /\ Matches(i, view.wants, view.to)'
  <2>1. i \in view.owed /\ i \in DOMAIN log /\ Matches(i, view.wants, view.to)
    BY DEF ReaderInv
  <2>2. CreatedAt(i)' = CreatedAt(i) /\ log'[i].mark \in view.wants
    BY <2>1
  <2>. QED
    BY <2>1, <2>2 DEF Matches
<1>6. (\A a, b \in DOMAIN Listed : a < b => Newer(Listed[a], Listed[b]))'
  BY <1>1, <1>3, <1>4 DEF ReaderInv
<1>7. ToSet(Listed)' = ToSet(Listed)
  BY <1>1 DEF ToSet
<1>8. ASSUME view'.pc = "READING"
      PROVE  /\ \A i \in view'.owed : i \in ToSet(Listed)' \/ Below(i, view.cursor)'
             /\ \/ view'.cursor = NoCursor /\ Listed' = << >>
                \/ (\E i \in DOMAIN log :
                      /\ view.cursor = Place(i)
                      /\ \A a \in DOMAIN Listed : Listed[a] = i \/ Newer(Listed[a], i))'
  <2>1. \A i \in view.owed : i \in ToSet(Listed) \/ Below(i, view.cursor)
    BY <1>8 DEF ReaderInv
  <2>2. \A i \in view'.owed : i \in ToSet(Listed)' \/ Below(i, view.cursor)'
    <3>. SUFFICES ASSUME NEW i \in view'.owed PROVE i \in ToSet(Listed)' \/ Below(i, view.cursor)'
      OBVIOUS
    <3>1. Place(i)' = Place(i) /\ (i \in ToSet(Listed) \/ Below(i, view.cursor))
      BY <1>2, <1>5, <2>1
    <3>2. Below(i, view.cursor)' <=> Below(i, view.cursor)
      BY <3>1 DEF Below, Older
    <3>. QED
      BY <1>7, <3>1, <3>2
  <2>3. CASE view.cursor = NoCursor /\ Listed = << >>
    BY <1>1, <2>2, <2>3
  <2>4. CASE ~ (view.cursor = NoCursor /\ Listed = << >>)
    <3>1. PICK i \in DOMAIN log :
            /\ view.cursor = Place(i)
            /\ \A a \in DOMAIN Listed : Listed[a] = i \/ Newer(Listed[a], i)
      BY <1>8, <2>4 DEF ReaderInv
    <3>2. /\ i \in DOMAIN log' /\ view'.cursor = Place(i)'
          /\ (\A a \in DOMAIN Listed : Listed[a] = i \/ Newer(Listed[a], i))'
      BY <1>1, <1>2, <1>3, <1>4, <3>1
    <3>. QED
      BY <2>2, <3>2
  <2>. QED
    BY <2>3, <2>4
<1>. QED
  BY <1>4, <1>5, <1>6, <1>7, <1>8 DEF ReaderInv

LEMMA WritersKeep ==
  ASSUME ListsInv, ReaderInv,
         \/ \E t \in Txn : Begin(t)
         \/ \E t \in Txn, mark \in Mark, id \in 1 .. Cardinality(Txn) : Post(t, mark, id)
         \/ \E i \in DOMAIN log, mark \in Mark : Changes(i, mark)
         \/ Arrives \/ Tick
  PROVE  ReaderInv'
<1>1. /\ \A i \in DOMAIN log : log[i] \in ListRows /\ log[i].txn \in Txn
      /\ DOMAIN log = 1 .. Len(log) /\ Len(log) \in Nat
  <2>1. \A i \in DOMAIN log : log[i] \in ListRows
    BY DEF ListsInv
  <2>2. DOMAIN log = 1 .. Len(log) /\ Len(log) \in Nat
    BY DEF ListsInv
  <2>. QED
    BY <2>1, <2>2 DEF ListRows
<1>2. \A i \in view.owed : i \in DOMAIN log /\ log[i].mark \in view.wants
  BY DEF ReaderInv, Matches
<1>3. CASE Arrives \/ Tick
  <2>1. UNCHANGED <<table, began, log, view>>
    BY <1>3 DEF Arrives, Tick
  <2>. QED
    BY <1>2, <2>1, WriteKeeps DEF CreatedAt
<1>4. ASSUME NEW t \in Txn, Begin(t) PROVE ReaderInv'
  <2>1. /\ UNCHANGED <<table, log, view>> /\ began[t] = NotYet
        /\ began' = [began EXCEPT ![t] = clock] /\ DOMAIN began = Txn
    BY <1>4 DEF Begin, ListsInv
  <2>2. \A i \in DOMAIN log : CreatedAt(i)' = CreatedAt(i)
    <3>1. \A i \in DOMAIN log : log[i].txn # t
      BY <2>1 DEF ListsInv
    <3>. QED
      BY <1>1, <2>1, <3>1 DEF CreatedAt
  <2>. QED
    BY <1>2, <2>1, <2>2, WriteKeeps
<1>5. ASSUME NEW t \in Txn, NEW mark \in Mark, NEW id \in 1 .. Cardinality(Txn), Post(t, mark, id)
      PROVE  ReaderInv'
  <2>1. PICK row : row = [txn |-> t, mark |-> mark, id |-> id, day |-> ReferenceDay]
    OBVIOUS
  <2>2. UNCHANGED <<table, began, view>> /\ log' = Append(log, row)
    BY <1>5, <2>1 DEF Post
  <2>3. DOMAIN log \subseteq DOMAIN log' /\ \A i \in DOMAIN log : log'[i] = log[i]
    BY <1>1, <2>2 DEF ListsInv
  <2>. QED
    BY <1>2, <2>2, <2>3, WriteKeeps DEF CreatedAt
<1>6. ASSUME NEW k \in DOMAIN log, NEW mark \in Mark, Changes(k, mark) PROVE ReaderInv'
  <2>1. PICK row : row = [log[k] EXCEPT !.mark = mark]
    OBVIOUS
  <2>2. row.txn = log[k].txn /\ row.id = log[k].id /\ row.mark = mark
    BY <1>1, <2>1 DEF ListRows
  <2>3. /\ UNCHANGED <<table, began>> /\ log' = [log EXCEPT ![k] = row]
        /\ view' = [view EXCEPT !.owed = IF mark \in view.wants THEN view.owed ELSE view.owed \ {k}]
    BY <1>6, <2>1 DEF Changes
  <2>4. /\ DOMAIN log' = DOMAIN log /\ log'[k] = row
        /\ \A i \in DOMAIN log : i # k => log'[i] = log[i]
    BY <2>3
  <2>5. \A i \in DOMAIN log : log'[i].id = log[i].id /\ log'[i].txn = log[i].txn
    BY <2>2, <2>4
  <2>6. /\ DOMAIN view' = DOMAIN view /\ view'.pc = view.pc /\ view'.to = view.to
        /\ view'.wants = view.wants /\ view'.cursor = view.cursor /\ view'.pages = view.pages
        /\ view'.owed = IF mark \in view.wants THEN view.owed ELSE view.owed \ {k}
    BY <2>3 DEF ReaderInv
  <2>7. view'.owed \subseteq view.owed /\ \A i \in view'.owed : log'[i].mark \in view.wants
    BY <1>2, <2>2, <2>4, <2>6
  <2>8. \A i \in DOMAIN log : CreatedAt(i)' = CreatedAt(i)
    BY <2>3, <2>5 DEF CreatedAt
  <2>. QED
    BY <2>3, <2>4, <2>5, <2>6, <2>7, <2>8, WriteKeeps
<1>. QED
  BY <1>3, <1>4, <1>5, <1>6

LEMMA OpensKeeps ==
  ASSUME ListsInv, NEW op, NEW to, NEW wants, Opens(op, to, wants)
  PROVE  ReaderInv'
<1>1. /\ UNCHANGED <<clock, table, began, log, arrived>>
      /\ view' = [Idle EXCEPT !.pc = "READING", !.op = op, !.to = to, !.wants = wants,
                              !.owed = {i \in DOMAIN log : Matches(i, wants, to)}]
  BY DEF Opens
<1>2. /\ DOMAIN view' = {"pc", "op", "to", "wants", "cursor", "pages", "owed"}
      /\ view'.pc = "READING" /\ view'.to = to /\ view'.wants = wants /\ view'.cursor = NoCursor
      /\ view'.pages = << >> /\ view'.owed = {i \in DOMAIN log : Matches(i, wants, to)}
  BY <1>1 DEF Idle
<1>3. Listed' = << >>
  BY <1>2 DEF Listed, FlattenSeq
<1>4. << >> \in Seq(DOMAIN log) /\ << >> \in Seq(Seq(DOMAIN log)) /\ DOMAIN << >> = {}
  OBVIOUS
<1>5. ASSUME NEW i \in view'.owed PROVE Below(i, view.cursor)' /\ Matches(i, view.wants, view.to)'
  BY <1>1, <1>2 DEF Below, Matches, CreatedAt
<1>. QED
  BY <1>1, <1>2, <1>3, <1>4, <1>5 DEF ReaderInv

LEMMA ToPageKeeps ==
  ASSUME ListsInv, ReaderInv, NEW op, NEW shown \in 0 .. Len(log), Reading(op), ToPage(shown)
  PROVE  ReaderInv'
<1>. DEFINE rows == Rows(shown, PageSize + 1)
            items == SubSeq(rows, 1, Smaller(PageSize, Len(rows)))
            more == Len(rows) > PageSize
            n == Len(items)
<1>1. /\ UNCHANGED <<clock, table, began, log, arrived>> /\ view.pc = "READING"
      /\ view' = [view EXCEPT !.pages = Append(view.pages, items),
                              !.cursor = IF more THEN CursorOf(Last(items)) ELSE view.cursor,
                              !.owed = view.owed \cap 1 .. shown,
                              !.pc = IF more THEN view.pc ELSE "DONE"]
  BY DEF Reading, ToPage
<1>2. /\ DOMAIN view' = DOMAIN view /\ view'.wants = view.wants /\ view'.to = view.to
      /\ view'.pages = Append(view.pages, items)
      /\ view'.owed = view.owed \cap 1 .. shown
      /\ view'.cursor = IF more THEN CursorOf(Last(items)) ELSE view.cursor
      /\ view'.pc = IF more THEN "READING" ELSE "DONE"
  <2>. HIDE DEF items, more
  <2>. QED
    BY <1>1 DEF ReaderInv
<1>3. PageSize \in Nat \ {0} /\ PageSize + 1 \in Nat
  BY StatementsAssumption
<1>4. IsPage(rows, shown, PageSize + 1)
  BY <1>3, RowsAre
<1>. HIDE DEF rows
<1>5. /\ rows \in Seq(Matching(shown)) /\ Len(rows) \in Nat /\ Len(rows) <= PageSize + 1
  BY <1>4 DEF IsPage
<1>6. /\ items \in Seq(Matching(shown)) /\ n \in Nat
      /\ n = (IF more THEN PageSize ELSE Len(rows))
      /\ n <= PageSize /\ n <= Len(rows)
      /\ \A a \in 1 .. n : items[a] = rows[a]
  <2>1. PICK k \in Nat : /\ k = Smaller(PageSize, Len(rows)) /\ k <= Len(rows) /\ k <= PageSize
                         /\ k = (IF more THEN PageSize ELSE Len(rows))
    BY <1>3, <1>5 DEF Smaller
  <2>2. items = SubSeq(rows, 1, k)
    BY <2>1
  <2>. HIDE DEF items
  <2>3. items \in Seq(Matching(shown)) /\ Len(items) = k /\ \A a \in 1 .. k : items[a] = rows[a]
    BY <1>5, <2>1, <2>2
  <2>. HIDE DEF more
  <2>. QED
    BY <2>1, <2>3
<1>. HIDE DEF items
<1>7. /\ \A a, b \in 1 .. Len(rows) : a < b => Newer(rows[a], rows[b])
      /\ \A i \in Matching(shown) :
           \/ \E a \in 1 .. Len(rows) : rows[a] = i
           \/ Len(rows) = PageSize + 1 /\ \A a \in 1 .. Len(rows) : Newer(rows[a], i)
  BY <1>4 DEF IsPage
<1>8. \A a \in 1 .. n : a \in 1 .. Len(rows)
  BY <1>5, <1>6
<1>9. \A a, b \in 1 .. n : a < b => Newer(items[a], items[b])
  <2>. HIDE DEF n, more
  <2>. QED
    BY <1>6, <1>7, <1>8
<1>10. CASE ~ more
  <2>1. ASSUME NEW i \in Matching(shown) PROVE \E a \in 1 .. n : items[a] = i
    <3>1. Len(rows) # PageSize + 1 /\ n = Len(rows)
      BY <1>3, <1>5, <1>6, <1>10
    <3>. HIDE DEF n, more
    <3>. QED
      BY <1>6, <1>7, <3>1
  <2>2. IsPage(items, shown, PageSize)
    <3>. HIDE DEF n, more
    <3>1. n = Len(items)
      BY DEF n
    <3>. QED
      BY <1>6, <1>9, <2>1, <3>1 DEF IsPage
  <2>3. view'.pc = "DONE" /\ view'.owed \subseteq view.owed \cap 1 .. shown
    BY <1>2, <1>10
  <2>. HIDE DEF more
  <2>. QED
    BY <1>1, <1>2, <2>1, <2>2, <2>3, PageKeeps
<1>11. CASE more
  <2>1. n = PageSize /\ Len(rows) = PageSize + 1 /\ PageSize + 1 \in 1 .. Len(rows)
    BY <1>3, <1>5, <1>6, <1>11
  <2>2. ASSUME NEW i \in Matching(shown)
        PROVE  (\E a \in 1 .. n : items[a] = i) \/ \A a \in 1 .. n : Newer(items[a], i)
    <3>1. CASE \E a \in 1 .. Len(rows) : rows[a] = i
      <4>1. PICK a \in 1 .. Len(rows) : rows[a] = i
        BY <3>1
      <4>2. CASE a \in 1 .. n
        <5>. HIDE DEF n, more
        <5>. QED
          BY <1>6, <4>1, <4>2
      <4>3. CASE a \notin 1 .. n
        <5>1. \A b \in 1 .. n : b < a /\ b \in 1 .. Len(rows)
          BY <1>3, <1>8, <2>1, <4>1, <4>3
        <5>. HIDE DEF n, more
        <5>. QED
          BY <1>6, <1>7, <4>1, <5>1
      <4>. QED
        BY <4>2, <4>3
    <3>2. CASE \A a \in 1 .. Len(rows) : Newer(rows[a], i)
      <4>. HIDE DEF n, more
      <4>. QED
        BY <1>6, <1>8, <3>2
    <3>. QED
      BY <1>7, <3>1, <3>2
  <2>3. IsPage(items, shown, PageSize)
    <3>. HIDE DEF n, more
    <3>1. n = Len(items)
      BY DEF n
    <3>. QED
      BY <1>6, <1>9, <2>1, <2>2, <3>1 DEF IsPage
  <2>4. /\ view'.pc = "READING" /\ view'.owed \subseteq view.owed \cap 1 .. shown
        /\ view'.cursor = Place(items[Len(items)]) /\ Len(items) = PageSize
    BY <1>2, <1>11, <2>1 DEF CursorOf, Last
  <2>. HIDE DEF more, n
  <2>. QED
    BY <1>1, <1>2, <2>3, <2>4, PageKeeps
<1>. QED
  BY <1>10, <1>11

LEMMA StatementKeeps == ListsInv /\ ReaderInv /\ StatementPage => ReaderInv'
<1>. SUFFICES ASSUME ListsInv, ReaderInv, StatementPage PROVE ReaderInv'
  OBVIOUS
<1>. DEFINE rows == Rows(Len(log), PageSize)
            shown == Len(log)
<1>1. /\ UNCHANGED <<clock, table, began, log, arrived>> /\ view.pc = "READING"
      /\ view' = IF rows = << >> THEN [view EXCEPT !.pc = "DONE"]
                 ELSE [view EXCEPT !.pages = Append(view.pages, rows),
                                   !.cursor = CursorOf(Last(rows)),
                                   !.pc = IF Len(rows) < PageSize THEN "DONE" ELSE view.pc]
  BY DEF StatementPage, Reading
<1>2. PageSize \in Nat \ {0} /\ shown \in 0 .. Len(log) /\ Len(log) \in Nat
  BY StatementsAssumption DEF ListsInv
<1>3. IsPage(rows, shown, PageSize)
  BY <1>2, RowsAre
<1>. HIDE DEF rows
<1>4. /\ Len(rows) \in Nat /\ Len(rows) <= PageSize /\ rows \in Seq(Matching(shown))
      /\ \A i \in Matching(shown) : (\E a \in 1 .. Len(rows) : rows[a] = i) \/ Len(rows) = PageSize
  BY <1>3 DEF IsPage
<1>5. view.owed \subseteq view.owed \cap 1 .. shown
  BY DEF ReaderInv, ListsInv
<1>6. CASE rows = << >>
  <2>1. Len(rows) = 0 /\ 1 .. Len(rows) = {} /\ Matching(shown) = {}
    BY <1>2, <1>4, <1>6
  <2>2. \A i \in view.owed : i \in ToSet(Listed)
    <3>1. \A i \in view.owed : i \notin Matching(shown)
      BY <2>1
    <3>. QED
      BY <1>1, <1>5, <3>1 DEF ReaderInv, Matching
  <2>3. /\ DOMAIN view' = DOMAIN view /\ view'.wants = view.wants /\ view'.to = view.to
        /\ view'.pages = view.pages /\ view'.owed = view.owed /\ view'.cursor = view.cursor
        /\ view'.pc = "DONE"
    BY <1>1, <1>6 DEF ReaderInv
  <2>4. Listed' = Listed /\ ToSet(Listed)' = ToSet(Listed)
    BY <2>3 DEF Listed, ToSet
  <2>5. \A i, j : (Newer(i, j)' <=> Newer(i, j)) /\ (Matches(i, view.wants, view.to)' <=> Matches(i, view.wants, view.to))
    BY <1>1, <2>3 DEF Newer, Older, Place, CreatedAt, Matches
  <2>. QED
    BY <1>1, <2>2, <2>3, <2>4, <2>5 DEF ReaderInv
<1>7. CASE rows # << >>
  <2>1. /\ DOMAIN view' = DOMAIN view /\ view'.wants = view.wants /\ view'.to = view.to
        /\ view'.pages = Append(view.pages, rows) /\ view'.owed = view.owed
        /\ view'.cursor = CursorOf(Last(rows))
        /\ view'.pc = IF Len(rows) < PageSize THEN "DONE" ELSE "READING"
    BY <1>1, <1>7 DEF ReaderInv
  <2>2. CASE Len(rows) < PageSize
    <3>1. \A i \in Matching(shown) : \E a \in 1 .. Len(rows) : rows[a] = i
      BY <1>2, <1>4, <2>2
    <3>. HIDE DEF shown
    <3>. QED
      BY <1>1, <1>2, <1>3, <1>5, <2>1, <2>2, <3>1, PageKeeps
  <2>3. CASE ~ (Len(rows) < PageSize)
    <3>1. /\ Len(rows) = PageSize /\ view'.pc = "READING"
          /\ view'.cursor = Place(rows[Len(rows)])
      BY <1>2, <1>4, <2>1, <2>3 DEF CursorOf, Last
    <3>. HIDE DEF shown
    <3>. QED
      BY <1>1, <1>2, <1>3, <1>5, <2>1, <3>1, PageKeeps
  <2>. QED
    BY <2>2, <2>3
<1>. QED
  BY <1>6, <1>7

(***************************************************************************)
(* The pages of a reader are one list, newest first, with no row twice,    *)
(* and at its end nothing it is owed is missing: whatever is written       *)
(* between two pages, in whatever order it commits, and whichever server   *)
(* answers (shared/cursor.ts).                                             *)
(***************************************************************************)
THEOREM PagesAddUp == StatementsSpec => []PagesAreExact
<1>1. StatementsInit => ReaderInv
  <2>. SUFFICES ASSUME StatementsInit PROVE ReaderInv
    OBVIOUS
  <2>1. /\ view = Idle /\ log = << >>
    BY DEF StatementsInit
  <2>2. /\ DOMAIN view = {"pc", "op", "to", "wants", "cursor", "pages", "owed"}
        /\ view.pc = "IDLE" /\ view.pages = << >> /\ view.owed = {}
    BY <2>1 DEF Idle
  <2>3. Listed = << >>
    BY <2>2 DEF Listed, FlattenSeq
  <2>4. << >> \in Seq(DOMAIN log) /\ << >> \in Seq(Seq(DOMAIN log)) /\ DOMAIN << >> = {}
    OBVIOUS
  <2>. QED
    BY <2>2, <2>3, <2>4 DEF ReaderInv
<1>2. ListsInv /\ ReaderInv /\ [StatementsNext]_statementsVars => ReaderInv'
  <2>. SUFFICES ASSUME ListsInv, ReaderInv, [StatementsNext]_statementsVars PROVE ReaderInv'
    OBVIOUS
  <2>1. CASE UNCHANGED statementsVars
    <3>1. UNCHANGED <<clock, table, began, log, arrived, view>>
      BY <2>1 DEF statementsVars
    <3>2. \A i \in view.owed : log[i].mark \in view.wants
      BY DEF ReaderInv, Matches
    <3>. QED
      BY <3>1, <3>2, WriteKeeps DEF CreatedAt
  <2>2. CASE StatementsNext
    <3>1. \A shown \in {arrived, Len(log)} : shown \in 0 .. Len(log)
      BY DEF ListsInv
    <3>2. ASSUME NEW shown \in {arrived, Len(log)}, HistoryPage(shown) PROVE ReaderInv'
      BY <3>1, <3>2, ToPageKeeps DEF HistoryPage
    <3>3. CASE ListPage
      BY <3>1, <3>3, ToPageKeeps DEF ListPage
    <3>4. \A op, to, wants : Opens(op, to, wants) => ReaderInv'
      BY OpensKeeps
    <3>. QED
      BY <2>2, <3>2, <3>3, <3>4, WritersKeep, StatementKeeps
      DEF StatementsNext, OpenStatement, OpenHistory, ListRequests, ListSchedules, SearchAudit
  <2>. QED
    BY <2>1, <2>2
<1>3. ReaderInv => PagesAreExact
  BY DEF ReaderInv, PagesAreExact
<1>. QED
  BY <1>1, <1>2, <1>3, ListsInductive, PTL DEF StatementsSpec

-----------------------------------------------------------------------------

\* A write at work holds the rows it will change, and what it will send is there; a
\* position it publishes is one it has read.
Grip(w) ==
  /\ write[w].pc \in {"locked", "tracked"} =>
       /\ write[w].from # write[w].to /\ rowLock[write[w].from] = w
       /\ write[w].kind \in Movement =>
            rowLock[write[w].to] = w /\ Committed[write[w].from].balance > 0
  /\ write[w].pc \in {"tracked", "published"} => write[w].lsn >= 1
  /\ write[w].pc = "committed" /\ write[w].kind = "TRACKED" => write[w].lsn >= 1

LocksHeld ==
  /\ DOMAIN rowLock = Account
  /\ \A a \in Account : rowLock[a] # Nobody =>
       rowLock[a] \in Write /\ write[rowLock[a]].pc \in {"locked", "tracked"}

\* No balance on the primary is negative, and versions climb.
RowsGood == \A n \in DOMAIN wal : wal[n] \in [Account -> Row]

Climbs ==
  \A n \in DOMAIN wal : \A m \in 1 .. n : \A a \in Account :
    wal[m][a].version <= wal[n][a].version

Positions == \A a \in Account : wlsn[a] # Nothing => wlsn[a] >= 1

PathInv == (\A w \in Write : Grip(w)) /\ LocksHeld /\ RowsGood /\ Climbs /\ Positions

LEMMA GripStays ==
  ASSUME WritesTrue, NEW u \in Write, Grip(u), write'[u] = write[u],
         \A x \in Account : rowLock[x] = u => rowLock'[x] = u /\ Committed'[x] = Committed[x]
  PROVE  Grip(u)'
<1>1. write[u].pc \in {"locked", "tracked"} => write[u].from \in Account /\ write[u].to \in Account
  BY DEF WritesTrue
<1>. QED
  BY <1>1 DEF Grip

\* A commit changes the rows its write holds, and no balance below zero.
LEMMA CommitRows ==
  ASSUME ReadsInv, PathInv, NEW w \in Write, Commit(w)
  PROVE  /\ RowsGood' /\ Climbs'
         /\ \A x \in Account : rowLock[x] # w => Committed'[x] = Committed[x]
<1>. DEFINE rows == [a \in Account |-> RowAfter(w, a)]
<1>1. /\ wal \in Seq(AccountRows) /\ Len(wal) \in Nat /\ Len(wal) >= 1
      /\ DOMAIN wal = 1 .. Len(wal) /\ wal' = Append(wal, rows)
  BY DEF ReadsInv, PrimaryTypes, Commit
<1>2. /\ write[w].pc \in {"locked", "tracked"}
      /\ write[w].from \in Account /\ write[w].to \in Account
  BY DEF Commit, ReadsInv, WritesTrue
<1>3. Committed \in [Account -> Row]
  BY <1>1 DEF PathInv, RowsGood, Committed
<1>4. ASSUME NEW a \in Account
      PROVE  /\ RowAfter(w, a) \in Row /\ Committed[a].version <= RowAfter(w, a).version
             /\ rowLock[a] # w => RowAfter(w, a) = Committed[a]
  <2>1. Committed[a] \in Row /\ Grip(w)
    BY <1>3 DEF PathInv
  <2>2. a \in Touched(w) => rowLock[a] = w
    BY <1>2, <2>1 DEF Grip, Touched
  <2>3. PICK delta : delta = IF write[w].kind \notin Movement THEN 0
                               ELSE IF a = write[w].from THEN -1 ELSE 1
    OBVIOUS
  <2>4. delta \in Int /\ Committed[a].balance + delta >= 0
    <3>1. Committed[a].balance \in Nat
      BY <2>1 DEF Row
    <3>2. CASE write[w].kind \notin Movement
      <4>1. delta = 0
        BY <2>3, <3>2
      <4>. QED
        BY <3>1, <4>1
    <3>3. CASE write[w].kind \in Movement /\ a = write[w].from
      <4>1. delta = -1
        BY <2>3, <3>3
      <4>2. Committed[a].balance > 0
        BY <1>2, <2>1, <3>3 DEF Grip
      <4>. QED
        BY <3>1, <4>1, <4>2
    <3>4. CASE write[w].kind \in Movement /\ a # write[w].from
      BY <2>3, <3>1, <3>4
    <3>. QED
      BY <3>2, <3>3, <3>4
  <2>5. PICK row : row = [balance |-> Committed[a].balance + delta,
                          version |-> Committed[a].version + 1]
    OBVIOUS
  <2>6. row \in Row /\ Committed[a].version <= row.version
    BY <2>1, <2>4, <2>5 DEF Row
  <2>7. Committed[a].version <= Committed[a].version
    BY <2>1 DEF Row
  <2>8. RowAfter(w, a) = IF a \in Touched(w) THEN row ELSE Committed[a]
    BY <2>3, <2>5, Zenon DEF RowAfter
  <2>. QED
    BY <2>1, <2>2, <2>6, <2>7, <2>8
<1>5. rows \in [Account -> Row] /\ \A a \in Account : rows[a] = RowAfter(w, a)
  BY <1>4
<1>6. /\ Len(wal') = Len(wal) + 1 /\ DOMAIN wal' = 1 .. Len(wal) + 1
      /\ wal'[Len(wal) + 1] = rows /\ \A n \in 1 .. Len(wal) : wal'[n] = wal[n]
  <2>. HIDE DEF rows
  <2>1. rows \in AccountRows
    BY <1>5 DEF AccountRows, Row
  <2>. QED
    BY <1>1, <2>1
<1>. HIDE DEF rows
<1>7. RowsGood'
  BY <1>1, <1>5, <1>6 DEF PathInv, RowsGood
<1>8. ASSUME NEW n \in DOMAIN wal', NEW m \in 1 .. n, NEW a \in Account
      PROVE  wal'[m][a].version <= wal'[n][a].version
  <2>1. CASE n \in 1 .. Len(wal)
    <3>1. m \in 1 .. Len(wal) /\ n \in DOMAIN wal
      BY <1>1, <2>1
    <3>. QED
      BY <1>6, <2>1, <3>1 DEF PathInv, Climbs
  <2>2. CASE n = Len(wal) + 1 /\ m = n
    BY <1>4, <1>5, <1>6, <2>2 DEF Row
  <2>3. CASE n = Len(wal) + 1 /\ m # n
    <3>1. m \in 1 .. Len(wal) /\ Len(wal) \in DOMAIN wal
      BY <1>1, <2>3
    <3>2. wal[m][a].version <= Committed[a].version
      BY <3>1 DEF PathInv, Climbs, Committed
    <3>3. Committed[a].version <= wal'[n][a].version
      BY <1>4, <1>5, <1>6, <2>3
    <3>4. wal[m] \in [Account -> Row] /\ wal'[n][a] \in Row /\ Committed[a] \in Row
      BY <1>1, <1>3, <1>4, <1>5, <1>6, <2>3, <3>1 DEF PathInv, RowsGood
    <3>. QED
      BY <1>6, <3>1, <3>2, <3>3, <3>4 DEF Row
  <2>. QED
    BY <1>1, <1>6, <2>1, <2>2, <2>3
<1>9. Climbs'
  BY <1>8 DEF Climbs
<1>10. \A x \in Account : rowLock[x] # w => Committed'[x] = Committed[x]
  BY <1>1, <1>4, <1>5, <1>6 DEF Committed
<1>. QED
  BY <1>7, <1>9, <1>10

LEMMA PathWrites ==
  ASSUME ReadsInv, PathInv, NEW w \in Write, WriteSteps(w)
  PROVE  PathInv'
<1>1. /\ WritesTrue /\ LocksHeld /\ RowsGood /\ Climbs /\ Positions
      /\ DOMAIN write = Write /\ \A u \in Write : Grip(u)
  BY DEF ReadsInv, WritesTrue, PathInv
<1>2. Len(wal) \in Nat /\ Len(wal) >= 1
  BY DEF ReadsInv, PrimaryTypes
<1>3. CASE Lock(w)
  <2>1. PICK k \in Movement \cup {"FREEZE"}, a \in Account, b \in Account :
          /\ a # b /\ rowLock[a] = Nobody
          /\ k \in Movement => rowLock[b] = Nobody /\ Committed[a].balance > 0
          /\ write' = [write EXCEPT ![w] =
               [pc |-> "locked", kind |-> k, from |-> a, to |-> b,
                base |-> Len(wal), lsn |-> 0, at |-> 0]]
          /\ rowLock' = [x \in Account |->
               IF x = a \/ (k \in Movement /\ x = b) THEN w ELSE rowLock[x]]
    BY <1>3 DEF Lock
  <2>2. write[w].pc = "idle" /\ UNCHANGED <<wal, wlsn>> /\ Committed' = Committed
    BY <1>3 DEF Lock, Committed
  <2>3. write'[w] = [pc |-> "locked", kind |-> k, from |-> a, to |-> b,
                     base |-> Len(wal), lsn |-> 0, at |-> 0]
    BY <1>1, <2>1
  <2>4. Grip(w)'
    BY <2>1, <2>2, <2>3 DEF Grip
  <2>5. ASSUME NEW u \in Write \ {w} PROVE Grip(u)'
    <3>1. write'[u] = write[u]
      BY <1>1, <2>1
    <3>2. \A x \in Account : rowLock[x] = u => rowLock'[x] = u /\ Committed'[x] = Committed[x]
      BY <2>1, <2>2, ReadPathAssumption
    <3>. QED
      BY <1>1, <3>1, <3>2, GripStays
  <2>6. LocksHeld'
    BY <1>1, <2>1, <2>2, <2>3 DEF LocksHeld
  <2>7. RowsGood' /\ Climbs' /\ Positions'
    BY <1>1, <2>2 DEF RowsGood, Climbs, Positions
  <2>. QED
    BY <2>4, <2>5, <2>6, <2>7 DEF PathInv
<1>4. CASE TrackWrite(w)
  <2>1. /\ write[w].pc = "locked" /\ UNCHANGED <<wal, wlsn, rowLock>> /\ Committed' = Committed
        /\ write' = [write EXCEPT ![w].pc = "tracked", ![w].lsn = Len(wal)]
    BY <1>4 DEF TrackWrite, Committed
  <2>2. /\ write'[w].pc = "tracked" /\ write'[w].lsn = Len(wal)
        /\ write'[w].from = write[w].from /\ write'[w].to = write[w].to
        /\ write'[w].kind = write[w].kind
        /\ \A u \in Write \ {w} : write'[u] = write[u]
    BY <1>1, <2>1 DEF WritesTrue
  <2>3. Grip(w)'
    BY <1>1, <1>2, <2>1, <2>2 DEF Grip
  <2>4. \A u \in Write \ {w} : Grip(u)'
    BY <1>1, <2>1, <2>2, GripStays
  <2>5. LocksHeld'
    BY <1>1, <2>1, <2>2 DEF LocksHeld
  <2>6. RowsGood' /\ Climbs' /\ Positions'
    BY <1>1, <2>1 DEF RowsGood, Climbs, Positions
  <2>. QED
    BY <2>3, <2>4, <2>5, <2>6 DEF PathInv
<1>5. ASSUME rowLock' = Released(w), \A u \in Write \ {w} : write'[u] = write[u],
             \A x \in Account : rowLock[x] # w => Committed'[x] = Committed[x]
      PROVE  LocksHeld' /\ \A u \in Write \ {w} : Grip(u)'
  <2>1. LocksHeld'
    BY <1>1, <1>5 DEF LocksHeld, Released
  <2>2. ASSUME NEW u \in Write \ {w} PROVE Grip(u)'
    BY <1>1, <1>5, <2>2, GripStays DEF Released, LocksHeld
  <2>. QED
    BY <2>1, <2>2
<1>6. CASE Commit(w)
  <2>1. PICK pc : pc = IF write[w].kind \in Movement THEN "committed" ELSE "done"
    OBVIOUS
  <2>2. write' = [write EXCEPT ![w].at = Len(wal) + 1, ![w].pc = pc]
    BY <1>6, <2>1 DEF Commit
  <2>3. /\ write'[w].pc = pc /\ write'[w].lsn = write[w].lsn /\ write'[w].kind = write[w].kind
        /\ \A u \in Write \ {w} : write'[u] = write[u]
    BY <1>1, <2>2 DEF WritesTrue
  <2>4. Grip(w)'
    <3>1. write[w].pc = "tracked" \/ write[w].kind # "TRACKED"
      BY <1>6 DEF Commit
    <3>2. pc \in {"committed", "done"}
      BY <2>1
    <3>. QED
      BY <1>1, <2>3, <3>1, <3>2 DEF Grip
  <2>5. /\ rowLock' = Released(w) /\ UNCHANGED wlsn /\ RowsGood' /\ Climbs'
        /\ \A x \in Account : rowLock[x] # w => Committed'[x] = Committed[x]
    BY <1>6, CommitRows DEF Commit
  <2>6. Positions'
    BY <1>1, <2>5 DEF Positions
  <2>. QED
    BY <1>5, <2>3, <2>4, <2>5, <2>6 DEF PathInv
<1>7. CASE Abort(w)
  <2>1. /\ rowLock' = Released(w) /\ UNCHANGED <<wal, wlsn>> /\ Committed' = Committed
        /\ write' = [write EXCEPT ![w].pc = "aborted"]
    BY <1>7 DEF Abort, Committed
  <2>2. write'[w].pc = "aborted" /\ \A u \in Write \ {w} : write'[u] = write[u]
    BY <1>1, <2>1 DEF WritesTrue
  <2>3. Grip(w)'
    BY <2>2 DEF Grip
  <2>4. RowsGood' /\ Climbs' /\ Positions'
    BY <1>1, <2>1 DEF RowsGood, Climbs, Positions
  <2>. QED
    BY <1>5, <2>1, <2>2, <2>3, <2>4 DEF PathInv
<1>8. CASE PublishBalances(w) \/ PublishPosition(w) \/ LoseHooks(w)
  <2>1. /\ write[w].pc \in {"committed", "published"} /\ UNCHANGED <<wal, rowLock>>
        /\ Committed' = Committed
    BY <1>8 DEF PublishBalances, PublishPosition, LoseHooks, Committed
  <2>2. PICK pc : /\ write' = [write EXCEPT ![w].pc = pc] /\ pc \in {"published", "done"}
                  /\ pc = "published" => write[w].pc = "committed" /\ write[w].kind = "TRACKED"
    BY <1>8 DEF PublishBalances, PublishPosition, LoseHooks
  <2>3. /\ write'[w].pc = pc /\ write'[w].lsn = write[w].lsn /\ write'[w].kind = write[w].kind
        /\ \A u \in Write \ {w} : write'[u] = write[u]
    BY <1>1, <2>2 DEF WritesTrue
  <2>4. Grip(w)'
    BY <1>1, <2>2, <2>3 DEF Grip
  <2>5. \A u \in Write \ {w} : Grip(u)'
    BY <1>1, <2>1, <2>3, GripStays
  <2>6. LocksHeld'
    BY <1>1, <2>1, <2>3 DEF LocksHeld
  <2>7. RowsGood' /\ Climbs'
    BY <1>1, <2>1 DEF RowsGood, Climbs
  <2>8. Positions'
    <3>1. CASE PublishPosition(w)
      <4>1. write[w].lsn >= 1
        BY <1>1, <3>1 DEF PublishPosition, Grip
      <4>. QED
        BY <1>1, <3>1, <4>1 DEF PublishPosition, Positions
    <3>2. CASE UNCHANGED wlsn
      BY <1>1, <3>2 DEF Positions
    <3>. QED
      BY <1>8, <3>1, <3>2 DEF PublishBalances, LoseHooks
  <2>. QED
    BY <2>4, <2>5, <2>6, <2>7, <2>8 DEF PathInv
<1>. QED
  BY <1>3, <1>4, <1>6, <1>7, <1>8 DEF WriteSteps

LEMMA PathInductive == ReadsInv /\ PathInv /\ [Next]_vars => PathInv'
<1>. SUFFICES ASSUME ReadsInv, PathInv, [Next]_vars PROVE PathInv'
  OBVIOUS
<1>1. ASSUME UNCHANGED <<wal, rowLock, write>>,
             \A a \in Account : wlsn'[a] = wlsn[a] \/ wlsn'[a] = Nothing
      PROVE  PathInv'
  BY <1>1 DEF PathInv, Grip, LocksHeld, RowsGood, Climbs, Positions, Committed
<1>2. CASE \E a \in Account : Expire(a)
  BY <1>1, <1>2 DEF Expire, ReadsInv, RedisTrue
<1>3. CASE Reconnect
  BY <1>1, <1>3 DEF Reconnect
<1>4. CASE UNCHANGED <<wal, rowLock, write, wlsn>>
  BY <1>1, <1>4
<1>5. \/ \E w \in Write : WriteSteps(w)
      \/ \E a \in Account : Expire(a)
      \/ Reconnect
      \/ UNCHANGED <<wal, rowLock, write, wlsn>>
  BY DEF Next, vars, WriteSteps, ReadRow, Consult, Republish, Ask, Route, ReplicaFails, Answer,
         Disconnect, Replay
<1>. QED
  BY <1>2, <1>3, <1>4, <1>5, PathWrites

(***************************************************************************)
(* Every balance that was ever committed, on the primary or on the         *)
(* replica, is one the account could pay from; a row is held only by a     *)
(* write that has not ended; and nothing in Redis or on the replica is     *)
(* ahead of the primary (balance-cache.ts, read-router.ts).                *)
(***************************************************************************)
THEOREM ReadsTyped == Spec => []TypeOK
<1>1. Init => PathInv
  <2>. SUFFICES ASSUME Init PROVE PathInv
    OBVIOUS
  <2>. DEFINE rows == [a \in Account |-> [balance |-> Funds, version |-> 0]]
  <2>1. wal = <<rows>> /\ rows \in [Account -> Row] /\ \A a \in Account : rows[a].version = 0
    BY ReadPathAssumption DEF Init, Row
  <2>. HIDE DEF rows
  <2>2. DOMAIN wal = 1 .. 1 /\ wal[1] = rows
    BY <2>1
  <2>3. RowsGood /\ Climbs
    BY <2>1, <2>2 DEF RowsGood, Climbs
  <2>. QED
    BY <2>3 DEF Init, PathInv, Grip, LocksHeld, Positions, Waiting
<1>2. ReadsInv /\ PathInv => TypeOK
  <2>. SUFFICES ASSUME ReadsInv, PathInv PROVE TypeOK
    OBVIOUS
  <2>1. DOMAIN wal = 1 .. Len(wal) /\ Len(wal) \in Nat /\ Len(wal) \in DOMAIN wal
    BY DEF ReadsInv, PrimaryTypes
  <2>2. replayed \in DOMAIN wal
    BY <2>1 DEF ReadsInv, ReplicaBehind
  <2>3. ASSUME NEW a \in Account, cache[a] # Nothing
        PROVE  cache[a] \in Row /\ cache[a].version <= Committed[a].version
    <3>1. PICK n \in DOMAIN wal : cache[a] = wal[n][a]
      BY <2>3 DEF ReadsInv, RedisTrue, Was
    <3>2. n \in 1 .. Len(wal) /\ wal[n] \in [Account -> Row]
      BY <2>1 DEF PathInv, RowsGood
    <3>3. wal[n][a].version <= wal[Len(wal)][a].version
      BY <2>1, <3>2 DEF PathInv, Climbs
    <3>. QED
      BY <3>1, <3>2, <3>3 DEF Committed
  <2>4. ASSUME NEW a \in Account, wlsn[a] # Nothing PROVE wlsn[a] \in DOMAIN wal
    BY <2>1, <2>4 DEF ReadsInv, RedisTrue, PathInv, Positions
  <2>. QED
    BY <2>2, <2>3, <2>4 DEF TypeOK, PathInv, RowsGood, LocksHeld
<1>. QED
  BY <1>1, <1>2, ReadsInductive, PathInductive, PTL DEF Spec

=============================================================================
