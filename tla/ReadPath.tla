------------------------------ MODULE ReadPath ------------------------------
(***************************************************************************)
(* What readers get while money moves.  A committed movement publishes the *)
(* new balances, and the WAL position of the write, to Redis from its      *)
(* after-commit hooks.  A balance read compares the row it has just read   *)
(* with the cached one; a history read goes to the streaming replica when  *)
(* the position recorded for its user has been replayed there.  Redis may  *)
(* be away, forget, or come back empty; hooks may run late.                *)
(***************************************************************************)
EXTENDS Integers, Sequences

CONSTANTS
  Account,      \* one per user
  Write,        \* transactions that change accounts
  Read,         \* GET requests, each for the balance or for the history
  Funds,        \* what every account holds at the start
  Nobody, Nothing

ASSUME ReadPathAssumption ==
  /\ Funds \in Nat
  /\ Nobody \notin Write /\ Nothing \notin Nat

VARIABLES
  wal,       \* the account rows after each commit on the primary, oldest first
  replayed,  \* how far the replica has come
  rowLock,   \* the write holding each account's row
  write,     \* what each write does, and how far it is
  up,        \* whether Redis answers
  cache,     \* Redis bal:<account>: balance and version, or Nothing
  wlsn,      \* Redis wlsn:<user>: a position in wal, or Nothing
  read       \* the reads

vars == <<wal, replayed, rowLock, write, up, cache, wlsn, read>>

Committed == wal[Len(wal)]

Waiting == [pc |-> "idle", base |-> 0, lsn |-> 0, at |-> 0]
Unasked == [op |-> "NONE", pc |-> "idle"]

Init ==
  /\ wal = <<[a \in Account |-> [balance |-> Funds, version |-> 0]]>>
  /\ replayed = 1
  /\ rowLock = [a \in Account |-> Nobody]
  /\ write = [w \in Write |-> Waiting]
  /\ up = TRUE
  /\ cache = [a \in Account |-> Nothing] /\ wlsn = [a \in Account |-> Nothing]
  /\ read = [r \in Read |-> Unasked]

-----------------------------------------------------------------------------
(* Writes *)

\* sendMoney, acceptRequest and reverseTransfer track their write, the schedule
\* worker does not; a change of status moves no money and publishes nothing.
Movement == {"TRACKED", "SCHEDULED"}

Touched(w) ==
  IF write[w].kind \in Movement THEN {write[w].from, write[w].to} ELSE {write[w].from}

\* lockAccountPair, or the FOR UPDATE of a freeze
Lock(w) ==
  /\ write[w].pc = "idle"
  /\ \E k \in Movement \cup {"FREEZE"}, a, b \in Account :
       /\ a # b /\ rowLock[a] = Nobody
       /\ k \in Movement => rowLock[b] = Nobody /\ Committed[a].balance > 0
       /\ write' = [write EXCEPT ![w] =
            [pc |-> "locked", kind |-> k, from |-> a, to |-> b,
             base |-> Len(wal), lsn |-> 0, at |-> 0]]
       /\ rowLock' = [x \in Account |->
            IF x = a \/ (k \in Movement /\ x = b) THEN w ELSE rowLock[x]]
  /\ UNCHANGED <<wal, replayed, up, cache, wlsn, read>>

\* trackWrite: pg_current_wal_insert_lsn(), while the transaction is still open.
TrackWrite(w) ==
  /\ write[w].pc = "locked" /\ write[w].kind = "TRACKED"
  /\ write' = [write EXCEPT ![w].pc = "tracked", ![w].lsn = Len(wal)]
  /\ UNCHANGED <<wal, replayed, rowLock, up, cache, wlsn, read>>

Released(w) == [a \in Account |-> IF rowLock[a] = w THEN Nobody ELSE rowLock[a]]

\* Every UPDATE of accounts adds one to the version.
RowAfter(w, a) ==
  LET row == Committed[a]
      delta == IF write[w].kind \notin Movement THEN 0
               ELSE IF a = write[w].from THEN -1 ELSE 1 IN
  IF a \in Touched(w)
  THEN [balance |-> row.balance + delta, version |-> row.version + 1] ELSE row

Commit(w) ==
  /\ \/ write[w].pc = "tracked"
     \/ write[w].pc = "locked" /\ write[w].kind # "TRACKED"
  /\ wal' = Append(wal, [a \in Account |-> RowAfter(w, a)])
  /\ write' = [write EXCEPT ![w].at = Len(wal) + 1,
       ![w].pc = IF write[w].kind \in Movement THEN "committed" ELSE "done"]
  /\ rowLock' = Released(w)
  /\ UNCHANGED <<replayed, up, cache, wlsn, read>>

Abort(w) ==
  /\ write[w].pc \in {"locked", "tracked"}
  /\ write' = [write EXCEPT ![w].pc = "aborted"]
  /\ rowLock' = Released(w)
  /\ UNCHANGED <<wal, replayed, up, cache, wlsn, read>>

-----------------------------------------------------------------------------
(* Redis *)

\* CAS_SCRIPT
Stored(c, a, row) ==
  IF c[a] # Nothing /\ c[a].version >= row.version THEN c ELSE [c EXCEPT ![a] = row]

\* What the transaction computed for the row it held the lock of.
NewRow(w, a) == wal[write[w].at][a]

\* The first hook, writeBalance for both sides; tryRedis makes it nothing without Redis.
PublishBalances(w) ==
  /\ write[w].pc = "committed"
  /\ cache' = IF ~up THEN cache ELSE
       Stored(Stored(cache, write[w].from, NewRow(w, write[w].from)),
              write[w].to, NewRow(w, write[w].to))
  /\ write' = [write EXCEPT ![w].pc =
       IF write[w].kind = "TRACKED" THEN "published" ELSE "done"]
  /\ UNCHANGED <<wal, replayed, rowLock, up, wlsn, read>>

\* The second hook: an unconditional SET for both users.
PublishPosition(w) ==
  /\ write[w].pc = "published"
  /\ wlsn' = [a \in Account |-> IF up /\ a \in Touched(w) THEN write[w].lsn ELSE wlsn[a]]
  /\ write' = [write EXCEPT ![w].pc = "done"]
  /\ UNCHANGED <<wal, replayed, rowLock, up, cache, read>>

\* The process dies before its hooks have run.
LoseHooks(w) ==
  /\ write[w].pc \in {"committed", "published"}
  /\ write' = [write EXCEPT ![w].pc = "done"]
  /\ UNCHANGED <<wal, replayed, rowLock, up, cache, wlsn, read>>

\* The TTL runs out, or memory does (allkeys-lru).
Expire(a) ==
  /\ \/ cache[a] # Nothing /\ cache' = [cache EXCEPT ![a] = Nothing] /\ UNCHANGED wlsn
     \/ wlsn[a] # Nothing /\ wlsn' = [wlsn EXCEPT ![a] = Nothing] /\ UNCHANGED cache
  /\ UNCHANGED <<wal, replayed, rowLock, write, up, read>>

Disconnect ==
  /\ up /\ up' = FALSE
  /\ UNCHANGED <<wal, replayed, rowLock, write, cache, wlsn, read>>

\* Back after a network fault with what it held, or restarted with nothing.
Reconnect ==
  /\ ~up /\ up' = TRUE
  /\ \/ UNCHANGED <<cache, wlsn>>
     \/ /\ cache' = [a \in Account |-> Nothing] /\ wlsn' = [a \in Account |-> Nothing]
  /\ UNCHANGED <<wal, replayed, rowLock, write, read>>

Replay ==
  /\ replayed < Len(wal) /\ replayed' = replayed + 1
  /\ UNCHANGED <<wal, rowLock, write, up, cache, wlsn, read>>

-----------------------------------------------------------------------------
(* GET /accounts/me *)

ReadRow(r) ==
  /\ read[r].pc = "idle"
  /\ \E a \in Account : read' = [read EXCEPT ![r] =
       [op |-> "BALANCE", pc |-> "row", account |-> a, row |-> Committed[a], answer |-> Nothing]]
  /\ UNCHANGED <<wal, replayed, rowLock, write, up, cache, wlsn>>

\* Mutant: a hit is used whatever its version.
AnyHit(r) == up /\ cache[read[r].account] # Nothing

UseCache(r) ==
  /\ up /\ cache[read[r].account] # Nothing
  /\ cache[read[r].account].version > read[r].row.version

Consult(r) ==
  /\ read[r].pc = "row"
  /\ read' = [read EXCEPT
       ![r].pc = IF UseCache(r) THEN "answered" ELSE "publishing",
       ![r].answer = IF UseCache(r) THEN cache[read[r].account] ELSE read[r].row]
  /\ UNCHANGED <<wal, replayed, rowLock, write, up, cache, wlsn>>

\* writeBalance with the row read a while ago
Republish(r) ==
  /\ read[r].pc = "publishing"
  /\ cache' = IF up THEN Stored(cache, read[r].account, read[r].row) ELSE cache
  /\ read' = [read EXCEPT ![r].pc = "answered"]
  /\ UNCHANGED <<wal, replayed, rowLock, write, up, wlsn>>

-----------------------------------------------------------------------------
(* withRoutedRead, as the history requests use it *)

\* An absent key and an absent Redis give the same null.
Ask(r) ==
  /\ read[r].pc = "idle"
  /\ \E a \in Account : read' = [read EXCEPT ![r] =
       [op |-> "HISTORY", pc |-> "asked", account |-> a,
        required |-> IF up THEN wlsn[a] ELSE Nothing, shown |-> 0]]
  /\ UNCHANGED <<wal, replayed, rowLock, write, up, cache, wlsn>>

\* Mutant: a replica that can be reached is taken to be fresh.
AssumedFresh(r) == read[r].pc = "asked"

ReplicaHasCaughtUp(r) ==
  read[r].required # Nothing => replayed >= read[r].required

Route(r) ==
  /\ read[r].pc = "asked"
  /\ read' = [read EXCEPT ![r].pc = IF ReplicaHasCaughtUp(r) THEN "replica" ELSE "primary"]
  /\ UNCHANGED <<wal, replayed, rowLock, write, up, cache, wlsn>>

\* No connection, no answer to the freshness question, or an error in the read.
ReplicaFails(r) ==
  /\ read[r].pc \in {"asked", "replica"}
  /\ read' = [read EXCEPT ![r].pc = "primary"]
  /\ UNCHANGED <<wal, replayed, rowLock, write, up, cache, wlsn>>

Answer(r) ==
  /\ read[r].pc \in {"replica", "primary"}
  /\ read' = [read EXCEPT ![r].pc = "answered",
       ![r].shown = IF read[r].pc = "replica" THEN replayed ELSE Len(wal)]
  /\ UNCHANGED <<wal, replayed, rowLock, write, up, cache, wlsn>>

Next ==
  \/ \E w \in Write :
       \/ Lock(w) \/ TrackWrite(w) \/ Commit(w) \/ Abort(w)
       \/ PublishBalances(w) \/ PublishPosition(w) \/ LoseHooks(w)
  \/ \E r \in Read :
       \/ ReadRow(r) \/ Consult(r) \/ Republish(r)
       \/ Ask(r) \/ Route(r) \/ ReplicaFails(r) \/ Answer(r)
  \/ \E a \in Account : Expire(a)
  \/ Disconnect \/ Reconnect \/ Replay

Spec == Init /\ [][Next]_vars

-----------------------------------------------------------------------------
(* Properties *)

Row == [balance: Nat, version: Nat]

\* Types; a locked row is held by a write that has not ended, and nothing in Redis or
\* on the replica is ahead of the primary.
TypeOK ==
  /\ \A n \in DOMAIN wal : wal[n] \in [Account -> Row]
  /\ replayed \in DOMAIN wal
  /\ \A a \in Account :
       /\ rowLock[a] # Nobody => write[rowLock[a]].pc \in {"locked", "tracked"}
       /\ cache[a] # Nothing => cache[a] \in Row /\ cache[a].version <= Committed[a].version
       /\ wlsn[a] # Nothing => wlsn[a] \in DOMAIN wal

Answered(op) == {r \in Read : read[r].op = op /\ read[r].pc = "answered"}

\* The balance answered is one the account had, at or after the start of the request,
\* whether it came from the row or from Redis.
BalanceIsTrue ==
  \A r \in Answered("BALANCE") :
    /\ \E n \in DOMAIN wal : read[r].answer = wal[n][read[r].account]
    /\ read[r].answer.version >= read[r].row.version

\* The writes whose position a history read may have found.
Recorders(r) ==
  {w \in Write : /\ write[w].at # 0 /\ write[w].lsn # 0
                 /\ read[r].account \in Touched(w) /\ write[w].lsn = read[r].required}

\* A history that found the position of a write shows at least all that the write was
\* based on: nobody sees a past older than what they have acted upon.
ShowsWhatTheWriteSaw ==
  \A r \in Answered("HISTORY") :
    \A w \in Recorders(r) : read[r].shown >= write[w].base

\* read-router.ts: "a user always sees at least their own writes".
ReadYourWrites ==
  \A r \in Answered("HISTORY") :
    \A w \in Recorders(r) : read[r].shown >= write[w].at
=============================================================================
