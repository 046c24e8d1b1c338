----------------------------- MODULE Statements -----------------------------
(***************************************************************************)
(* Lists that are read page by page while their rows are being written:    *)
(* the history of an account and its CSV statement, a user's requests and  *)
(* schedules, the audit log.  A row's created_at is now(), the start of    *)
(* its transaction, so rows do not commit in the order they are listed in. *)
(*                                                                         *)
(* An entry of the ledger draws its id while the account's row is locked,  *)
(* so those ids ascend in commit order; a request or a schedule has a      *)
(* random id; an audit row draws its id some time before its commit.       *)
(*                                                                         *)
(* There is one reader: readers write nothing and share nothing.           *)
(***************************************************************************)
EXTENDS Integers, SequencesExt

CONSTANTS
  Txn,          \* transactions that write a row of the list
  Mark,         \* what a filter tells apart: a direction, a status, an action
  Filter,       \* the sets of marks a reader may ask for
  Bound,        \* the upper bounds of created_at it may ask for
  PageSize,     \* rows of a page: `limit', or PAGE_SIZE of a statement
  PerMilli,     \* instants of the database's clock in one of a JavaScript Date
  PerDay,       \* and in a UTC day
  MaxClock      \* bound of the clock

ASSUME StatementsAssumption ==
  /\ Bound \subseteq Nat
  /\ {PageSize, PerMilli, PerDay} \subseteq Nat \ {0}

VARIABLES
  clock,
  table,        \* which list: LEDGER, ROWS (requests or schedules), AUDIT
  began,        \* when a transaction began, NotYet before
  log,          \* the committed rows, in commit order
  arrived,      \* how many of them the replica shows
  view          \* the reader

statementsVars == <<clock, table, began, log, arrived, view>>

Instant == 0..MaxClock
NotYet  == -1
Unbounded == MaxClock + 1      \* later than every created_at: no `to'

Smaller(a, b) == IF a < b THEN a ELSE b

CreatedAt(i) == began[log[i].txn]

-----------------------------------------------------------------------------
(* One page *)

(* A place in the list: (created_at, id), of the audit log the id alone. *)
NoCursor == [at |-> NotYet, id |-> 0]

Place(i) == [at |-> CreatedAt(i), id |-> log[i].id]

Older(p, q) ==
  \/ table # "AUDIT" /\ p.at < q.at
  \/ (table = "AUDIT" \/ p.at = q.at) /\ p.id < q.id

(* ORDER BY created_at DESC, id DESC *)
Newer(i, j) == Older(Place(j), Place(i))

\* Mutant: the cursor is made from a Date.
MillisecondCursor(i) == [at |-> (CreatedAt(i) \div PerMilli) * PerMilli, id |-> log[i].id]

(* encodeCursor: the timestamp travels as the text the database wrote, so  *)
(* decodeCursor gives back the place of the row.                           *)
CursorOf(i) == Place(i)

Below(i, cursor) == cursor = NoCursor \/ Older(Place(i), cursor)

Matches(i, wants, to) == log[i].mark \in wants /\ CreatedAt(i) < to

(* The first `limit' rows below the cursor, newest first, on a server that *)
(* shows the first `shown' rows.                                           *)
Rows(shown, limit) ==
  LET matching == {i \in 1..shown : Matches(i, view.wants, view.to) /\ Below(i, view.cursor)}
      Ahead(i) == Cardinality({j \in matching : Newer(j, i)})
  IN  [k \in 1..Smaller(limit, Cardinality(matching)) |-> CHOOSE i \in matching : Ahead(i) = k - 1]

(* toPage: one row more is asked for than is kept, as the proof that there *)
(* is another page.                                                        *)
ToPage(shown) ==
  LET rows == Rows(shown, PageSize + 1)
      items == SubSeq(rows, 1, Smaller(PageSize, Len(rows)))
      more == Len(rows) > PageSize
  IN  view' = [view EXCEPT !.pages = Append(@, items),
                           !.cursor = IF more THEN CursorOf(Last(items)) ELSE @,
                           !.owed = @ \cap 1..shown,
                           !.pc = IF more THEN @ ELSE "DONE"]

-----------------------------------------------------------------------------
(* The writers *)

Idle == [pc |-> "IDLE", op |-> "NONE", to |-> Unbounded, wants |-> {}, cursor |-> NoCursor,
         pages |-> <<>>, owed |-> {}]

StatementsInit ==
  /\ clock = 0
  /\ table \in {"LEDGER", "ROWS", "AUDIT"}
  /\ began = [t \in Txn |-> NotYet]
  /\ log = <<>>
  /\ arrived = 0
  /\ view = Idle

(* BEGIN: now() is fixed for the whole transaction. *)
Begin(t) ==
  /\ began[t] = NotYet
  /\ began' = [began EXCEPT ![t] = clock]
  /\ UNCHANGED <<clock, table, log, arrived, view>>

MayHaveId(id) ==
  IF table = "LEDGER" THEN id = Len(log) + 1 ELSE \A i \in DOMAIN log : log[i].id # id

(* The day a reference carries is that of the process's clock when the     *)
(* transfer is posted; the two clocks are taken to agree.                  *)
ReferenceDay == IF table = "LEDGER" THEN clock \div PerDay ELSE 0

(* The row is inserted and, some time later, committed. *)
Post(t, mark, id) ==
  /\ began[t] # NotYet
  /\ \A i \in DOMAIN log : log[i].txn # t
  /\ MayHaveId(id)
  /\ log' = Append(log, [txn |-> t, mark |-> mark, id |-> id, day |-> ReferenceDay])
  /\ UNCHANGED <<clock, table, began, arrived, view>>

(* A request is answered, a schedule is paused or ends; entries of the     *)
(* ledger and of the audit log never change.                               *)
Changes(i, mark) ==
  /\ table = "ROWS" /\ log[i].mark # mark
  /\ log' = [log EXCEPT ![i].mark = mark]
  /\ view' = [view EXCEPT !.owed = IF mark \in view.wants THEN @ ELSE @ \ {i}]
  /\ UNCHANGED <<clock, table, began, arrived>>

(* External: WAL replay on the replica. *)
Arrives ==
  /\ table = "LEDGER" /\ arrived < Len(log)
  /\ arrived' = arrived + 1
  /\ UNCHANGED <<clock, table, began, log, view>>

Tick ==
  /\ clock < MaxClock
  /\ clock' = clock + 1
  /\ UNCHANGED <<table, began, log, arrived, view>>

-----------------------------------------------------------------------------
(* The reader *)

(* A first request.  The reader is owed the rows that are there now, as    *)
(* long as they match and the server it asks can show them.                *)
Opens(op, to, wants) ==
  /\ view.pc = "IDLE"
  /\ view' = [Idle EXCEPT !.pc = "READING", !.op = op, !.to = to, !.wants = wants,
                          !.owed = {i \in DOMAIN log : Matches(i, wants, to)}]
  /\ UNCHANGED <<clock, table, began, log, arrived>>

OpenHistory(to, wants) == table = "LEDGER" /\ Opens("HISTORY", to, wants)

(* An export.  Its bound is given, or it is the time of the request.       *)
OpenStatement(to) == table = "LEDGER" /\ Opens("STATEMENT", to, Mark)

ListRequests(wants) == table = "ROWS" /\ Opens("LIST", Unbounded, wants)

(* The same, over another table. *)
ListSchedules(wants) == table = "ROWS" /\ Opens("LIST", Unbounded, wants)

SearchAudit(wants) == table = "AUDIT" /\ Opens("LIST", Unbounded, wants)

Reading(op) ==
  /\ view.pc = "READING" /\ view.op = op
  /\ UNCHANGED <<clock, table, began, log, arrived>>

(* A page of the history, from the replica or from the primary: which one, *)
(* withRoutedRead decides for every page anew.                             *)
HistoryPage(shown) == Reading("HISTORY") /\ ToPage(shown)

(* Requests, schedules and the audit log are read from the primary. *)
ListPage == Reading("LIST") /\ ToPage(Len(log))

(* So is the statement, whose pages need no extra row. *)
StatementPage ==
  LET rows == Rows(Len(log), PageSize)
  IN  /\ Reading("STATEMENT")
      /\ view' = IF rows = <<>> THEN [view EXCEPT !.pc = "DONE"]
                 ELSE [view EXCEPT !.pages = Append(@, rows),
                                   !.cursor = CursorOf(Last(rows)),
                                   !.pc = IF Len(rows) < PageSize THEN "DONE" ELSE @]

StatementsNext ==
  \/ \E t \in Txn : Begin(t)
  \/ \E t \in Txn, mark \in Mark, id \in 1..Cardinality(Txn) : Post(t, mark, id)
  \/ \E i \in DOMAIN log, mark \in Mark : Changes(i, mark)
  \/ Arrives \/ Tick
  \/ \E to \in Bound \cup {Unbounded} :
       OpenStatement(to) \/ \E wants \in Filter : OpenHistory(to, wants)
  \/ \E wants \in Filter : ListRequests(wants) \/ ListSchedules(wants) \/ SearchAudit(wants)
  \/ \E shown \in {arrived, Len(log)} : HistoryPage(shown)
  \/ ListPage \/ StatementPage

StatementsSpec == StatementsInit /\ [][StatementsNext]_statementsVars

-----------------------------------------------------------------------------
(* One transfer by its reference: the receipt, and the original of a reversal *)

\* Mutant: the last instant of the day is left out.
UpToTheLastInstant(day) == day * PerDay .. (day + 1) * PerDay - 2

DateRange(day) == day * PerDay .. (day + 1) * PerDay - 1

FindByReference(t, range) == {i \in DOMAIN log : log[i].txn = t /\ CreatedAt(i) \in range}

GetReceipt(i) == FindByReference(log[i].txn, DateRange(log[i].day))

-----------------------------------------------------------------------------
(* The state is well typed, and no page is longer than was asked for.      *)
StatementsTypeOK ==
  /\ clock \in Instant
  /\ table \in {"LEDGER", "ROWS", "AUDIT"}
  /\ began \in [Txn -> Instant \cup {NotYet}]
  /\ log \in Seq([txn : Txn, mark : Mark, id : 1..Cardinality(Txn), day : Nat])
  /\ arrived \in 0..Len(log)
  /\ view.pc \in {"IDLE", "READING", "DONE"}
  /\ view.op \in {"NONE", "HISTORY", "STATEMENT", "LIST"}
  /\ view.to \in Bound \cup {Unbounded} /\ view.wants \subseteq Mark
  /\ view.cursor \in [at : Instant \cup {NotYet}, id : 0..Cardinality(Txn)]
  /\ view.owed \subseteq DOMAIN log
  /\ \A p \in DOMAIN view.pages : Len(view.pages[p]) \in 0..PageSize

(* What `more' has put together. *)
Listed == FlattenSeq(view.pages)

(* The pages, one after the other, are one list from newest to oldest, in  *)
(* which no row comes twice, though older rows go on appearing and others  *)
(* change; and a reader that has come to the end has been given every row  *)
(* that was there when it began, has matched ever since, and that all the  *)
(* servers it asked could show (shared/cursor.ts:9-14, 20-26: "a           *)
(* transaction missing from a statement").                                 *)
PagesAreExact ==
  /\ \A i, j \in DOMAIN Listed : i < j => Newer(Listed[i], Listed[j])
  /\ view.pc = "DONE" => view.owed \subseteq ToSet(Listed)

(* A transfer is found by its reference, for its receipt and for its       *)
(* reversal, exactly if it was posted on the day its transaction began; of *)
(* one that straddles midnight the money has moved and nobody can look it  *)
(* up.                                                                     *)
FoundUnlessMidnight ==
  table = "LEDGER" =>
    \A i \in DOMAIN log :
      GetReceipt(i) = {j \in {i} : CreatedAt(i) \div PerDay = log[i].day}

(* What ledger.service.ts:68-74 says of references: the date in them       *)
(* "restores an effective global lookup", so that every transfer is found  *)
(* by its own.                                                             *)
FoundByItsReference ==
  table = "LEDGER" => \A i \in DOMAIN log : i \in GetReceipt(i)
=============================================================================
