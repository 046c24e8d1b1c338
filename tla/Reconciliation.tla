--------------------------- MODULE Reconciliation ---------------------------
(***************************************************************************)
(* The administrator's proof that no money was lost or made: queries over  *)
(* the committed rows of Ledger.  They run in one READ ONLY transaction,   *)
(* but at READ COMMITTED, so each statement sees its own snapshot and      *)
(* payments commit between two of them.  Each statement is therefore an    *)
(* operator of the current state: if its answer is right in every state,   *)
(* the report is right wherever its statements fall.                       *)
(* A transfer's row stands for the row and its two entries, which one      *)
(* transaction writes together: double_entry_complete and the search for   *)
(* orphans have nothing to find here.                                      *)
(***************************************************************************)
EXTENDS Ledger, FiniteSets, Functions

\* Opening stands for the entries of the history before Init: each of its transfers
\* took from one account what it gave to another.
ASSUME ReconciliationAssumption ==
  IsFiniteSet(Account) /\ SumFunctionOnSet(Opening, Account) = 0

Amounts == [t \in DOMAIN transfer |-> transfer[t].amount]

Credited(a) == {t \in DOMAIN transfer : transfer[t].to = a}
Debited(a)  == {t \in DOMAIN transfer : transfer[t].from = a}

LedgerSum(a) ==
  Opening[a] + SumFunctionOnSet(Amounts, Credited(a)) - SumFunctionOnSet(Amounts, Debited(a))

\* readTotals, in one statement.
Totals ==
  [userMoney |-> SumFunctionOnSet(balance, User),
   treasury  |-> SumFunctionOnSet(balance, System),
   net       |-> SumFunctionOnSet(balance, Account)]

\* conservation_of_money, balances_match_ledger, and two of the three queries of
\* no_orphans: each returns its counterexamples.
OutOfBalance == {n \in {SumFunctionOnSet(balance, Account)} : n # 0}
Drifted      == {a \in Account : balance[a] # LedgerSum(a)}
Overdrawn    == {a \in User : balance[a] < 0}

\* IN_PROGRESS, seen by a transaction other than the one that claimed the key: no
\* answer was stored with it.  That it is older than a minute is left out.
Stranded == {k \in DOMAIN keyRow : keyRow[k] \notin DOMAIN transfer}

Report ==
  [totals |-> Totals,
   status |-> IF OutOfBalance \cup Drifted \cup Overdrawn \cup Stranded = {} THEN "PASS"
              ELSE "FAIL"]

\* Reconciliation raises no false alarm and shows sums that agree, at every point
\* between two commits, while payments, reversals, registrations and their retries
\* are under way, and no crash or duplicate makes it raise a true one
\* (reconciliation.service.ts:9-10, "a transfer committing between checks could make
\* a consistent system look inconsistent").
AuditPasses ==
  /\ Report.status = "PASS"
  /\ Report.totals.userMoney + Report.totals.treasury = Report.totals.net
=============================================================================
