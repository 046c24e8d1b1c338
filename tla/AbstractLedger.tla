--------------------------- MODULE AbstractLedger ---------------------------
(***************************************************************************)
(* What TakaFlow promises about money, with no locks, no transactions and  *)
(* no retries: every movement happens in one indivisible step, only if the *)
(* payer may pay at that very moment, and at most once per idempotency     *)
(* key.  Ledger.tla is the database protocol that has to keep the promise. *)
(***************************************************************************)
EXTENDS Integers

CONSTANTS
  Account,      \* every account the ledger can hold
  System,       \* the treasury stripes: the only accounts that may go negative
  Txn,          \* identities of transfers (one database transaction posts one)
  Key,          \* idempotency keys, scoped to their user
  Amount,       \* amounts, in minor units
  Opening,      \* balances at the start
  InitStatus    \* statuses at the start; "ABSENT" is an account not registered yet

VARIABLES
  balance,      \* Account -> Int
  status,       \* Account -> "ABSENT" | "ACTIVE" | "FROZEN" | "CLOSED"
  transfer,     \* the posted transfers, by identity
  keyRow        \* the executed keys, each with the transfer it answers with

vars == <<balance, status, transfer, keyRow>>

Init ==
  /\ balance = Opening
  /\ status = InitStatus
  /\ transfer = << >>
  /\ keyRow = << >>

\* f with k added (or replaced) by v.
With(f, k, v) == [x \in DOMAIN f \cup {k} |-> IF x = k THEN v ELSE f[x]]

\* The payer may pay this amount to the payee now.
MayPay(from, to, amount) ==
  /\ from # to
  /\ status[from] = "ACTIVE"
  /\ status[to] # "CLOSED"
  /\ from \in System \/ balance[from] >= amount

\* The balances after the movement, and the row that records it.
Moved(from, to, amount) ==
  [balance EXCEPT ![from] = @ - amount, ![to] = @ + amount]

Row(type, from, to, amount) ==
  [type |-> type, status |-> "COMPLETED",
   from |-> from, to |-> to, amount |-> amount,
   fromAfter |-> balance[from] - amount, toAfter |-> balance[to] + amount]

\* A person pays another person, once per key.
Pay(t, k, from, to, amount) ==
  /\ t \notin DOMAIN transfer /\ k \notin DOMAIN keyRow
  /\ from \notin System /\ to \notin System
  /\ status[to] # "ABSENT"
  /\ MayPay(from, to, amount)
  /\ balance' = Moved(from, to, amount)
  /\ transfer' = With(transfer, t, Row("P2P", from, to, amount))
  /\ keyRow' = With(keyRow, k, t)
  /\ UNCHANGED status

\* A payment that still stands is undone in full, once, and marked so in the same step.
Reverse(t, k, of) ==
  /\ t \notin DOMAIN transfer /\ k \notin DOMAIN keyRow
  /\ of \in DOMAIN transfer
  /\ LET o == transfer[of] IN
     /\ o.type \notin {"MINT", "REVERSAL"} /\ o.status = "COMPLETED"
     /\ MayPay(o.to, o.from, o.amount)
     /\ balance' = Moved(o.to, o.from, o.amount)
     /\ transfer' = With(With(transfer, of, [o EXCEPT !.status = "REVERSED"]),
                         t, Row("REVERSAL", o.to, o.from, o.amount))
  /\ keyRow' = With(keyRow, k, t)
  /\ UNCHANGED status

\* A new account receives its opening bonus from the treasury.
Mint(t, from, to, amount) ==
  /\ t \notin DOMAIN transfer
  /\ from \in System /\ status[to] = "ABSENT"
  /\ MayPay(from, to, amount)
  /\ balance' = Moved(from, to, amount)
  /\ status' = [status EXCEPT ![to] = "ACTIVE"]
  /\ transfer' = With(transfer, t, Row("MINT", from, to, amount))
  /\ UNCHANGED keyRow

\* An account is frozen or released; a closed one stays closed.
SetStatus(a, s) ==
  /\ a \notin System /\ status[a] \notin {"ABSENT", "CLOSED"}
  /\ s \in {"ACTIVE", "FROZEN"}
  /\ status' = [status EXCEPT ![a] = s]
  /\ UNCHANGED <<balance, transfer, keyRow>>

Next ==
  \/ \E t \in Txn, k \in Key :
       \/ \E from, to \in Account, amount \in Amount : Pay(t, k, from, to, amount)
       \/ \E of \in Txn : Reverse(t, k, of)
  \/ \E t \in Txn, from, to \in Account, amount \in Amount : Mint(t, from, to, amount)
  \/ \E a \in Account, s \in {"ACTIVE", "FROZEN"} : SetStatus(a, s)

Spec == Init /\ [][Next]_vars
=============================================================================
