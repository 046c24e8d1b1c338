------------------------------ MODULE MCLedger ------------------------------
(* A small ledger for TLC: one treasury stripe, two registered users and one *)
(* phone number not registered yet.                                          *)
EXTENDS Reconciliation, TLC

CONSTANTS t1, t2, t3, k1, k2, k3, k4

\* Account 2 is the treasury, so that one user sorts before it and one after.
MCAccount == {1, 2, 3, 4}
MCSystem  == {2}
MCOpening == 1 :> 2 @@ 2 :> -3 @@ 3 :> 1 @@ 4 :> 0
MCStatus  == 1 :> "ACTIVE" @@ 2 :> "ACTIVE" @@ 3 :> "ACTIVE" @@ 4 :> "ABSENT"

\* Account 1 may pay 2 (all it has) under either of its keys, the same key with
\* another amount, and undo a payment under two keys; account 3 may pay back
\* what it can only afford while the first payment stands.
MCRequest ==
  {[op |-> "P2P", key |-> k, from |-> 1, to |-> 3, amount |-> 2] : k \in {k1, k2}}
  \cup {[op |-> "P2P", key |-> k1, from |-> 1, to |-> 3, amount |-> 1],
        [op |-> "P2P", key |-> k4, from |-> 3, to |-> 1, amount |-> 2]}
  \cup [op: {"REVERSAL"}, key: {k2, k3}, by: {1}, of: Txn]
  \cup {[op |-> "MINT", user |-> 4, from |-> 2, amount |-> 1]}
  \cup [op: {"STATUS"}, user: {1}, target: {"ACTIVE", "FROZEN"}]

Symmetric == Permutations(Txn)
=============================================================================
