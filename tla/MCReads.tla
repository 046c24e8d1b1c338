------------------------------ MODULE MCReads -------------------------------
(* What a user sees: the balance and the history of MCReadPath; or one list  *)
(* of three rows, two of them within one millisecond and one after midnight, *)
(* read a row a page; or the pages of one tab, with two calls.               *)
EXTENDS MCReadPath, Statements, Client

CONSTANTS t1, t2, t3, this, that, c1, c2, d1, d2

VARIABLE part   \* which of the three modules this behaviour is of

MCFilter    == {{this, that}, {this}}
MCSymmetric == Symmetric \cup Permutations(Details)

\* Transactions and calls are alike until they are used: they are used in order.
InOrder ==
  /\ began'[t2] # NotYet => began'[t1] # NotYet
  /\ began'[t3] # NotYet => began'[t2] # NotYet
  /\ call'[c2] # Unused => call'[c1] # Unused

MCInit ==
  /\ part \in {"balance", "list", "pages"}
  /\ Init /\ ClientInit
  /\ StatementsInit /\ (part # "list" => table = "LEDGER")

MCNext ==
  \/ part = "balance" /\ Next /\ UNCHANGED <<part, statementsVars, clientVars>>
  \/ /\ part = "list" /\ view.pc # "DONE"
     /\ StatementsNext /\ UNCHANGED <<part, vars, clientVars>> /\ InOrder
  \/ /\ part = "pages"
     /\ ClientNext /\ UNCHANGED <<part, vars, statementsVars>> /\ InOrder

MCSpec == MCInit /\ [][MCNext]_<<part, vars, statementsVars, clientVars>>
=============================================================================
