--------------------------- MODULE MCTransactions ---------------------------
(* Transactions that lock rows and look at them again: those of the ledger,  *)
(* as in MCLedger, and of the sessions of two tabs, as in MCSessions.        *)
EXTENDS MCLedger, MCSessions

VARIABLE part   \* which of the two modules this behaviour is of

MCSymmetric == Symmetric \cup SessionsSymmetric

MCInit == part \in {"ledger", "session"} /\ Init /\ SessionsInit

MCNext ==
  \/ part = "ledger" /\ Next /\ UNCHANGED <<part, sessionsVars>>
  \/ part = "session" /\ SessionsNext /\ UNCHANGED <<part, vars>>

MCSpec == MCInit /\ [][MCNext]_<<part, vars, sessionsVars>>
=============================================================================
