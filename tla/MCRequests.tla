----------------------------- MODULE MCRequests -----------------------------
(* One pending request between two users, a request and a bill for two       *)
(* payers to come, two calls at once and two processes that expire what is   *)
(* due; or one bill with all its amounts.                                    *)
EXTENDS MoneyRequests, Splits, TLC

CONSTANTS t1, t2, asker, friend, other, r1, k1, k2, w1, w2

VARIABLE part   \* which of the two modules this behaviour is of

MCRequester == r1 :> asker
MCPayer     == r1 :> friend
MCBills     == {<<friend>>, <<friend, other>>}

MCInit == part \in {"requests", "bill"} /\ Init /\ SplitInit

MCNext ==
  \/ part = "requests" /\ Next /\ UNCHANGED <<part, splitVars>>
  \/ part = "bill" /\ SplitNext /\ UNCHANGED <<part, vars>>

MCSpec == MCInit /\ [][MCNext]_<<part, vars, splitVars>>
          /\ RequestsFairness   \* nothing it speaks of is possible in the other part
=============================================================================
