---------------------------- MODULE MCSendLimits ----------------------------
(* One sender, three payments at once, two processes with their own policy.  *)
EXTENDS SendLimits, TLC

CONSTANTS t1, t2, t3, p1, p2

OnePerTwoTicks == [maxTransfers |-> 1, windowSeconds |-> 1]
TwoPerTick     == [maxTransfers |-> 2, windowSeconds |-> 0]

MCPolicies  == {OnePerTwoTicks, TwoPerTick}
MCOnePolicy == {OnePerTwoTicks}

Symmetric == Permutations(Txn) \cup Permutations(Instance)
=============================================================================
