----------------------------- MODULE MCSessions -----------------------------
EXTENDS Sessions, TLC
CONSTANTS x1, x2, x3, x4, g1, g2

SessionsSymmetric == Permutations(AuthTxn) \cup Permutations(Page)
=============================================================================
