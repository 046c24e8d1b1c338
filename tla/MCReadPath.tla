----------------------------- MODULE MCReadPath -----------------------------
(* Two accounts, two writes between them, and a read.                        *)
EXTENDS ReadPath, TLC

CONSTANTS ana, ben, w1, w2, r1

Symmetric == Permutations({ana, ben}) \cup Permutations(Write)
=============================================================================
