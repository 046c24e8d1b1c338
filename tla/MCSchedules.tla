----------------------------- MODULE MCSchedules -----------------------------
(* One schedule, two processes.  A payment may be tried twice, the grace is   *)
(* shorter than the interval, and the clock reaches a third occurrence.       *)
EXTENDS Schedules, TLC

CONSTANTS s1, w1, w2

Symmetric == Permutations(Worker)
=============================================================================
