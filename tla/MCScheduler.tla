---------------------------- MODULE MCScheduler ----------------------------
(* Instances of Scheduler for TLC.  The clock wraps at 9 with a step of 2: *)
(* like 2^32 and 10000, the one is no multiple of the other.               *)
EXTENDS Scheduler, TLC

CONSTANTS first, a, b, c

\* The created tasks are interchangeable; the boot task is not.
Symmetry == Permutations({a, b, c})
=============================================================================
