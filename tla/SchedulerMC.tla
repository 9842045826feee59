---------------------------- MODULE SchedulerMC ----------------------------
(* Instances of Scheduler for TLC. *)
EXTENDS Scheduler, TLC

CONSTANTS t, w, k, i1, i2, q

Symmetry == Permutations({i1, i2})
=============================================================================
