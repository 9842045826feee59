----------------------------- MODULE SessionsMC -----------------------------
(***************************************************************************)
(* Instances of Sessions for TLC.                                          *)
(***************************************************************************)
EXTENDS Sessions, TLC

CONSTANTS a, b, k, r1, r2

Symmetry == Permutations({r1, r2})
=============================================================================
