----------------------------- MODULE StreamsMC -----------------------------
(* Instances of Streams for TLC. *)
EXTENDS Streams, TLC

CONSTANTS b1, b2, c1, c2
=============================================================================
