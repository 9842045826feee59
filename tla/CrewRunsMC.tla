----------------------------- MODULE CrewRunsMC -----------------------------
(* Instances of CrewRuns for TLC: a ReLife member's task, then a CrewAI one's. *)
EXTENDS CrewRuns

CONSTANTS write, review, c1, r1

WriteThenReview == <<write, review>>
=============================================================================
