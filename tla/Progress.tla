------------------------------ MODULE Progress ------------------------------
(***************************************************************************)
(* What a build's ledger promises (build/ledger.py, build/orchestrator.py),*)
(* without its file, its process and its session: milestones that are done *)
(* as a restart would read them, and those the orchestrating agent heard   *)
(* are recorded as done. Only a new plan or the agent takes one back.      *)
(***************************************************************************)
CONSTANT Milestones

VARIABLES
    planned, durable,   \* the recorded plan, and what of it is recorded as done
    heard,              \* what the agent was told is recorded as done
    announced           \* the build was announced complete

progressVars == <<planned, durable, heard, announced>>

ProgressInit == planned = {} /\ durable = {} /\ heard = {} /\ announced = FALSE

\* What the agent heard of is on record, whatever else a write brings with it.
Writes == planned' \subseteq Milestones /\ durable' \subseteq planned' /\ heard' \subseteq durable'

Replan == Writes /\ heard' = {} /\ UNCHANGED announced
Hear(i) == Writes /\ heard' = heard \cup {i} /\ UNCHANGED announced
TakeBack(i) == Writes /\ heard' = heard \ {i} /\ UNCHANGED announced
\* The session ends, and what could not be written before is written.
CatchUp == ~announced /\ Writes /\ UNCHANGED <<heard, announced>>

Announce == planned # {} /\ durable = planned /\ announced' = TRUE /\ UNCHANGED <<planned, durable, heard>>
Close == announced /\ announced' = FALSE /\ UNCHANGED <<planned, durable, heard>>

ProgressNext == Replan \/ (\E i \in Milestones : Hear(i) \/ TakeBack(i)) \/ CatchUp \/ Announce \/ Close

ProgressSpec == ProgressInit /\ [][ProgressNext]_progressVars
=============================================================================
