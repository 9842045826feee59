---------------------------- MODULE BuildLedger ----------------------------
(***************************************************************************)
(* An orchestrated build (build/orchestrator.py) and its ledger            *)
(* (build/ledger.py), which the orchestrating agent keeps through three    *)
(* tools (build/server.py). The process may die anywhere, a write may      *)
(* fail, and the Claude session a resume wants to continue may be gone.    *)
(***************************************************************************)
EXTENDS Integers, Sequences, FiniteSets

CONSTANTS
    MaxMilestones,      \* bound of the model, not of the code
    NoPlan

ASSUME BuildAssumption == MaxMilestones \in Nat \ {0}

VARIABLES
    onDisk,     \* ledger.json: NoPlan before create
    inMind,     \* the ledger object of the running process
    build,      \* where run_build is
    alive,      \* whether the Claude session that was last recorded can be resumed
    told        \* the milestones the agent was told are recorded as done

buildVars == <<onDisk, inMind, build, alive, told>>

Statuses == {"pending", "in_progress", "done", "failed"}
Plans == UNION {[1 .. n -> Statuses] : n \in 0 .. MaxMilestones}
Ledger == [plan : Plans, session : BOOLEAN]
Created == [plan |-> <<>>, session |-> FALSE]

ASSUME NoPlanAssumption == NoPlan \notin Ledger

BuildTypeOK ==
    /\ onDisk \in Ledger \cup {NoPlan} /\ inMind \in Ledger \cup {NoPlan}
    /\ build \in {"off", "connect", "retry", "work", "result", "complete", "paused"}
    /\ alive \in BOOLEAN /\ told \subseteq 1 .. MaxMilestones

BuildInit ==
    onDisk = NoPlan /\ inMind = NoPlan /\ build = "off" /\ alive = FALSE /\ told = {}

Done(ledger) == {i \in DOMAIN ledger.plan : ledger.plan[i] = "done"}
Complete(ledger) == ledger.plan # <<>> /\ Done(ledger) = DOMAIN ledger.plan     \* is_complete

-----------------------------------------------------------------------------

\* Mutant: what changed is written by the next save.
SaveLater(ledger) == inMind' = ledger /\ UNCHANGED onDisk
\* save: a temporary file, then replace.
Save(ledger) == inMind' = ledger /\ onDisk' = ledger
\* It raises; the object has the change.
SaveFails(ledger) == inMind' = ledger /\ UNCHANGED onDisk

\* run_build with a spec, or with --resume.
Create ==
    /\ build = "off" /\ onDisk = NoPlan /\ Save(Created) /\ build' = "connect"
    /\ UNCHANGED <<alive, told>>
Resume ==
    /\ build = "off" /\ onDisk # NoPlan /\ inMind' = onDisk /\ build' = "connect"
    /\ UNCHANGED <<onDisk, alive, told>>

\* The recorded session is continued, or a fresh one opened; connect may fail.
Connect ==
    /\ build = "connect" \/ build = "retry"
    /\ IF inMind.session THEN alive ELSE TRUE
    /\ build' = "work"
    /\ UNCHANGED <<onDisk, inMind, alive, told>>
\* The stale handle is dropped before the second try.
SessionGone ==
    /\ build = "connect" /\ inMind.session
    /\ Save([inMind EXCEPT !.session = FALSE]) /\ build' = "retry"
    /\ UNCHANGED <<alive, told>>

\* build_plan_set: replaces any existing plan.
SetPlan ==
    /\ build = "work" /\ told' = {}
    /\ \E n \in 1 .. MaxMilestones :
          LET ledger == [inMind EXCEPT !.plan = [i \in 1 .. n |-> "pending"]]
          IN  Save(ledger) \/ SaveFails(ledger)
    /\ UNCHANGED <<build, alive>>

\* build_milestone_update: the agent hears of success after the save only.
Update ==
    /\ build = "work"
    /\ \E i \in DOMAIN inMind.plan, status \in Statuses :
          LET ledger == [inMind EXCEPT !.plan[i] = status]
          IN  \/ Save(ledger) /\ told' = IF status = "done" THEN told \cup {i} ELSE told \ {i}
              \/ SaveFails(ledger) /\ told' = IF status = "done" THEN told ELSE told \ {i}
    /\ UNCHANGED <<build, alive>>

\* The result names the session, which is recorded; a failing write ends the
\* command without a word about the build.
Result ==
    /\ build = "work"
    /\ \/ Save([inMind EXCEPT !.session = TRUE]) /\ build' = "result" /\ alive' = TRUE
       \/ inMind' = NoPlan /\ UNCHANGED <<onDisk, alive>> /\ build' = "off"
    /\ UNCHANGED told

Announce ==
    /\ build = "result" /\ build' = IF Complete(inMind) THEN "complete" ELSE "paused"
    /\ UNCHANGED <<onDisk, inMind, alive, told>>

\* The command ends, or the process dies (in the middle of connecting too).
Ends ==
    /\ build # "off" /\ build' = "off" /\ inMind' = NoPlan
    /\ UNCHANGED <<onDisk, alive, told>>

\* Claude forgets the session (a session-limit reset).
Expire == alive /\ alive' = FALSE /\ UNCHANGED <<onDisk, inMind, build, told>>

BuildNext ==
    Create \/ Resume \/ Connect \/ SessionGone \/ SetPlan \/ Update \/ Result \/ Announce \/ Ends \/ Expire

BuildSpec == BuildInit /\ [][BuildNext]_buildVars

-----------------------------------------------------------------------------

\* What the ledger promises of a build, in terms of its file.
Promise == INSTANCE Progress WITH
    Milestones <- 1 .. MaxMilestones,
    planned <- IF onDisk = NoPlan THEN {} ELSE DOMAIN onDisk.plan,
    durable <- IF onDisk = NoPlan THEN {} ELSE Done(onDisk),
    heard <- told,
    announced <- build = "complete"

\* No milestone progress is lost (orchestrator.py): what the agent was told is
\* done is what the next resume reads, after any crash, failed write or expired
\* session; nothing but the agent's own calls and the end of its session changes
\* the record; and a build that is announced complete is complete on disk.
ProgressKept == Promise!ProgressSpec
=============================================================================
