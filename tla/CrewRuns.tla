------------------------------- MODULE CrewRuns -------------------------------
(***************************************************************************)
(* Crew runs hosted by the server: the crew service and its hosts          *)
(* (server/crews.py), the runner that a host's worker thread executes      *)
(* (crew/runner.py, crew/build.py), the record of a run                    *)
(* (crew/record.py), and the routes that plan, run, resume, stop and       *)
(* discard a crew (server/app.py).                                         *)
(*                                                                         *)
(* The worker is a thread: its steps interleave with the loop's anywhere.  *)
(* It works on its own copy of the record and writes it to the file whole. *)
(* A resume's checks run on a third thread, on the copy its request read.  *)
(***************************************************************************)
EXTENDS Integers, FiniteSets, Sequences, SequencesExt

CONSTANTS
    Crews,
    Plan,               \* the tasks of a plan, in order
    Llm,                \* those whose member is a CrewAI agent on a limited model
    Reqs, Tick,         \* request handlers, and the scheduler's tick (resume_due)
    MaxCrews,           \* AGENT_MAX_CREWS
    MaxHosts, MaxOuts, MaxCrashes   \* bounds of the model, not of the code

Tasks == Range(Plan)
Callers == Reqs \cup {Tick}
Slots == 1 .. MaxHosts
NoCrew == <<>>

ASSUME BoundsAssumption ==
    /\ MaxCrews \in Nat \ {0} /\ MaxHosts \in Nat \ {0} /\ MaxOuts \in Nat /\ MaxCrashes \in Nat
ASSUME PlanAssumption ==
    Plan \in Seq(Tasks) /\ IsInjective(Plan) /\ Len(Plan) > 0 /\ Llm \subseteq Tasks
ASSUME NamesAssumption == Tick \notin Reqs /\ NoCrew \notin Crews /\ IsFiniteSet(Crews)

VARIABLES
    rec,       \* the record files
    host,      \* the CrewHost objects of each crew: see Hosts
    hosted,    \* CrewService._hosts: crew -> its host's slot, 0 if absent
    req,       \* the calls of start() and resume(): see Calls
    quota,     \* whether the members' models have any left
    outs, proc, crashes

vars == <<rec, host, hosted, req, quota, outs, proc, crashes>>

Records ==
    [status : {"none", "planned", "running", "paused", "interrupted", "done", "error", "cancelled"},
     pid : 0 .. MaxCrashes + 1,            \* the process that runs it; kept while it is running
     due : {"never", "later", "now"},      \* resume_after
     done : SUBSET Tasks,                  \* tasks with an outcome without an error
     bad : SUBSET Tasks]                   \* tasks with an outcome with one

Hosts ==
    [life : {"none", "built", "up", "over", "closed"},   \* up: its asyncio task runs
     stop : BOOLEAN,                       \* _stop
     work : {"none", "fresh", "ready", "task", "saved"}, \* its worker thread
     rec : Records,                        \* the worker's copy
     fin : SUBSET Tasks, bad : SUBSET Tasks]   \* what this run finished

Calls ==
    [pc : {"idle", "job", "launch", "adopt"}, crew : Crews \cup {NoCrew},
     slot : 0 .. MaxHosts, rec : Records]

TypeOK ==
    /\ rec \in [Crews -> Records] /\ host \in [Crews -> [Slots -> Hosts]]
    /\ hosted \in [Crews -> 0 .. MaxHosts] /\ req \in [Callers -> Calls]
    /\ quota \in BOOLEAN /\ outs \in 0 .. MaxOuts
    /\ proc \in 1 .. MaxCrashes + 1 /\ crashes \in 0 .. MaxCrashes

NoRecord == [status |-> "none", pid |-> 0, due |-> "never", done |-> {}, bad |-> {}]
NoHost == [life |-> "none", stop |-> FALSE, work |-> "none", rec |-> NoRecord,
           fin |-> {}, bad |-> {}]
Idle == [pc |-> "idle", crew |-> NoCrew, slot |-> 0, rec |-> NoRecord]

Init ==
    /\ rec = [c \in Crews |-> NoRecord] /\ host = [c \in Crews |-> [n \in Slots |-> NoHost]]
    /\ hosted = [c \in Crews |-> 0] /\ req = [r \in Callers |-> Idle]
    /\ quota = TRUE /\ outs = 0 /\ proc = 1 /\ crashes = 0

-----------------------------------------------------------------------------
(* Reading the state.                                                      *)

InTable(c) == hosted[c] # 0 /\ host[c][hosted[c]].life \in {"up", "over"}     \* host(id)
Busy(c) == hosted[c] # 0 /\ host[c][hosted[c]].life = "up"
Pending == {c \in Crews : \E r \in Callers : req[r].pc = "adopt" /\ req[r].crew = c}
\* Mutant: the crews that are being adopted forgotten.
LiveUnreserved(c) == Busy(c)
Live(c) == Busy(c) \/ c \in Pending                                          \* _live
\* running(): every busy crew of the session table, and those pending.
Running == Cardinality({o \in Crews \X Slots : host[o[1]][o[2]].life = "up"}) + Cardinality(Pending)

\* The slot a new object takes (a bound of the model, not of the code).
Free(c) == {n \in Slots : host[c][n].life = "none" /\ \A m \in 1 .. (n - 1) : host[c][m].life # "none"}

\* remaining_spec: the tasks without an outcome free of errors. They are worked
\* in plan order.
Left(copy) == Tasks \ copy.done
First(todo) == Plan[CHOOSE k \in 1 .. Len(Plan) :
                      Plan[k] \in todo /\ \A j \in 1 .. (k - 1) : Plan[j] \notin todo]
\* resume_blocked: a member still to work has its whole chain out of quota.
Blocked(copy) == ~quota /\ Llm \ copy.done # {}

\* Mutant: nobody asks whether the process that ran it is there.
ReconciledNever(c) == rec[c]
\* _reconcile: left `running' by a process that is gone.
Reconciled(c) == IF rec[c].status = "running" /\ rec[c].pid # proc
                 THEN [rec[c] EXCEPT !.status = "interrupted", !.pid = 0] ELSE rec[c]

HostIs(c, n, h) == host' = [host EXCEPT ![c][n] = h]
CallIs(r, q) == req' = [req EXCEPT ![r] = q]

-----------------------------------------------------------------------------
(* Planning, starting and resuming (CrewService, the crew routes).         *)

\* POST /crews: the plan is made (or the given one checked) and recorded.
MakePlan(c) ==
    /\ rec[c].status = "none"
    /\ rec' = [rec EXCEPT ![c].status = "planned"]
    /\ UNCHANGED <<host, hosted, req, quota, outs, proc, crashes>>

\* DELETE /crews/{id}.
Discard(c) ==
    /\ rec[c].status = "planned" /\ ~InTable(c) /\ c \notin Pending
    /\ rec' = [rec EXCEPT ![c].status = "cancelled"]
    /\ UNCHANGED <<host, hosted, req, quota, outs, proc, crashes>>

\* start: read, build_host and launch's checks, up to adopt's first await.
Run(r, c) ==
    /\ r \in Reqs /\ req[r].pc = "idle"
    /\ rec[c].status = "planned" /\ hosted[c] = 0 /\ c \notin Pending /\ Running < MaxCrews
    /\ \E n \in Free(c) :
          /\ HostIs(c, n, [NoHost EXCEPT !.life = "built", !.rec = rec[c]])
          /\ CallIs(r, [Idle EXCEPT !.pc = "adopt", !.crew = c, !.slot = n])
    /\ UNCHANGED <<rec, hosted, quota, outs, proc, crashes>>

\* resume, and resume_due's choice for the tick: the record is read (and
\* reconciled) on the loop, the rest is handed to the executor.
Resume(r, c) ==
    /\ req[r].pc = "idle" /\ rec[c].status # "none"
    /\ r = Tick => rec[c].status = "paused" /\ rec[c].due = "now"
    /\ rec' = [rec EXCEPT ![c] = Reconciled(c)]
    /\ CallIs(r, [Idle EXCEPT !.pc = "job", !.crew = c, !.rec = Reconciled(c)])
    /\ UNCHANGED <<host, hosted, quota, outs, proc, crashes>>

\* build_host(resume=True) on the executor's thread, on the copy read before.
Builds(r) ==
    LET c == req[r].crew
        copy == req[r].rec
        startable == ~Live(c) /\ copy.status \in {"paused", "interrupted"} /\ Left(copy) # {}
        refused == CallIs(r, Idle) /\ UNCHANGED host
    IN  /\ req[r].pc = "job"
        /\ \/ ~startable /\ refused /\ UNCHANGED rec
           \/ /\ startable /\ Blocked(copy) /\ refused
              /\ rec' = [rec EXCEPT ![c] = [copy EXCEPT !.due = "later"]]
           \/ startable /\ ~Blocked(copy) /\ Running >= MaxCrews /\ refused /\ UNCHANGED rec
           \/ /\ startable /\ ~Blocked(copy) /\ Running < MaxCrews
              /\ \E n \in Free(c) :
                    /\ HostIs(c, n, [NoHost EXCEPT !.life = "built", !.rec = [copy EXCEPT !.due = "never"]])
                    /\ CallIs(r, [Idle EXCEPT !.pc = "launch", !.crew = c, !.slot = n])
              /\ UNCHANGED rec
        /\ UNCHANGED <<hosted, quota, outs, proc, crashes>>

\* Mutant: a crew that ever had a host is refused, as for a first start.
LaunchesOnce(r) ==
    LET c == req[r].crew IN
    /\ req[r].pc = "launch"
    /\ \/ (hosted[c] # 0 \/ c \in Pending) /\ HostIs(c, req[r].slot, NoHost) /\ CallIs(r, Idle)
       \/ hosted[c] = 0 /\ c \notin Pending /\ CallIs(r, [req[r] EXCEPT !.pc = "adopt"]) /\ UNCHANGED host
    /\ UNCHANGED <<rec, hosted, quota, outs, proc, crashes>>
\* launch(resume=True), up to adopt's first await.
Launches(r) ==
    LET c == req[r].crew IN
    /\ req[r].pc = "launch"
    /\ \/ Live(c) /\ HostIs(c, req[r].slot, NoHost) /\ CallIs(r, Idle)
       \/ ~Live(c) /\ CallIs(r, [req[r] EXCEPT !.pc = "adopt"]) /\ UNCHANGED host
    /\ UNCHANGED <<rec, hosted, quota, outs, proc, crashes>>

\* adopt registers the host and starts its task.
Adopted(r) ==
    LET c == req[r].crew IN
    /\ req[r].pc = "adopt"
    /\ host' = [host EXCEPT ![c][req[r].slot].life = "up"]
    /\ hosted' = [hosted EXCEPT ![c] = req[r].slot]
    /\ CallIs(r, Idle)
    /\ UNCHANGED <<rec, quota, outs, proc, crashes>>

\* No room in the session table.
AdoptRefused(r) ==
    /\ req[r].pc = "adopt"
    /\ HostIs(req[r].crew, req[r].slot, NoHost) /\ CallIs(r, Idle)
    /\ UNCHANGED <<rec, hosted, quota, outs, proc, crashes>>

-----------------------------------------------------------------------------
(* The host and its worker thread (CrewHost._run, _work; execute_crew).    *)

\* _run: from its first events to the thread's start.
ThreadStarts(c, n) ==
    /\ host[c][n].life = "up" /\ host[c][n].work = "none"
    /\ host' = [host EXCEPT ![c][n].work = "fresh"]
    /\ UNCHANGED <<rec, hosted, req, quota, outs, proc, crashes>>

Begun(h) == [h.rec EXCEPT !.status = "running", !.pid = proc]

\* execute_crew: the record says "running" before anything is built.
WorkerStarts(c, n) ==
    LET h == host[c][n] IN
    /\ h.work = "fresh"
    /\ HostIs(c, n, [h EXCEPT !.work = "ready", !.rec = Begun(h)])
    /\ rec' = [rec EXCEPT ![c] = Begun(h)]
    /\ UNCHANGED <<hosted, req, quota, outs, proc, crashes>>

Todo(h) == Left(h.rec) \ (h.fin \cup h.bad)

\* Mutant: a resumed run's outcomes replace the record's.
CompletedAnew(h) == [h.rec EXCEPT !.status = "done", !.pid = 0, !.done = h.fin, !.bad = h.bad]
\* kickoff returned: an outcome for each task of the run.
Completed(h) == [h.rec EXCEPT !.status = "done", !.pid = 0, !.done = @ \cup h.fin, !.bad = @ \cup h.bad]
\* Mutant: a stopped crew has a status of its own, which no reader knows.
CutOffStopped(h, status) == [h.rec EXCEPT !.status = IF h.stop THEN "stopped" ELSE status, !.pid = 0]
\* kickoff raised: an outcome for each finished task that has none yet.
CutOff(h, status) ==
    [h.rec EXCEPT !.status = status, !.pid = 0, !.due = IF status = "paused" THEN "later" ELSE @,
                  !.done = @ \cup (h.fin \ h.rec.bad), !.bad = @ \cup h.bad]

\* Mutant: nothing is saved when nobody waits for the thread any more.
SavesIfAwaited(c, n, h, copy) ==
    /\ HostIs(c, n, IF h.life = "closed" THEN NoHost ELSE [h EXCEPT !.work = "saved", !.rec = copy])
    /\ IF h.life = "closed" THEN UNCHANGED rec ELSE rec' = [rec EXCEPT ![c] = copy]
\* The finally clause: the worker's copy is the record. A closed host's thread
\* was the last to know the object.
Saves(c, n, h, copy) ==
    /\ HostIs(c, n, IF h.life = "closed" THEN NoHost ELSE [h EXCEPT !.work = "saved", !.rec = copy])
    /\ rec' = [rec EXCEPT ![c] = copy]

TaskStarts(c, n) ==
    LET h == host[c][n] IN
    /\ h.work = "ready" /\ ~h.stop
    /\ HostIs(c, n, [h EXCEPT !.work = "task"])
    /\ UNCHANGED <<rec, hosted, req, quota, outs, proc, crashes>>

\* A stopped crew's member begins nothing; and the registry may have changed
\* under the plan (ensure_profiles), which ends the run before a first task.
TaskRefused(c, n) ==
    LET h == host[c][n] IN
    /\ h.work = "ready" /\ (h.stop \/ h.fin \cup h.bad = {})
    /\ Saves(c, n, h, CutOff(h, "error"))
    /\ UNCHANGED <<hosted, req, quota, outs, proc, crashes>>

\* Mutant: the pre-flight is one task early, at the member that just worked.
NextNeedsEarly(todo) == Plan[Len(Plan) - Cardinality(todo)] \in Llm
\* stop_check's pre-flight: who works next.
NextNeeds(todo) == todo # {} /\ First(todo) \in Llm

\* The task has an outcome; then stop_check, which raises or lets the next
\* task start. The stop flag and the daily budget are asked after the last
\* task too.
Boundary(c, n, h) ==
    LET todo == Todo(h) IN
    \/ Saves(c, n, h, CutOff(h, "error"))                          \* stopped, or no budget left
    \/ ~h.stop /\ NextNeeds(todo) /\ ~quota /\ Saves(c, n, h, CutOff(h, "paused"))
    \/ ~h.stop /\ todo = {} /\ Saves(c, n, h, Completed(h))
    \/ /\ ~h.stop /\ todo # {} /\ ~(NextNeeds(todo) /\ ~quota)
       /\ HostIs(c, n, [h EXCEPT !.work = "ready"]) /\ UNCHANGED rec

TaskEnds(c, n) ==
    LET h == host[c][n]
        t == First(Todo(h))
        flawed == [h EXCEPT !.bad = @ \cup {t}]       \* an outcome with an error
    IN  /\ h.work = "task"
        /\ \/ Boundary(c, n, [h EXCEPT !.fin = @ \cup {t}])
           \/ t \notin Llm /\ Boundary(c, n, flawed)                       \* and some output
           \/ t \notin Llm /\ Saves(c, n, flawed, CutOff(flawed, "error")) \* and none
           \/ Saves(c, n, h, CutOff(h, "error"))                           \* the member raised
           \/ t \in Llm /\ ~quota /\ Saves(c, n, h, CutOff(h, "paused"))   \* QuotaPaused
        /\ UNCHANGED <<hosted, req, quota, outs, proc, crashes>>

\* _run: the thread's future is resolved, and the task ends.
HostEnds(c, n) ==
    /\ host[c][n].life = "up" /\ host[c][n].work = "saved"
    /\ HostIs(c, n, [NoHost EXCEPT !.life = "over"])
    /\ UNCHANGED <<rec, hosted, req, quota, outs, proc, crashes>>

-----------------------------------------------------------------------------
(* The user, the other readers of the records, the quota, the process.     *)

\* POST /crews/{id}/stop.
Stop(c) ==
    /\ Busy(c) /\ ~host[c][hosted[c]].stop
    /\ host' = [host EXCEPT ![c][hosted[c]].stop = TRUE]
    /\ UNCHANGED <<rec, hosted, req, quota, outs, proc, crashes>>

\* The session is deleted, or reaped when its run is over (aclose). The worker
\* thread goes on by itself; the entry in _hosts stays.
Closed(c) ==
    LET h == host[c][hosted[c]] IN
    /\ HostIs(c, hosted[c], IF h.work \in {"none", "saved"} THEN NoHost
                            ELSE [h EXCEPT !.life = "closed", !.stop = TRUE])
    /\ UNCHANGED <<rec, hosted, req, quota, outs, proc, crashes>>
Close(c) == Busy(c) /\ Closed(c)
Reap(c) == hosted[c] # 0 /\ host[c][hosted[c]].life = "over" /\ Closed(c)

\* GET /crews and the tick's list(): every record is reconciled as it is read.
Reconcile(c) ==
    /\ Reconciled(c) # rec[c]
    /\ rec' = [rec EXCEPT ![c] = Reconciled(c)]
    /\ UNCHANGED <<host, hosted, req, quota, outs, proc, crashes>>

SpendQuota ==
    /\ quota /\ outs < MaxOuts
    /\ quota' = FALSE /\ outs' = outs + 1
    /\ UNCHANGED <<rec, host, hosted, req, proc, crashes>>

Reset ==
    /\ ~quota /\ quota' = TRUE
    /\ UNCHANGED <<rec, host, hosted, req, outs, proc, crashes>>

\* The clock passes resume_after, which may be before the quota is back.
ResumeAfterComes(c) ==
    /\ rec[c].due = "later"
    /\ rec' = [rec EXCEPT ![c].due = "now"]
    /\ UNCHANGED <<host, hosted, req, quota, outs, proc, crashes>>

\* The process dies, with its threads, and the next one starts.
Crash ==
    /\ crashes < MaxCrashes /\ crashes' = crashes + 1 /\ proc' = proc + 1
    /\ host' = [c \in Crews |-> [n \in Slots |-> NoHost]]
    /\ hosted' = [c \in Crews |-> 0] /\ req' = [r \in Callers |-> Idle]
    /\ UNCHANGED <<rec, quota, outs>>

Loop == \E c \in Crews, n \in Slots : ThreadStarts(c, n) \/ HostEnds(c, n)
Worker == \E c \in Crews, n \in Slots :
    WorkerStarts(c, n) \/ TaskStarts(c, n) \/ TaskRefused(c, n) \/ TaskEnds(c, n)
Call == \E r \in Callers :
    \/ \E c \in Crews : Run(r, c) \/ Resume(r, c)
    \/ Builds(r) \/ Launches(r) \/ Adopted(r) \/ AdoptRefused(r)
Routes == \E c \in Crews : MakePlan(c) \/ Discard(c) \/ Stop(c) \/ Close(c) \/ Reap(c) \/ Reconcile(c)
Environment == SpendQuota \/ Reset \/ (\E c \in Crews : ResumeAfterComes(c)) \/ Crash

Next == Loop \/ Worker \/ Call \/ Routes \/ Environment

Spec == Init /\ [][Next]_vars

\* The loop and the worker threads are scheduled; a member's turn may never
\* end. The tick lists the records and resumes what is due, when the daily
\* budget lets it. What is adopted is
\* not refused for ever by the session table, nor is every host closed before
\* its thread has started. Quotas reset.
Fairness ==
    /\ \A c \in Crews : SF_vars(\E n \in Slots : ThreadStarts(c, n))
    /\ \A c \in Crews, n \in Slots :
          /\ WF_vars(HostEnds(c, n))
          /\ WF_vars(WorkerStarts(c, n)) /\ WF_vars(TaskStarts(c, n) \/ TaskRefused(c, n))
    /\ \A r \in Callers : WF_vars(Builds(r)) /\ WF_vars(Launches(r)) /\ SF_vars(Adopted(r))
    /\ \A c \in Crews :
          /\ SF_vars(Resume(Tick, c)) /\ WF_vars(Reconcile(c)) /\ WF_vars(Reap(c))
          /\ WF_vars(ResumeAfterComes(c))
    /\ WF_vars(Reset)

FairSpec == Spec /\ Fairness

-----------------------------------------------------------------------------
(* Properties.                                                             *)

\* However a start, resumes and the tick's resume overlap, a crew has one host
\* whose run is on (_pending and _live: "start one crew twice").
OneHostUp == \A c \in Crews : Cardinality({n \in Slots : host[c][n].life = "up"}) <= 1

\* A record that this process says is running has a worker thread that will
\* write another status, whatever was closed, stopped or resumed meanwhile:
\* nothing but this would ever end it, as its process is alive.
RunningHasWorker == \A c \in Crews :
    rec[c].status = "running" /\ rec[c].pid = proc =>
        \E n \in Slots : host[c][n].work \in {"ready", "task"}

\* A crew that is done has an outcome for every task of its plan, also those
\* that ran before a pause or in a process that is gone.
DoneIsComplete == \A c \in Crews : rec[c].status = "done" => rec[c].done \cup rec[c].bad = Tasks

\* A paused crew can be resumed: a task is left, and a time to come back is
\* set once no worker has it. (remaining_spec raises when nothing is left.)
PausedIsResumable == \A c \in Crews :
    rec[c].status = "paused" => Left(rec[c]) # {} /\ rec[c].due # "never"

InATurn(c) == \E n \in Slots : host[c][n].work = "task"

\* A record stays "running" for ever only while a member's turn does, even if
\* the process that ran it died.
Settles == \A c \in Crews : <>[](rec[c].status = "running") => <>[]InATurn(c)

\* Once the quotas are back for good, a paused crew goes on by itself, unless a
\* worker left behind by a closed host is in a turn that never ends.
PausedResumes == \A c \in Crews : <>[](rec[c].status = "paused") => <>[]InATurn(c)

\* What a task delivered is kept: a task some run finished without an error is
\* among the finished ones once that run's record is written (runner.py: "keep
\* whatever finished").
FinishedKept == \A c \in Crews, n \in Slots :
    host[c][n].work = "saved" => host[c][n].fin \subseteq host[c][n].rec.done
=============================================================================
