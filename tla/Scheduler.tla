------------------------------ MODULE Scheduler ------------------------------
(***************************************************************************)
(* The scheduler of the always-on server (server/scheduler.py) with the    *)
(* schedules it fires (schedules.py), the recorders that follow what it    *)
(* fired (runs.py) and the routes that edit and fire schedules (app.py).   *)
(*                                                                         *)
(* A firing is a coroutine of the one event loop: the tick's, or that of a *)
(* "run now" request.  `cpu' is the firing the loop is running, NoOne when *)
(* every firing is suspended in an await, where other code may act.  The   *)
(* sessions are those of module Sessions seen from here: a queue of turns  *)
(* that is worked off one by one and goes when the session is closed.      *)
(* Every change of a schedule is saved before its code suspends, so the    *)
(* file agrees with memory wherever a crash can happen.                    *)
(***************************************************************************)
EXTENDS Integers, FiniteSets, Sequences, SequencesExt

CONSTANTS
    Turns, Works, Crewed,   \* schedules that fire a prompt, an issue, a crew
    Issues,                 \* the user's assigned issues
    Tick, Runners,          \* Scheduler.run, and the requests that run one now
    NoOne,
    MaxSchedules,           \* AGENT_MAX_SCHEDULES
    MaxQueue,               \* AGENT_MAX_QUEUED_TURNS
    MaxCrews,               \* AGENT_MAX_CREWS
    Keep,                   \* AGENT_SCHEDULE_HISTORY
    MaxWorked,              \* MAX_WORKED
    MaxMade, MaxSessions, MaxRuns, MaxCrashes   \* bounds of the model, not of the code

Scheds == Turns \cup Works \cup Crewed
Firers == {Tick} \cup Runners
Runs == 1 .. MaxRuns
NoIssue == <<>>

ASSUME BoundsAssumption ==
    /\ MaxSchedules \in Nat /\ MaxQueue \in Nat \ {0} /\ MaxCrews \in Nat \ {0}
    /\ Keep \in Nat \ {0} /\ MaxWorked \in Nat \ {0}
    /\ MaxMade \in Nat /\ MaxSessions \in Nat /\ MaxRuns \in Nat /\ MaxCrashes \in Nat
ASSUME NamesAssumption ==
    /\ Tick \notin Runners /\ NoOne \notin Firers \cup Scheds /\ NoIssue \notin Issues
    /\ Turns \cap Works = {} /\ (Turns \cup Works) \cap Crewed = {}       \* a schedule has one kind
    /\ IsFiniteSet(Scheds) /\ IsFiniteSet(Runners)

VARIABLES
    sched,     \* the Schedule objects
    fire,      \* the firings: where each is, and its locals
    item,      \* Scheduler._item: schedule -> issue being started
    sess,      \* the sessions
    run,       \* the submitted runs, their recorders and their record files
    cpu, server, crashes

vars == <<sched, fire, item, sess, run, cpu, server, crashes>>

Entries ==                                   \* Schedule.runs: the history
    [run : 0 .. MaxRuns, item : Issues \cup {NoIssue},
     status : {"skipped", "unrecorded", "submitted", "done", "error", "timeout", "interrupted"}]

Schedules ==
    [life : {"new", "kept", "gone"},         \* in the store, or not yet, or removed
     enabled : BOOLEAN,
     due : BOOLEAN,                          \* next_run_at <= now
     session : 0 .. MaxSessions,             \* session_id, 0 for None
     worked : Seq(Issues),
     runs : Seq(Entries)]

Firings ==
    [pc : {"idle", "next", "start", "plan", "launch", "list", "fetch", "checkout", "close",
           "create", "first", "submit", "record", "ended"},
     s : Scheds \cup {NoOne},                \* the schedule it fires
     list : SUBSET Scheds,                   \* tick(): what is left of due()
     session : 0 .. MaxSessions,             \* the local `session'
     issue : Issues \cup {NoIssue},          \* the local `ref'
     run : 0 .. MaxRuns,
     status : {"none", "skipped", "unrecorded", "submitted"}]

Conversations ==
    [life : {"none", "open", "closed"}, crew : BOOLEAN,
     queue : Seq(0 .. MaxRuns),              \* turns by run, 0 for one typed by the user
     active : BOOLEAN]                       \* the worker is at the head of the queue

Submitted ==
    [s : Scheds \cup {NoOne}, issue : Issues \cup {NoIssue}, session : 0 .. MaxSessions,
     end : {"none", "result", "error"},      \* what ended its own turn
     rec : {"none", "wait", "follow", "deaf", "result", "error", "over"},   \* its recorder
     file : BOOLEAN]                         \* its RunRecord is on disk

TypeOK ==
    /\ sched \in [Scheds -> Schedules]
    /\ \A s \in Scheds : Len(sched[s].runs) <= Keep /\ Len(sched[s].worked) <= MaxWorked
    /\ fire \in [Firers -> Firings]
    /\ item \in [Scheds -> Issues \cup {NoIssue}]
    /\ sess \in [1 .. MaxSessions -> Conversations] /\ run \in [Runs -> Submitted]
    /\ cpu \in Firers \cup {NoOne} /\ server \in {"up", "stopping", "down"}
    /\ crashes \in 0 .. MaxCrashes

NoSchedule == [life |-> "new", enabled |-> FALSE, due |-> FALSE, session |-> 0, worked |-> <<>>,
               runs |-> <<>>]
Idle == [pc |-> "idle", s |-> NoOne, list |-> {}, session |-> 0, issue |-> NoIssue, run |-> 0,
         status |-> "none"]
NoSession == [life |-> "none", crew |-> FALSE, queue |-> <<>>, active |-> FALSE]
NoRun == [s |-> NoOne, issue |-> NoIssue, session |-> 0, end |-> "none", rec |-> "none",
          file |-> FALSE]

Init ==
    /\ sched = [s \in Scheds |-> NoSchedule] /\ fire = [f \in Firers |-> Idle]
    /\ item = [s \in Scheds |-> NoIssue] /\ sess = [n \in 1 .. MaxSessions |-> NoSession]
    /\ run = [r \in Runs |-> NoRun] /\ cpu = NoOne /\ server = "up" /\ crashes = 0

-----------------------------------------------------------------------------
(* Reading the state.                                                      *)

Kept(s) == sched[s].life = "kept"
Due == {s \in Scheds : Kept(s) /\ sched[s].enabled /\ sched[s].due}
Live(n) == n # 0 /\ sess[n].life = "open"          \* manager.get(session_id)
Busy(n) == Live(n) /\ sess[n].queue # <<>>         \* a turn is queued or running
Room(n) == Len(sess[n].queue) < MaxQueue + IF sess[n].active THEN 1 ELSE 0
NewSession == {n \in 1 .. MaxSessions : sess[n].life = "none" /\ \A m \in 1 .. (n - 1) : sess[m].life # "none"}
NewRun == {r \in Runs : run[r].s = NoOne /\ \A q \in 1 .. (r - 1) : run[q].s # NoOne}
Followed(r) == run[r].rec \notin {"none", "over"}

\* Mutant: only the crews that are up are counted.
CrewsUp == Cardinality({n \in 1 .. MaxSessions : sess[n].crew /\ Busy(n)})

\* CrewService.running(): the live crews and those being hosted.
CrewsRunning == Cardinality({n \in 1 .. MaxSessions : sess[n].crew /\ Busy(n)})
                + Cardinality({f \in Firers : fire[f].pc = "launch"})

At(f, pcs) == fire[f].pc \in pcs /\ cpu = IF fire[f].pc \in {"next", "start", "first", "submit", "record"}
                                          THEN f ELSE NoOne
Goes(f, h) == fire' = [fire EXCEPT ![f] = h] /\ cpu' = f       \* the loop stays with f
Awaits(f, h) == fire' = [fire EXCEPT ![f] = h] /\ cpu' = NoOne

-----------------------------------------------------------------------------
(* tick() and the "run now" route.                                         *)

TickWakes ==
    /\ cpu = NoOne /\ fire[Tick].pc = "idle" /\ server = "up" /\ Due # {}
    /\ Goes(Tick, [Idle EXCEPT !.pc = "next", !.list = Due])
    /\ UNCHANGED <<sched, item, sess, run, server, crashes>>

TickNext(s) ==
    /\ At(Tick, {"next"}) /\ s \in fire[Tick].list
    /\ Goes(Tick, [Idle EXCEPT !.pc = "start", !.s = s, !.list = fire[Tick].list \ {s}])
    /\ UNCHANGED <<sched, item, sess, run, server, crashes>>

TickEnds ==
    /\ At(Tick, {"next"}) /\ fire[Tick].list = {} /\ Awaits(Tick, Idle)
    /\ UNCHANGED <<sched, item, sess, run, server, crashes>>

RunNow(f, s) ==
    /\ cpu = NoOne /\ server = "up" /\ fire[f].pc = "idle" /\ Kept(s)
    /\ Goes(f, [Idle EXCEPT !.pc = "start", !.s = s])
    /\ UNCHANGED <<sched, item, sess, run, server, crashes>>

-----------------------------------------------------------------------------
(* _start, _prepare_work and _start_crew.                                  *)

\* Not a run: the day's budget is spent or the previous run is still at work
\* (before anything else), the workspace, gh, git or the plan fails, no issue is
\* new, the session or crew ceiling is reached, or the queue is full, which is
\* also where the model's bound on runs ends a firing.
NotStarted(f) ==
    /\ \/ At(f, {"start", "plan", "launch", "list", "fetch", "checkout", "create"})
       \/ At(f, {"submit", "first"}) /\ (~Room(fire[f].session) \/ NewRun = {})
    /\ Goes(f, [fire[f] EXCEPT !.pc = "record", !.status = "skipped"])
    /\ UNCHANGED <<sched, item, sess, run, server, crashes>>

\* Mutant: whether the session is busy is not asked.
StartTurnPilesUp(f) ==
    LET n == sched[fire[f].s].session IN
    /\ At(f, {"start"}) /\ fire[f].s \in Turns
    /\ IF Live(n) THEN Goes(f, [fire[f] EXCEPT !.pc = "submit", !.session = n])
                  ELSE Awaits(f, [fire[f] EXCEPT !.pc = "create"])
    /\ UNCHANGED <<sched, item, sess, run, server, crashes>>

\* The previous run's session, if it lives, is idle: it takes the turn.
StartTurn(f) ==
    LET n == sched[fire[f].s].session IN
    /\ At(f, {"start"}) /\ fire[f].s \in Turns /\ ~Busy(n)
    /\ IF Live(n) THEN Goes(f, [fire[f] EXCEPT !.pc = "submit", !.session = n])
                  ELSE Awaits(f, [fire[f] EXCEPT !.pc = "create"])
    /\ UNCHANGED <<sched, item, sess, run, server, crashes>>

StartWork(f) ==
    LET n == sched[fire[f].s].session IN
    /\ At(f, {"start"}) /\ fire[f].s \in Works /\ ~Busy(n)
    /\ Awaits(f, [fire[f] EXCEPT !.pc = "list", !.session = IF Live(n) THEN n ELSE 0])
    /\ UNCHANGED <<sched, item, sess, run, server, crashes>>

\* list_assigned answered; pick_issue takes one that was not attempted before.
Pick(f, i) ==
    /\ At(f, {"list"}) /\ ~Contains(sched[fire[f].s].worked, i)
    /\ Awaits(f, [fire[f] EXCEPT !.pc = "fetch", !.issue = i])
    /\ UNCHANGED <<sched, item, sess, run, server, crashes>>

\* mark_worked: appended once, the oldest forgotten.
Marked(s, i) == IF Contains(sched[s].worked, i) THEN sched[s].worked
                ELSE LET all == Append(sched[s].worked, i)
                     IN  SubSeq(all, 1 + IF Len(all) > MaxWorked THEN 1 ELSE 0, Len(all))

\* fetch answered: the issue is open, or was closed meanwhile.
Fetched(f) ==
    /\ At(f, {"fetch"}) /\ Awaits(f, [fire[f] EXCEPT !.pc = "checkout"])
    /\ UNCHANGED <<sched, item, sess, run, server, crashes>>
IssueClosed(f) ==
    /\ At(f, {"fetch"}) /\ Goes(f, [fire[f] EXCEPT !.pc = "record", !.status = "skipped"])
    /\ sched' = [sched EXCEPT ![fire[f].s].worked = Marked(fire[f].s, fire[f].issue)]
    /\ UNCHANGED <<item, sess, run, server, crashes>>

\* manager.close(): the turns end without an event, and who is subscribed to the
\* session hears no more of it, even when its id is woken later.
Shut(n) == [sess EXCEPT ![n] = [@ EXCEPT !.life = "closed", !.queue = <<>>, !.active = FALSE]]
Deafened(n) ==
    LET listens(r) == run[r].session = n /\ run[r].rec \in {"wait", "follow"} IN
    [r \in Runs |-> IF listens(r) THEN [run[r] EXCEPT !.rec = "deaf"] ELSE run[r]]
Shuts(n) == IF Live(n) THEN sess' = Shut(n) /\ run' = Deafened(n) ELSE UNCHANGED <<sess, run>>

\* The checkout is ready: the issue is noted in _item, the old session closed.
Prepared(f) ==
    LET n == fire[f].session IN
    /\ At(f, {"checkout"}) /\ item' = [item EXCEPT ![fire[f].s] = fire[f].issue]
    /\ Awaits(f, [fire[f] EXCEPT !.pc = IF n # 0 THEN "close" ELSE "create"])
    /\ Shuts(n) /\ UNCHANGED <<sched, server, crashes>>

OldClosed(f) ==
    /\ At(f, {"close"}) /\ Awaits(f, [fire[f] EXCEPT !.pc = "create", !.session = 0])
    /\ UNCHANGED <<sched, item, sess, run, server, crashes>>

\* manager.create() returned a session.
Created(f) ==
    \E n \in NewSession :
        /\ At(f, {"create"}) /\ Goes(f, [fire[f] EXCEPT !.pc = "first", !.session = n])
        /\ sess' = [sess EXCEPT ![n].life = "open"]
        /\ sched' = [sched EXCEPT ![fire[f].s].session = n]
        /\ UNCHANGED <<item, run, server, crashes>>

Made(f, r, n, rec) ==
    run' = [run EXCEPT ![r] = [NoRun EXCEPT !.s = fire[f].s, !.issue = fire[f].issue,
                                            !.session = n, !.rec = rec]]

\* subscribe() and submit(), with no await in between.  A session that was there
\* before may have no stream slot left, and then nobody follows the run.
Submit(f) ==
    LET n == fire[f].session IN
    \E r \in NewRun, followed \in IF fire[f].pc = "submit" THEN BOOLEAN ELSE {TRUE} :
        /\ At(f, {"submit", "first"}) /\ Room(n)
        /\ Made(f, r, n, IF followed THEN "wait" ELSE "none")
        /\ sess' = [sess EXCEPT ![n].queue = Append(@, r)]
        /\ Goes(f, [fire[f] EXCEPT !.pc = "record", !.run = IF followed THEN r ELSE 0,
                                   !.status = IF followed THEN "submitted" ELSE "unrecorded"])
        /\ UNCHANGED <<sched, item, server, crashes>>

StartCrew(f) ==
    /\ At(f, {"start"}) /\ fire[f].s \in Crewed /\ ~Busy(sched[fire[f].s].session)
    /\ Awaits(f, [fire[f] EXCEPT !.pc = "plan"])
    /\ UNCHANGED <<sched, item, sess, run, server, crashes>>

\* The plan is valid and there is room for a crew: launch() awaits adopt().
Planned(f) ==
    /\ At(f, {"plan"}) /\ CrewsRunning < MaxCrews
    /\ Awaits(f, [fire[f] EXCEPT !.pc = "launch"])
    /\ UNCHANGED <<sched, item, sess, run, server, crashes>>

Launched(f) ==
    \E n \in NewSession, r \in NewRun :
        /\ At(f, {"launch"}) /\ Made(f, r, n, "wait")
        /\ sess' = [sess EXCEPT ![n] = [NoSession EXCEPT !.life = "open", !.crew = TRUE,
                                                         !.queue = <<r>>]]
        /\ sched' = [sched EXCEPT ![fire[f].s].session = n]
        /\ Goes(f, [fire[f] EXCEPT !.pc = "record", !.run = r, !.status = "submitted"])
        /\ UNCHANGED <<item, server, crashes>>

\* The end of fire(): the issue _item names was attempted, if a run went out;
\* the history gets its entry and the schedule advances from now.
Advanced(f, worked, keep, due) ==
    LET h == fire[f]
        s == h.s
        all == Append(sched[s].runs, [run |-> h.run, status |-> h.status, item |-> item[s]])
        kept == SubSeq(all, 1 + IF Len(all) > keep THEN 1 ELSE 0, Len(all))
    IN  /\ At(f, {"record"})
        /\ sched' = [sched EXCEPT ![s] = [@ EXCEPT !.worked = worked, !.runs = kept, !.due = due]]
        /\ item' = [item EXCEPT ![s] = NoIssue]
        /\ IF f = Tick THEN Goes(f, [Idle EXCEPT !.pc = "next", !.list = h.list])
                       ELSE Awaits(f, Idle)
        /\ UNCHANGED <<sess, run, server, crashes>>
Worked(f) ==
    LET s == fire[f].s IN
    IF item[s] # NoIssue /\ fire[f].status # "skipped" THEN Marked(s, item[s]) ELSE sched[s].worked

\* Mutants: the issue not remembered, the history not cut, the slot of a run
\* that did not start kept.
RecordUnmarked(f) == Advanced(f, sched[fire[f].s].worked, Keep, FALSE)
RecordUncut(f) == Advanced(f, Worked(f), Keep + 1, FALSE)
RecordRetries(f) == Advanced(f, Worked(f), Keep, fire[f].status = "skipped")

Record(f) == Advanced(f, Worked(f), Keep, FALSE)

Firing(f) ==
    \/ NotStarted(f) \/ StartTurn(f) \/ StartWork(f) \/ (\E i \in Issues : Pick(f, i)) \/ Fetched(f)
    \/ IssueClosed(f) \/ Prepared(f) \/ OldClosed(f) \/ Created(f) \/ Submit(f) \/ StartCrew(f)
    \/ Planned(f) \/ Launched(f) \/ Record(f)

-----------------------------------------------------------------------------
(* The recorders: _record and _finish.                                     *)

\* The history entry of run r, if it has not aged out, gets its outcome.
Updated(r, status) ==
    LET patched(e) == IF e.run = r THEN [e EXCEPT !.status = status] ELSE e
        s == run[r].s
    IN  [sched EXCEPT ![s].runs = [k \in DOMAIN @ |-> patched(@[k])]]

Finish(r, status) ==
    /\ cpu = NoOne /\ server # "down" /\ sched' = Updated(r, status)
    /\ run' = [run EXCEPT ![r].rec = "over", ![r].file = TRUE]
    /\ UNCHANGED <<fire, item, sess, cpu, server, crashes>>

\* It has read the `result' or `error' that follows the echo of its prompt.
RecorderEnds(r) ==
    \/ run[r].rec = "result" /\ Finish(r, "done")
    \/ run[r].rec = "error" /\ Finish(r, "error")

\* Mutant: the deadline runs from the echo.
TimesOutStarted(r) == run[r].rec = "follow" /\ Finish(r, "timeout")

TimesOut(r) == Followed(r) /\ Finish(r, "timeout")
Interrupted(r) == Followed(r) /\ server = "stopping" /\ Finish(r, "interrupted")

-----------------------------------------------------------------------------
(* The sessions.                                                           *)

Elsewhere == cpu = NoOne /\ UNCHANGED <<fire, item, cpu, server, crashes>>

\* The worker takes a turn and echoes its prompt, which is what a recorder waits
\* for; two turns of one schedule have one prompt.
TakeTurn(n) ==
    LET r == Head(sess[n].queue)
        echoed(q) == run[q].rec = "wait" /\ run[q].session = n /\ r # 0 /\ run[q].s = run[r].s
    IN  /\ Elsewhere /\ Busy(n) /\ ~sess[n].active /\ UNCHANGED sched
        /\ sess' = [sess EXCEPT ![n].active = TRUE]
        /\ run' = [q \in Runs |-> IF echoed(q) THEN [run[q] EXCEPT !.rec = "follow"] ELSE run[q]]

EndTurn(n, e) ==
    LET turns == sess[n].queue
        r == Head(turns)
        ended(q) == [run[q] EXCEPT !.end = IF q = r THEN e ELSE @,
                                   !.rec = IF @ = "follow" /\ run[q].session = n THEN e ELSE @]
    IN  /\ Elsewhere /\ Live(n) /\ sess[n].active /\ UNCHANGED sched
        /\ sess' = [sess EXCEPT ![n] = [@ EXCEPT !.active = FALSE, !.queue = Tail(turns)]]
        /\ run' = [q \in Runs |-> ended(q)]

\* The user types into the schedule's session, closes it, or wakes it again; the
\* reaper closes it too.
UserTurn(n) ==
    /\ Elsewhere /\ server = "up" /\ Live(n) /\ ~sess[n].crew /\ Room(n)
    /\ sess' = [sess EXCEPT ![n].queue = Append(@, 0)] /\ UNCHANGED <<sched, run>>
Close(n) == Elsewhere /\ server = "up" /\ Live(n) /\ Shuts(n) /\ UNCHANGED sched
Wake(n) ==
    /\ Elsewhere /\ server = "up" /\ sess[n].life = "closed" /\ ~sess[n].crew
    /\ sess' = [sess EXCEPT ![n].life = "open"] /\ UNCHANGED <<sched, run>>

-----------------------------------------------------------------------------
(* The schedule routes, and time.                                          *)

Edit(s, r) == Elsewhere /\ server = "up" /\ sched' = [sched EXCEPT ![s] = r] /\ UNCHANGED sess

Create(s) ==
    /\ sched[s].life = "new" /\ Cardinality({q \in Scheds : Kept(q)}) < MaxSchedules
    /\ Cardinality({q \in Scheds : sched[q].life # "new"}) < MaxMade
    /\ \E on \in BOOLEAN : Edit(s, [sched[s] EXCEPT !.life = "kept", !.enabled = on])
    /\ UNCHANGED run
Enable(s, on) == Kept(s) /\ Edit(s, [sched[s] EXCEPT !.enabled = on]) /\ UNCHANGED run
Respec(s) == Kept(s) /\ Edit(s, [sched[s] EXCEPT !.due = FALSE]) /\ UNCHANGED run
\* Removed from the store, and its record files with it.
Delete(s) ==
    /\ Kept(s) /\ Edit(s, [sched[s] EXCEPT !.life = "gone"])
    /\ run' = [r \in Runs |-> IF run[r].s = s THEN [run[r] EXCEPT !.file = FALSE] ELSE run[r]]

\* next_run_at passes, also while the server is down.
SlotComes(s) ==
    /\ Elsewhere /\ Kept(s) /\ ~sched[s].due /\ UNCHANGED <<sess, run>>
    /\ sched' = [sched EXCEPT ![s].due = TRUE]

-----------------------------------------------------------------------------
(* The lifespan.                                                           *)

\* The requests are over; the tick is cancelled wherever it is suspended, and
\* then the recorders, which write `interrupted'.
Stop ==
    /\ server = "up" /\ cpu = NoOne /\ \A f \in Runners : fire[f].pc = "idle"
    /\ server' = "stopping" /\ fire' = [fire EXCEPT ![Tick] = [Idle EXCEPT !.pc = "ended"]]
    /\ UNCHANGED <<sched, item, sess, run, cpu, crashes>>

AllClosed == [n \in 1 .. MaxSessions |-> IF Live(n) THEN Shut(n)[n] ELSE sess[n]]

\* The recorders are over: manager.aclose().
Down ==
    /\ server = "stopping" /\ server' = "down" /\ sess' = AllClosed
    /\ \A r \in Runs : ~Followed(r)
    /\ UNCHANGED <<sched, fire, item, run, cpu, crashes>>

\* Mutant: the history is taken as it was saved.
LoadsAsSaved ==
    /\ UNCHANGED sched
    /\ fire' = [f \in Firers |-> Idle] /\ item' = [s \in Scheds |-> NoIssue]
    /\ cpu' = NoOne /\ server' = "up"

\* A new process reads the file; close_interrupted closes what nobody follows.
Loads ==
    LET closed(e) == IF e.status = "submitted" THEN [e EXCEPT !.status = "interrupted"] ELSE e IN
    /\ sched' = [s \in Scheds |->
                   [sched[s] EXCEPT !.runs = [k \in DOMAIN @ |-> closed(@[k])]]]
    /\ fire' = [f \in Firers |-> Idle] /\ item' = [s \in Scheds |-> NoIssue]
    /\ cpu' = NoOne /\ server' = "up"

Restart == server = "down" /\ Loads /\ UNCHANGED <<sess, run, crashes>>

Crash ==
    /\ crashes < MaxCrashes /\ server = "up" /\ cpu = NoOne /\ crashes' = crashes + 1
    /\ Loads /\ sess' = AllClosed
    /\ run' = [r \in Runs |-> IF Followed(r) THEN [run[r] EXCEPT !.rec = "over"] ELSE run[r]]

-----------------------------------------------------------------------------
TickStep == TickWakes \/ (\E s \in Scheds : TickNext(s)) \/ TickEnds
Recorder(r) == RecorderEnds(r) \/ TimesOut(r) \/ Interrupted(r)
Session(n) ==
    \/ TakeTurn(n) \/ (\E e \in {"result", "error"} : EndTurn(n, e))
    \/ UserTurn(n) \/ Close(n) \/ Wake(n)
Route(s) == Create(s) \/ (\E on \in BOOLEAN : Enable(s, on)) \/ Respec(s) \/ Delete(s) \/ SlotComes(s)

Next ==
    \/ TickStep \/ Stop \/ Down \/ Restart \/ Crash
    \/ \E f \in Firers : Firing(f)
    \/ \E f \in Runners, s \in Scheds : RunNow(f, s)
    \/ \E r \in Runs : Recorder(r)
    \/ \E n \in 1 .. MaxSessions : Session(n)
    \/ \E s \in Scheds : Route(s)

Spec == Init /\ [][Next]_vars

\* The loop's queue is first come first served and every await of a firing
\* returns: gh and git run under timeouts, and so does the plan's executor job;
\* a recorder has its deadline.  Turns may last for ever.
Fairness ==
    /\ SF_vars(TickStep) /\ \A f \in Firers : SF_vars(Firing(f))
    /\ \A r \in Runs : SF_vars(Recorder(r))
    /\ WF_vars(Down)
FairSpec == Spec /\ Fairness

-----------------------------------------------------------------------------
(* Properties. *)

Outcome(e) == e.status \in {"done", "error", "timeout", "interrupted"}
History == {h \in Scheds \X (1 .. Keep) : Kept(h[1]) /\ h[2] \in DOMAIN sched[h[1]].runs}
InProgress(s) ==
    {r \in Runs : run[r].s = s /\ Live(run[r].session) /\ Contains(sess[run[r].session].queue, r)}

\* No history entry stays `submitted' behind a recorder that is gone: neither a
\* crash, nor the shutdown, nor the entry coming after its recorder was made
\* leaves one that "nothing will ever upgrade".
SubmittedIsFollowed ==
    \A h \in History : LET e == sched[h[1]].runs[h[2]] IN
        e.status = "submitted" => e.run # 0 /\ Followed(e.run)

\* An outcome in the history is that of the run's own turn, never of another
\* turn of the session the recorder listens to.
OutcomeIsOwn ==
    \A h \in History : LET e == sched[h[1]].runs[h[2]] IN
        /\ e.status = "done" => run[e.run].end = "result"
        /\ e.run # 0 /\ e.status = "error" => run[e.run].end = "error"

\* scheduler.py:23 "a schedule whose previous run is still in progress is skipped
\* for this slot (an hourly task ... must not pile up turns)".
OneRunAtATime == \A s \in Scheds : Cardinality(InProgress(s)) <= 1

\* scheduler.py:84 pick_issue takes an issue "not attempted before".
IssueOnce ==
    \A q, r \in Runs : q # r /\ run[q].s = run[r].s /\ run[q].issue = run[r].issue
                       => run[q].issue = NoIssue

\* "two quick requests could ... overshoot the cap": crews being hosted count, so
\* firings and requests that are suspended in adopt() stay under AGENT_MAX_CREWS.
CrewCap == Cardinality({n \in 1 .. MaxSessions : sess[n].crew /\ Busy(n)}) <= MaxCrews

\* A slot that came is worked off, unless the schedule is turned off or removed.
DueFires ==
    \A s \in Scheds : (server = "up" /\ s \in Due) ~> (s \notin Due \/ server # "up")

\* Every recorded run gets its outcome, a session that is closed under it and a
\* restart included.
Concluded ==
    \A r \in Runs : (run[r].rec = "wait") ~> (run[r].rec = "over")

\* scheduler.py:21 "due = enabled and next_run_at <= now": the tick fires a
\* schedule only while it is in the store, enabled and due.
TickFiresDue == [][\A s \in Scheds : TickNext(s) => s \in Due]_vars

\* scheduler.py:276 "the previous one is idle: `busy` was checked above".
ClosesIdle == [][\A f \in Firers : Prepared(f) => ~Busy(fire[f].session)]_vars

\* runs.py:139 "Removing a schedule removes its runs."
RemovedWithRuns == \A r \in Runs : run[r].file => sched[run[r].s].life # "gone"

\* scheduler.py:207 "which issue a work schedule took": the entry of a run names
\* the issue the run was given.
EntryNamesItsIssue ==
    \A h \in History : LET e == sched[h[1]].runs[h[2]] IN
        e.run # 0 => e.item = run[e.run].issue
=============================================================================
