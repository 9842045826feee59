------------------------------ MODULE Sessions ------------------------------
(***************************************************************************)
(* The session manager of the always-on server (server/session.py), with   *)
(* the routes that call it and the lifespan that ends it (server/app.py).  *)
(*                                                                         *)
(* Everything runs on one asyncio loop, so code is atomic between two      *)
(* awaits.  `cpu' is the handler the loop is running: it keeps the loop    *)
(* over its consecutive steps and gives it up (NoTask) where the code      *)
(* suspends, which is where another handler may read and change the same   *)
(* session table.  A session object is <<id, n>>: the n-th object made for *)
(* that id, n = 1 for a new session and n > 1 for one woken from a record. *)
(***************************************************************************)
EXTENDS Integers, FiniteSets, Sequences, SequencesExt

CONSTANTS
    Chats, Crews,        \* ids of chat sessions and of hosted crew runs
    Reqs,                \* HTTP request handlers
    Reaper, Lifespan,    \* run_reaper and the lifespan's shutdown
    NoTask,
    MaxSessions,         \* AGENT_MAX_SESSIONS
    MaxQueue,            \* AGENT_MAX_QUEUED_TURNS
    MaxSubs,             \* AGENT_MAX_SUBSCRIBERS
    Keep,                \* AGENT_SESSION_KEEP
    MaxGen, MaxTurns, MaxCrashes   \* bounds of the model, not of the code

Ids == Chats \cup Crews
Tasks == Reqs \cup {Reaper, Lifespan}
Objs == Ids \X (1 .. MaxGen)
None == <<>>                         \* no id, no object

ASSUME BoundsAssumption ==
    /\ MaxSessions \in Nat \ {0} /\ MaxQueue \in Nat /\ MaxSubs \in Nat
    /\ Keep \in Nat \ {0} /\ MaxGen \in Nat \ {0}
    /\ MaxTurns \in Nat /\ MaxCrashes \in Nat
ASSUME IdsAssumption == Chats \cap Crews = {} /\ IsFiniteSet(Ids)
ASSUME TasksAssumption ==
    NoTask \notin Tasks /\ Reaper # Lifespan /\ {Reaper, Lifespan} \cap Reqs = {}

VARIABLES
    live,      \* SessionManager._sessions: id -> number of its object, 0 if absent
    gen,       \* objects made so far for each id
    obj,       \* the session objects: see Objects
    store,     \* SessionStore: the records, oldest first by mtime
    lock,      \* holder of SessionManager._restoring
    task,      \* the handlers: see Handlers
    cpu,       \* the handler the loop is running
    server,    \* "up", "stopping" (lifespan's `finally'), "down"
    crashes

vars == <<live, gen, obj, store, lock, task, cpu, server, crashes>>

Objects ==
    [phase : {"none", "new", "open", "closing", "closed"},   \* built, started, aclose'd
     worker : {"none", "wait", "turn", "upkeep", "run", "dead"},  \* its task
     client : BOOLEAN,            \* it holds a connected ClaudeSDKClient
     queued : 0 .. MaxQueue,      \* turns in _inbound
     turns : 0 .. MaxTurns,       \* turns its transcript holds
     idle : BOOLEAN,              \* last_active is idle_timeout ago, or more
     watch : 0 .. MaxSubs]        \* SSE subscribers

Handlers ==
    [pc : {"rest", "lock", "load", "scan", "reap", "join", "disconnect", "saving",
           "serve", "ended"},
     op : {"none", "reap", "create", "adopt", "wake", "forget", "shutdown"},
     arg : Ids \cup {None},       \* the id its request names
     mine : Objs \cup {None},     \* the object it will adopt
     cur : Objs \cup {None},      \* the object it is closing
     stale : SUBSET Ids]          \* what is left of its list of ids to close

TypeOK ==
    /\ live \in [Ids -> 0 .. MaxGen] /\ gen \in [Ids -> 0 .. MaxGen]
    /\ obj \in [Objs -> Objects] /\ task \in [Tasks -> Handlers]
    /\ store \in Seq([id : Chats, turns : 0 .. MaxTurns])
    /\ lock \in Tasks \cup {NoTask} /\ cpu \in Tasks \cup {NoTask}
    /\ server \in {"up", "stopping", "down"} /\ crashes \in 0 .. MaxCrashes

Resting == [pc |-> "rest", op |-> "none", arg |-> None, mine |-> None, cur |-> None, stale |-> {}]
Unmade == [phase |-> "none", worker |-> "none", client |-> FALSE, queued |-> 0, turns |-> 0,
           idle |-> FALSE, watch |-> 0]
Closed == [Unmade EXCEPT !.phase = "closed", !.worker = "dead"]   \* what it held is garbage
Built(n) == [Unmade EXCEPT !.phase = "new", !.turns = n]

\* An earlier process may have left a record.
Init ==
    /\ live = [i \in Ids |-> 0] /\ gen = [i \in Ids |-> 0]
    /\ obj = [o \in Objs |-> Unmade] /\ task = [t \in Tasks |-> Resting]
    /\ store \in {<<>>} \cup {<<[id |-> i, turns |-> 0]>> : i \in Chats}
    /\ lock = NoTask /\ cpu = NoTask /\ server = "up" /\ crashes = 0

-----------------------------------------------------------------------------
(* The store and the table.                                                *)

HasRecord(i) == \E k \in 1 .. Len(store) : store[k].id = i
Place(i) == CHOOSE k \in 1 .. Len(store) : store[k].id = i
Without(i) == IF HasRecord(i) THEN RemoveAt(store, Place(i)) ELSE store

\* SessionStore.save and its prune: the newest Keep records stay.  A crew host
\* has no snapshot.
Saved(o, n) ==
    LET all == Append(Without(o[1]), [id |-> o[1], turns |-> n])
    IN  IF o[1] \in Crews THEN store ELSE IF Len(all) > Keep THEN Tail(all) ELSE all

Live(i) == <<i, live[i]>>
Hosted == {i \in Ids : live[i] # 0}
Full == Cardinality(Hosted) >= MaxSessions

\* Mutant: the test for a running crew forgotten.
IdleIdsCrewsToo == {i \in Hosted : obj[Live(i)].watch = 0 /\ obj[Live(i)].idle}

\* _idle_ids: nobody watches it, it is not a running crew, it is past the timeout.
IdleIds == {i \in Hosted : /\ obj[Live(i)].watch = 0
                           /\ ~(i \in Crews /\ obj[Live(i)].worker = "run")
                           /\ obj[Live(i)].idle}

Running(t, at) == cpu = t /\ task[t].pc = at
Suspended(t, at) == cpu = NoTask /\ task[t].pc = at
\* Mutant: the lock kept.
ReleaseNever(t) == UNCHANGED lock
Release(t) == lock' = IF lock = t THEN NoTask ELSE lock
Becomes(t, h) == task' = [task EXCEPT ![t] = h]
Finish(t) == Becomes(t, Resting) /\ cpu' = NoTask

-----------------------------------------------------------------------------
(* How a handler begins: run_reaper's tick, and the routes.                *)

\* run_reaper wakes from its sleep (also after a swallowed cancellation).
Tick ==
    /\ Suspended(Reaper, "rest") /\ server # "down" /\ cpu' = Reaper
    /\ Becomes(Reaper, [Resting EXCEPT !.pc = "scan", !.op = "reap"])
    /\ UNCHANGED <<live, gen, obj, store, lock, server, crashes>>

Request(t) == Suspended(t, "rest") /\ server = "up"
Known(i) == gen[i] > 0 \/ HasRecord(i)      \* a client may have seen this id

\* The factory: the next object of an id, with a transcript of n turns.
Build(i, n) ==
    /\ gen' = [gen EXCEPT ![i] = @ + 1]
    /\ obj' = [obj EXCEPT ![<<i, gen[i] + 1>>] = Built(n)]

\* POST /sessions, which reaps before and in adopt(), or a crew route handing
\* its host to adopt().
Post(t, i) ==
    /\ Request(t) /\ gen[i] = 0 /\ ~HasRecord(i) /\ Build(i, 0) /\ cpu' = t
    /\ Becomes(t, [Resting EXCEPT !.pc = "scan", !.mine = <<i, 1>>,
                                   !.op = IF i \in Chats THEN "create" ELSE "adopt"])
    /\ UNCHANGED <<live, store, lock, server, crashes>>

\* A route that names a session: restore() answers at once when it is live;
\* otherwise it takes the restore lock, or waits for it.
Ask(t, i) ==
    LET to == IF live[i] # 0 THEN "serve" ELSE IF lock = NoTask THEN "load" ELSE "lock" IN
    /\ Request(t) /\ Known(i)
    /\ Becomes(t, [Resting EXCEPT !.pc = to, !.op = "wake", !.arg = i])
    /\ cpu' = IF to = "lock" THEN NoTask ELSE t
    /\ lock' = IF to = "load" THEN t ELSE lock
    /\ UNCHANGED <<live, gen, obj, store, server, crashes>>

LockTaken(t) ==
    /\ Suspended(t, "lock") /\ lock = NoTask /\ lock' = t /\ cpu' = t
    /\ Becomes(t, [task[t] EXCEPT !.pc = "load"])
    /\ UNCHANGED <<live, gen, obj, store, server, crashes>>

\* Under the lock: somebody woke it meanwhile.
LoadFindsLive(t) ==
    /\ Running(t, "load") /\ live[task[t].arg] # 0 /\ Release(t)
    /\ Becomes(t, [task[t] EXCEPT !.pc = "serve"])
    /\ UNCHANGED <<live, gen, obj, store, cpu, server, crashes>>

\* No record, or its workspace is no longer allowed: 404.
LoadFindsNothing(t) ==
    /\ Running(t, "load") /\ live[task[t].arg] = 0 /\ Release(t) /\ Finish(t)
    /\ UNCHANGED <<live, gen, obj, store, server, crashes>>

\* Mutant: nobody looks again once the lock is held.
LoadBuildsAgain(t) ==
    LET i == task[t].arg IN
    /\ Running(t, "load") /\ HasRecord(i) /\ gen[i] < MaxGen
    /\ Build(i, store[Place(i)].turns)
    /\ Becomes(t, [task[t] EXCEPT !.pc = "scan", !.mine = <<i, gen[i] + 1>>])
    /\ UNCHANGED <<live, store, lock, cpu, server, crashes>>

LoadBuilds(t) ==
    LET i == task[t].arg IN
    /\ Running(t, "load") /\ live[i] = 0 /\ HasRecord(i) /\ gen[i] < MaxGen
    /\ Build(i, store[Place(i)].turns)
    /\ Becomes(t, [task[t] EXCEPT !.pc = "scan", !.mine = <<i, gen[i] + 1>>])
    /\ UNCHANGED <<live, store, lock, cpu, server, crashes>>

-----------------------------------------------------------------------------
(* reap_idle: the list of ids is made once, and closed one by one.         *)

Scan(t) ==
    /\ Running(t, "scan")
    /\ Becomes(t, [task[t] EXCEPT !.pc = "reap", !.stale = IdleIds])
    /\ UNCHANGED <<live, gen, obj, store, lock, cpu, server, crashes>>

\* aclose(): a task that is not done is cancelled and awaited.
Aclose(t, o, h) ==
    LET done == obj[o].worker = "dead" IN
    /\ obj' = [obj EXCEPT ![o].phase = "closing"]
    /\ Becomes(t, [h EXCEPT !.cur = o, !.pc = IF done THEN "saving" ELSE "join"])
    /\ cpu' = IF done THEN t ELSE NoTask

\* Mutant: popped from the table only after the aclose, and then not at all.
PopLate(t, i) ==
    /\ Running(t, "reap") /\ task[t].op # "shutdown" /\ i \in task[t].stale /\ live[i] # 0
    /\ Aclose(t, Live(i), [task[t] EXCEPT !.stale = @ \ {i}])
    /\ UNCHANGED <<live, gen, store, lock, server, crashes>>

\* close(sid) on the next id of the list: popped from the table, then aclose'd.
Pop(t, i) ==
    /\ Running(t, "reap") /\ task[t].op # "shutdown" /\ i \in task[t].stale /\ live[i] # 0
    /\ live' = [live EXCEPT ![i] = 0]
    /\ Aclose(t, Live(i), [task[t] EXCEPT !.stale = @ \ {i}])
    /\ UNCHANGED <<gen, store, lock, server, crashes>>

\* close(sid) on an id somebody else closed meanwhile.
PopNothing(t, i) ==
    /\ Running(t, "reap") /\ task[t].op # "shutdown" /\ i \in task[t].stale /\ live[i] = 0
    /\ Becomes(t, [task[t] EXCEPT !.stale = @ \ {i}])
    /\ UNCHANGED <<live, gen, obj, store, lock, cpu, server, crashes>>

\* DELETE /sessions/{id}: close(id, forget=True).
Forget(t, i) ==
    LET h == [Resting EXCEPT !.pc = "reap", !.op = "forget", !.arg = i] IN
    /\ Request(t) /\ Known(i) /\ live' = [live EXCEPT ![i] = 0]
    /\ IF live[i] # 0 THEN Aclose(t, Live(i), h)
                      ELSE Becomes(t, h) /\ cpu' = t /\ UNCHANGED obj
    /\ UNCHANGED <<gen, store, lock, server, crashes>>

\* The awaited task has ended; a connected client is disconnected next.
Joined(t) ==
    LET connected == obj[task[t].cur].client IN
    /\ Suspended(t, "join") /\ obj[task[t].cur].worker = "dead"
    /\ Becomes(t, [task[t] EXCEPT !.pc = IF connected THEN "disconnect" ELSE "saving"])
    /\ cpu' = IF connected THEN NoTask ELSE t
    /\ UNCHANGED <<live, gen, obj, store, lock, server, crashes>>

Disconnected(t) ==
    /\ Suspended(t, "disconnect") /\ cpu' = t
    /\ Becomes(t, [task[t] EXCEPT !.pc = "saving"])
    /\ obj' = [obj EXCEPT ![task[t].cur].client = FALSE]
    /\ UNCHANGED <<live, gen, store, lock, server, crashes>>

\* aclose() ends by saving the record.
SaveClosed(t) ==
    LET o == task[t].cur IN
    /\ Running(t, "saving") /\ store' = Saved(o, obj[o].turns)
    /\ obj' = [obj EXCEPT ![o] = [Closed EXCEPT !.watch = obj[o].watch]]
    /\ Becomes(t, [task[t] EXCEPT !.pc = "reap", !.cur = None])
    /\ UNCHANGED <<live, gen, lock, cpu, server, crashes>>

-----------------------------------------------------------------------------
(* What a handler does once its list is empty.                             *)

Reaped(t, ops) == Running(t, "reap") /\ task[t].stale = {} /\ task[t].op \in ops

ReapEnds(t) ==
    /\ Reaped(t, {"reap"}) /\ Finish(t)
    /\ UNCHANGED <<live, gen, obj, store, lock, server, crashes>>

\* store.delete, after the aclose.
ForgetEnds(t) ==
    /\ Reaped(t, {"forget"}) /\ Finish(t) /\ store' = Without(task[t].arg)
    /\ UNCHANGED <<live, gen, obj, lock, server, crashes>>

\* create() found room and goes on to adopt(), which reaps again.
CreateGoesOn(t) ==
    /\ Reaped(t, {"create"}) /\ ~Full
    /\ Becomes(t, [task[t] EXCEPT !.pc = "scan", !.op = "adopt"])
    /\ UNCHANGED <<live, gen, obj, store, lock, cpu, server, crashes>>

Refused(t) ==
    /\ Reaped(t, {"create", "adopt", "wake"}) /\ Full /\ Finish(t) /\ Release(t)
    /\ obj' = [obj EXCEPT ![task[t].mine] = Closed]
    /\ UNCHANGED <<live, gen, store, server, crashes>>

\* Mutant: the ceiling is checked before the reap only.
AdoptUnchecked(t) ==
    LET o == task[t].mine IN
    /\ Reaped(t, {"adopt", "wake"}) /\ Release(t)
    /\ live' = [live EXCEPT ![o[1]] = o[2]]
    /\ obj' = [obj EXCEPT ![o] = [@ EXCEPT !.phase = "open", !.worker = "wait"]]
    /\ Finish(t)
    /\ UNCHANGED <<gen, store, server, crashes>>

\* Mutant: started, and not entered in the table.
AdoptUnrecorded(t) ==
    LET o == task[t].mine IN
    /\ Reaped(t, {"adopt", "wake"}) /\ ~Full /\ Release(t) /\ Finish(t)
    /\ obj' = [obj EXCEPT ![o] = [@ EXCEPT !.phase = "open", !.worker = "wait"]]
    /\ UNCHANGED <<live, gen, store, server, crashes>>

\* adopt(): start() creates the task without suspending, then the table entry.
Adopt(t) ==
    LET o == task[t].mine IN
    /\ Reaped(t, {"adopt", "wake"}) /\ ~Full /\ Release(t)
    /\ live' = [live EXCEPT ![o[1]] = o[2]]
    /\ obj' = [obj EXCEPT ![o] = [obj[o] EXCEPT !.phase = "open", !.idle = FALSE,
                                      !.worker = IF o[1] \in Crews THEN "run" ELSE "wait"]]
    /\ IF task[t].op = "wake"
       THEN Becomes(t, [task[t] EXCEPT !.pc = "serve", !.mine = None]) /\ UNCHANGED cpu
       ELSE Finish(t)
    /\ UNCHANGED <<gen, store, server, crashes>>

-----------------------------------------------------------------------------
(* What a route does with the session restore() returned: nothing awaits   *)
(* in between, so it is still the table's.                                 *)

\* The turns an object will have had once its queue is worked off.
Promised(o) == obj[o].turns + obj[o].queued + IF obj[o].worker = "turn" THEN 1 ELSE 0

Serve(t) ==
    LET o == Live(task[t].arg)
        touched == [obj EXCEPT ![o].idle = FALSE]
    IN
    /\ Running(t, "serve") /\ Finish(t)
    /\ \/ obj' = touched                                              \* GET, or refused
       \/ /\ o[1] \in Chats /\ obj[o].queued < MaxQueue /\ Promised(o) < MaxTurns
          /\ obj' = [touched EXCEPT ![o].queued = @ + 1]              \* submit
       \/ /\ obj[o].watch < MaxSubs
          /\ obj' = [touched EXCEPT ![o].watch = @ + 1]               \* subscribe
    /\ UNCHANGED <<live, gen, store, lock, server, crashes>>

\* Steps of one object, the loop running its worker or its event stream.
Alone(o, r) == cpu = NoTask /\ obj' = [obj EXCEPT ![o] = r]
               /\ UNCHANGED <<live, gen, lock, task, cpu, server, crashes>>

\* The event stream's generator ends.
Unsubscribe(o) ==
    /\ obj[o].watch > 0 /\ UNCHANGED store
    /\ Alone(o, [obj[o] EXCEPT !.watch = @ - 1, !.idle = FALSE])

\* idle_timeout passes with nothing to touch it; or a heartbeat or an event does.
GoIdle(o) == obj[o].phase = "open" /\ ~obj[o].idle /\ UNCHANGED store
             /\ Alone(o, [obj[o] EXCEPT !.idle = TRUE])
Touched(o) ==
    /\ obj[o].phase = "open" /\ obj[o].idle /\ UNCHANGED store
    /\ obj[o].watch > 0 \/ obj[o].worker \in {"turn", "run"}
    /\ Alone(o, [obj[o] EXCEPT !.idle = FALSE])

-----------------------------------------------------------------------------
(* AgentSession._run, the worker of a chat session, and a crew's task.     *)

Works(o, at) == obj[o].phase = "open" /\ obj[o].worker = at

\* Mutant: the queue not looked at.
TakeTurnUnchecked(o) ==
    /\ Works(o, "wait") /\ UNCHANGED store
    /\ Alone(o, [obj[o] EXCEPT !.queued = @ - 1, !.worker = "turn", !.idle = FALSE])

TakeTurn(o) ==
    /\ Works(o, "wait") /\ obj[o].queued > 0 /\ UNCHANGED store
    /\ Alone(o, [obj[o] EXCEPT !.queued = @ - 1, !.worker = "turn", !.idle = FALSE])

Connect(o) ==
    /\ Works(o, "turn") /\ ~obj[o].client /\ UNCHANGED store
    /\ Alone(o, [obj[o] EXCEPT !.client = TRUE, !.idle = FALSE])

\* The turn ended: the upkeep follows a completed one, the next turn an error.
EndTurn(o) ==
    /\ Works(o, "turn") /\ obj[o].turns < MaxTurns
    /\ store' = Saved(o, obj[o].turns + 1)
    /\ \E next \in {"wait"} \cup (IF obj[o].client THEN {"upkeep"} ELSE {}) :
           Alone(o, [obj[o] EXCEPT !.turns = @ + 1, !.worker = next, !.idle = FALSE])

Upkeep(o) ==
    /\ Works(o, "upkeep") /\ UNCHANGED store
    /\ Alone(o, [obj[o] EXCEPT !.worker = "wait", !.idle = FALSE])

\* Mutant: the worker swallows its cancellation and waits for the next turn.
CancelledSwallowed(o) ==
    /\ obj[o].phase = "closing" /\ obj[o].worker # "dead" /\ UNCHANGED store
    /\ Alone(o, [obj[o] EXCEPT !.worker = "wait"])

\* aclose's cancellation arrives; a turn in flight still saves in its `finally'.
Cancelled(o) ==
    /\ obj[o].phase = "closing" /\ obj[o].worker # "dead"
    /\ store' = IF obj[o].worker = "turn" THEN Saved(o, obj[o].turns) ELSE store
    /\ Alone(o, [obj[o] EXCEPT !.worker = "dead"])

CrewEnds(o) ==
    /\ Works(o, "run") /\ UNCHANGED store
    /\ Alone(o, [obj[o] EXCEPT !.worker = "dead", !.idle = FALSE])

-----------------------------------------------------------------------------
(* The lifespan's shutdown, and a crash.                                   *)

\* uvicorn has let the requests end; the lifespan cancels the reaper.  Asleep,
\* it ends.  Awaiting a worker, aclose's `except CancelledError' swallows the
\* cancellation and it goes on.  Awaiting disconnect, it ends there: its
\* session is out of the table, nothing is saved, and the SDK may or may not
\* have ended the subprocess.
Stop ==
    /\ server = "up" /\ cpu = NoTask /\ server' = "stopping"
    /\ \A t \in Reqs : task[t].pc = "rest"
    /\ \A o \in Objs : obj[o].watch = 0
    /\ Becomes(Reaper, [task[Reaper] EXCEPT !.pc = IF @ = "join" THEN @ ELSE "ended"])
    /\ IF task[Reaper].pc = "disconnect"
       THEN \E left \in BOOLEAN : obj' = [obj EXCEPT ![task[Reaper].cur].client = left]
       ELSE UNCHANGED obj
    /\ UNCHANGED <<live, gen, store, lock, cpu, crashes>>

\* `await t' returned: manager.aclose() closes what the table holds, one by one.
CloseAll ==
    /\ server = "stopping" /\ task[Reaper].pc = "ended" /\ Suspended(Lifespan, "rest")
    /\ cpu' = Lifespan
    /\ Becomes(Lifespan, [Resting EXCEPT !.pc = "reap", !.op = "shutdown", !.stale = Hosted])
    /\ UNCHANGED <<live, gen, obj, store, lock, server, crashes>>

CloseNext(i) ==
    /\ Running(Lifespan, "reap") /\ i \in task[Lifespan].stale
    /\ Aclose(Lifespan, Live(i), [task[Lifespan] EXCEPT !.stale = @ \ {i}])
    /\ UNCHANGED <<live, gen, store, lock, server, crashes>>

Down ==
    /\ Reaped(Lifespan, {"shutdown"}) /\ server' = "down" /\ live' = [i \in Ids |-> 0]
    /\ Becomes(Lifespan, [task[Lifespan] EXCEPT !.pc = "ended"]) /\ cpu' = NoTask
    /\ UNCHANGED <<gen, obj, store, lock, crashes>>

\* The process dies between two steps and a new one starts: the records are
\* all that is left.
Crash ==
    /\ crashes < MaxCrashes /\ server = "up" /\ cpu = NoTask /\ crashes' = crashes + 1
    /\ live' = [i \in Ids |-> 0] /\ lock' = NoTask
    /\ obj' = [o \in Objs |-> IF o[2] > gen[o[1]] THEN Unmade ELSE Closed]
    /\ task' = [t \in Tasks |-> Resting]
    /\ UNCHANGED <<gen, store, cpu, server>>

-----------------------------------------------------------------------------
Handler(t) ==
    \/ LockTaken(t) \/ LoadFindsLive(t) \/ LoadFindsNothing(t) \/ LoadBuilds(t)
    \/ Scan(t) \/ Joined(t) \/ Disconnected(t) \/ SaveClosed(t)
    \/ \E i \in Ids : Pop(t, i) \/ PopNothing(t, i)
    \/ ReapEnds(t) \/ ForgetEnds(t) \/ CreateGoesOn(t) \/ Refused(t) \/ Adopt(t) \/ Serve(t)
Worker(o) == TakeTurn(o) \/ Connect(o) \/ EndTurn(o) \/ Upkeep(o) \/ Cancelled(o) \/ CrewEnds(o)
Shutdown == CloseAll \/ (\E i \in Ids : CloseNext(i)) \/ Down

Next ==
    \/ Tick \/ Shutdown \/ Stop \/ Crash
    \/ \E t \in Tasks : Handler(t)
    \/ \E t \in Reqs, i \in Ids : Post(t, i) \/ Ask(t, i) \/ Forget(t, i)
    \/ \E o \in Objs : Worker(o) \/ Unsubscribe(o) \/ GoIdle(o) \/ Touched(o)

Spec == Init /\ [][Next]_vars

\* The loop's ready queue and asyncio.Lock are first come first served, so what
\* is ready again and again runs (the reaper's timer, a handler whose await is
\* over, a cancelled worker, a waiter for the lock); client.disconnect()
\* returns.  Nothing is assumed of the users, of turns and crews (they may
\* never end) or of crashes.
Fairness ==
    /\ SF_vars(Tick) /\ SF_vars(Shutdown)
    /\ \A t \in Tasks : SF_vars(Handler(t))
    /\ \A o \in Objs : SF_vars(Cancelled(o))
FairSpec == Spec /\ Fairness

-----------------------------------------------------------------------------
(* Properties. *)

\* What the steps of a handler rely on: one that runs its own code is the one
\* cpu names, one that will serve a request names a hosted session, one that is
\* closing or adopting knows its object, and only the lifespan shuts down.
Fit(t, h, c, hosted) ==
    /\ h.pc \in {"load", "scan", "reap", "saving", "serve"} => c = t
    /\ h.pc \in {"lock", "load"} => h.arg \in Ids
    /\ h.pc = "serve" => h.arg \in hosted
    /\ h.pc \in {"join", "disconnect", "saving"} => h.cur \in Objs
    /\ h.op \in {"create", "adopt", "wake"} /\ h.pc \in {"scan", "reap", "join", "disconnect", "saving"}
       => h.mine \in Objs /\ (h.op = "wake" => h.mine[1] = h.arg)
    /\ h.op = "wake" => h.arg \in Ids
    /\ h.op = "shutdown" => t = Lifespan

\* Once the server stops the requests are over, and the lifespan acts only
\* after the reaper, so what it still has to close stays in the table.
HandlerOK ==
    /\ \A t \in Tasks : Fit(t, task[t], cpu, Hosted)
    /\ server # "up" => \A t \in Reqs : task[t].pc = "rest"
    /\ task[Lifespan].pc \in {"rest", "reap", "join", "disconnect", "saving", "ended"}
    /\ task[Lifespan].pc # "rest" => task[Lifespan].op = "shutdown"
    /\ task[Lifespan].op = "shutdown" =>
         /\ server # "up" /\ task[Reaper].pc = "ended"
         /\ server = "stopping" => task[Lifespan].stale \subseteq Hosted
         /\ server = "down" => task[Lifespan].pc = "ended"

\* The ceiling (AGENT_MAX_SESSIONS): adopt() re-checks after its own reap and
\* inserts with no await in between, whatever other creates, wakes and crews
\* were suspended in theirs.
Ceiling == Cardinality(Hosted) <= MaxSessions

\* No session is lost track of: an object whose task was started and that
\* nobody is closing is the one its id names in the table, so a route, the
\* reaper and the shutdown can reach it.
OpenIsHosted == \A o \in Objs : obj[o].phase = "open" => live[o[1]] = o[2]

\* Waking an id is exclusive, "two requests for one id wake it once": a live
\* session is never replaced in the table by another object.
NeverReplaced == [][\A i \in Ids : live[i] # 0 => live'[i] \in {0, live[i]}]_vars

\* The table as SessionTable promises it, through every await of the handlers, a
\* shutdown and a crash: an object that runs is the one its id names, the newest
\* made for it; "two requests for one id wake it once", as another is made only
\* when none is named; and there is always room for what is entered.
Open == {o \in Objs : obj[o].phase = "open"}
Table == INSTANCE SessionTable WITH
    Sids <- Ids, Room <- MaxSessions, named <- live, made <- gen, running <- Open
TableKept == Table!TableSpec

Closes(o) == obj[o].phase = "open" /\ obj'[o].phase = "closing"
ClosedFor(o, ops) == \E t \in Tasks : task'[t].cur = o /\ task'[t].op \in ops

\* "Nor is a running crew" reaped: even with a list of ids made before a
\* suspension, only DELETE and the shutdown close a crew that is at work.
BusyCrewNotReaped ==
    [][\A o \in Objs : Closes(o) /\ obj[o].worker = "run" => ClosedFor(o, {"forget", "shutdown"})]_vars

\* A message is accepted only by an object that will work on it: the one its
\* id names, open, never one that is being put to sleep.
AcceptedIsWorkedOn ==
    [][\A o \in Objs : obj'[o].queued > obj[o].queued =>
         live[o[1]] = o[2] /\ obj[o].phase = "open" /\ obj[o].worker # "dead"]_vars

\* An idle session that nobody watches and that is not a running crew is put
\* to sleep, unless something touches it.
IdleSleeps ==
    \A i \in Ids : (server = "up" /\ i \in IdleIds) ~> (i \notin IdleIds \/ server # "up")

\* Every request is answered, those that wait for the restore lock included.
Answered == \A t \in Reqs : task[t].pc # "rest" ~> task[t].pc = "rest"

\* session.py:620 "a watching browser never has its agent reaped mid-run".
WatchedNotReaped ==
    [][\A o \in Objs : Closes(o) /\ obj[o].watch > 0 => ClosedFor(o, {"forget"})]_vars

\* session.py:3 "holds one long-lived ClaudeSDKClient per session".
OneClientPerSession == \A i \in Ids : Cardinality({o \in Objs : o[1] = i /\ obj[o].client}) <= 1

\* session.py:610 "discarded for good": when DELETE returns, the session has no
\* object left but one another DELETE is closing, so nothing can save it again.
DiscardedForGood ==
    [][\A t \in Reqs, o \in Objs :
         /\ task[t].op = "forget" /\ task[t].arg = o[1] /\ task'[t] = Resting
         /\ crashes' = crashes /\ obj'[o].phase \notin {"none", "closed"}
         => \E u \in Reqs : task'[u].cur = o /\ task'[u].op = "forget"]_vars

\* app.py:226 "shutting the server down must not orphan them": the shutdown gets
\* to manager.aclose() and through it.
ShutdownCompletes == server = "stopping" ~> server = "down"
=============================================================================
