--------------------------- MODULE SessionsProofs ---------------------------
(***************************************************************************)
(* Theorems about Sessions for every set of ids, handlers and bounds.      *)
(***************************************************************************)
EXTENDS Sessions, TLAPS, FiniteSetTheorems, SequenceTheorems

Record == [id : Chats, turns : 0 .. MaxTurns]

LEMMA InitTypeOK == Init => TypeOK
<1> SUFFICES ASSUME Init PROVE TypeOK OBVIOUS
<1>1. Unmade \in Objects BY BoundsAssumption DEF Unmade, Objects
<1>2. Resting \in Handlers BY DEF Resting, Handlers
<1>3. store \in Seq(Record)
  <2>1. CASE store = <<>> BY <2>1, EmptySeq
  <2>2. ASSUME NEW i \in Chats, store = <<[id |-> i, turns |-> 0]>> PROVE store \in Seq(Record)
    <3>1. [id |-> i, turns |-> 0] \in Record BY BoundsAssumption DEF Record
    <3> QED BY <2>2, <3>1
  <2> QED BY <2>1, <2>2 DEF Init
<1> QED BY <1>1, <1>2, <1>3, BoundsAssumption DEF Init, TypeOK, Record

\* SessionStore.delete and SessionStore.save keep the store a sequence of records.
LEMMA WithoutType == ASSUME TypeOK, NEW i PROVE Without(i) \in Seq(Record)
<1>1. store \in Seq(Record) BY DEF TypeOK, Record
<1>2. CASE HasRecord(i)
  <2>1. Place(i) \in 1 .. Len(store) BY <1>2 DEF HasRecord, Place
  <2> QED BY <1>1, <1>2, <2>1 DEF Without, RemoveAt
<1> QED BY <1>1, <1>2 DEF Without

LEMMA SavedType ==
    ASSUME TypeOK, NEW o \in Objs, NEW n \in 0 .. MaxTurns
    PROVE  Saved(o, n) \in Seq(Record)
<1>1. store \in Seq(Record) /\ Without(o[1]) \in Seq(Record) BY WithoutType DEF TypeOK, Record
<1>2. CASE o[1] \in Crews BY <1>1, <1>2 DEF Saved
<1>3. CASE o[1] \notin Crews
  <2>1. [id |-> o[1], turns |-> n] \in Record BY <1>3 DEF Record, Objs, Ids
  <2> DEFINE all == Append(Without(o[1]), [id |-> o[1], turns |-> n])
  <2>2. all \in Seq(Record) /\ Len(all) > 0 BY <1>1, <2>1
  <2> HIDE DEF all
  <2>3. Tail(all) \in Seq(Record) BY <2>2
  <2> QED BY <1>3, <2>2, <2>3 DEF Saved, all
<1> QED BY <1>2, <1>3

IInv == TypeOK /\ HandlerOK

LEMMA InitIInv == Init => IInv
<1> SUFFICES ASSUME Init PROVE IInv OBVIOUS
<1>1. TypeOK BY InitTypeOK
<1>2. HandlerOK BY TasksAssumption DEF Init, HandlerOK, Fit, Resting, Tasks, Hosted
<1> QED BY <1>1, <1>2 DEF IInv

\* One handler moves to a state that fits; the others have nothing to fear
\* from it because none of them is running.
LEMMA HandlerMoves ==
    ASSUME IInv, UNCHANGED server,
           NEW t \in Tasks, NEW h \in Handlers, Becomes(t, h), task[t].pc # "ended",
           cpu \in {t, NoTask}, cpu' \in {t, NoTask}, Fit(t, h, cpu', Hosted'),
           t \in Reqs /\ task[t].pc = "rest" => server = "up",
           t = Lifespan => /\ task[t].pc # "rest" /\ UNCHANGED live
                           /\ h.op = "shutdown" /\ h.stale \subseteq task[t].stale
                           /\ h.pc \in {"reap", "join", "disconnect", "saving"}
    PROVE  HandlerOK' /\ (task \in [Tasks -> Handlers])'
<1> USE TasksAssumption DEF IInv, TypeOK
<1>1. task' \in [Tasks -> Handlers] /\ task'[t] = h /\ \A u \in Tasks : u # t => task'[u] = task[u]
  BY DEF Becomes
<1>2. \A u \in Tasks : Fit(u, task'[u], cpu', Hosted')
  <2> SUFFICES ASSUME NEW u \in Tasks, u # t PROVE Fit(u, task[u], cpu', Hosted')
    BY <1>1
  <2>1. task[u].pc \notin {"load", "scan", "reap", "saving", "serve"}
    BY DEF HandlerOK, Fit, Tasks
  <2> QED BY <2>1 DEF HandlerOK, Fit
<1>3. CASE t \in Reqs
  <2>1. server = "up" BY <1>3 DEF HandlerOK
  <2> QED BY <1>1, <1>2, <1>3, <2>1 DEF HandlerOK, Tasks
<1>4. CASE t = Reaper
  BY <1>1, <1>2, <1>4 DEF HandlerOK, Tasks
<1>5. CASE t = Lifespan
  <2>1. Hosted' = Hosted BY <1>5 DEF Hosted
  <2> QED BY <1>1, <1>2, <1>5, <2>1 DEF HandlerOK, Tasks
<1> QED BY <1>3, <1>4, <1>5 DEF Tasks

\* What the factory builds.
LEMMA BuiltType ==
    ASSUME NEW n \in 0 .. MaxTurns
    PROVE  Built(n) \in Objects
<1>1. Unmade \in Objects BY BoundsAssumption DEF Unmade, Objects
<1> QED BY <1>1 DEF Built, Objects

\* Each step of a handler: the record h it moves to is typed and fits, and the
\* other variables keep their types.
LEMMA HandlerSteps == ASSUME IInv, NEW t \in Tasks, Handler(t) PROVE IInv'
<1> USE BoundsAssumption, TasksAssumption
<1>1. TypeOK /\ HandlerOK BY DEF IInv
<1>2. Unmade \in Objects /\ Closed \in Objects /\ Resting \in Handlers
  <2>1. Unmade \in Objects BY DEF Unmade, Objects
  <2> QED BY <2>1 DEF Closed, Objects, Resting, Handlers
<1>3. task[t] \in Handlers /\ Fit(t, task[t], cpu, Hosted) BY <1>1 DEF TypeOK, HandlerOK
<1>4. ASSUME LockTaken(t) PROVE IInv'
  <2> DEFINE h == [task[t] EXCEPT !.pc = "load"]
  <2>1. h \in Handlers /\ h.pc = "load" /\ h.op = task[t].op /\ h.arg = task[t].arg /\ h.mine = task[t].mine /\ h.cur = task[t].cur /\ h.stale = task[t].stale
    BY <1>1, <1>2, <1>3, <1>4 DEF Handlers, Resting, LockTaken, Suspended
  <2>2. Becomes(t, h) /\ UNCHANGED server BY <1>4 DEF LockTaken, Suspended
  <2> HIDE DEF h
  <2>3. cpu \in {t, NoTask} /\ cpu' \in {t, NoTask} /\ task[t].pc # "ended"
    BY <1>4 DEF LockTaken, Suspended
  <2>4. HandlerOK' /\ (task \in [Tasks -> Handlers])'
    <3>1. Fit(t, h, cpu', Hosted') BY <1>1, <1>2, <1>3, <1>4, <2>1 DEF Fit, Hosted, Handlers, LockTaken, Suspended
    <3>2. t = Lifespan => /\ task[t].pc # "rest" /\ UNCHANGED live
                          /\ h.op = "shutdown" /\ h.stale \subseteq task[t].stale
                          /\ h.pc \in {"reap", "join", "disconnect", "saving"}
      BY <1>1, <1>2, <1>3, <1>4, <2>1 DEF HandlerOK, LockTaken, Suspended
    <3>3. task[t].pc # "rest" BY <1>4 DEF LockTaken, Suspended
    <3> QED BY <2>1, <2>2, <2>3, <3>1, <3>2, <3>3, HandlerMoves
  <2>5. TypeOK' BY <1>1, <1>2, <1>3, <1>4, <2>1, <2>4 DEF LockTaken, Suspended, TypeOK, Record
  <2> QED BY <2>4, <2>5 DEF IInv
<1>5. ASSUME LoadFindsLive(t) PROVE IInv'
  <2> DEFINE h == [task[t] EXCEPT !.pc = "serve"]
  <2>1. h \in Handlers /\ h.pc = "serve" /\ h.op = task[t].op /\ h.arg = task[t].arg /\ h.mine = task[t].mine /\ h.cur = task[t].cur /\ h.stale = task[t].stale
    BY <1>1, <1>2, <1>3, <1>5 DEF Handlers, Resting, LoadFindsLive, Running, Release, Fit
  <2>2. Becomes(t, h) /\ UNCHANGED server BY <1>5 DEF LoadFindsLive, Running, Release, Fit
  <2> HIDE DEF h
  <2>3. cpu \in {t, NoTask} /\ cpu' \in {t, NoTask} /\ task[t].pc # "ended"
    BY <1>5 DEF LoadFindsLive, Running, Release, Fit
  <2>4. HandlerOK' /\ (task \in [Tasks -> Handlers])'
    <3>1. Fit(t, h, cpu', Hosted') BY <1>1, <1>2, <1>3, <1>5, <2>1 DEF Fit, Hosted, Handlers, LoadFindsLive, Running, Release, Fit
    <3>2. t = Lifespan => /\ task[t].pc # "rest" /\ UNCHANGED live
                          /\ h.op = "shutdown" /\ h.stale \subseteq task[t].stale
                          /\ h.pc \in {"reap", "join", "disconnect", "saving"}
      BY <1>1, <1>2, <1>3, <1>5, <2>1 DEF HandlerOK, LoadFindsLive, Running, Release, Fit
    <3>3. task[t].pc # "rest" BY <1>5 DEF LoadFindsLive, Running, Release, Fit
    <3> QED BY <2>1, <2>2, <2>3, <3>1, <3>2, <3>3, HandlerMoves
  <2>5. TypeOK' BY <1>1, <1>2, <1>3, <1>5, <2>1, <2>4 DEF LoadFindsLive, Running, Release, Fit, TypeOK, Record
  <2> QED BY <2>4, <2>5 DEF IInv
<1>6. ASSUME LoadFindsNothing(t) PROVE IInv'
  <2> DEFINE h == Resting
  <2>1. h \in Handlers /\ h.pc = "rest" /\ h.op = "none"
    BY <1>1, <1>2, <1>3, <1>6 DEF Handlers, Resting, LoadFindsNothing, Running, Release, Finish, Becomes
  <2>2. Becomes(t, h) /\ UNCHANGED server BY <1>6 DEF LoadFindsNothing, Running, Release, Finish, Becomes
  <2> HIDE DEF h
  <2>3. cpu \in {t, NoTask} /\ cpu' \in {t, NoTask} /\ task[t].pc # "ended"
    BY <1>6 DEF LoadFindsNothing, Running, Release, Finish, Becomes
  <2>4. HandlerOK' /\ (task \in [Tasks -> Handlers])'
    <3>1. Fit(t, h, cpu', Hosted') BY <1>1, <1>2, <1>3, <1>6, <2>1 DEF Fit, Hosted, Handlers, LoadFindsNothing, Running, Release, Finish, Becomes
    <3>2. t = Lifespan => /\ task[t].pc # "rest" /\ UNCHANGED live
                          /\ h.op = "shutdown" /\ h.stale \subseteq task[t].stale
                          /\ h.pc \in {"reap", "join", "disconnect", "saving"}
      BY <1>1, <1>2, <1>3, <1>6, <2>1 DEF HandlerOK, LoadFindsNothing, Running, Release, Finish, Becomes
    <3>3. task[t].pc # "rest" BY <1>6 DEF LoadFindsNothing, Running, Release, Finish, Becomes
    <3> QED BY <2>1, <2>2, <2>3, <3>1, <3>2, <3>3, HandlerMoves
  <2>5. TypeOK' BY <1>1, <1>2, <1>3, <1>6, <2>1, <2>4 DEF LoadFindsNothing, Running, Release, Finish, Becomes, TypeOK, Record
  <2> QED BY <2>4, <2>5 DEF IInv
<1>7. ASSUME LoadBuilds(t) PROVE IInv'
  <2> DEFINE h == [task[t] EXCEPT !.pc = "scan", !.mine = <<task[t].arg, gen[task[t].arg] + 1>>]
  <2>0. /\ <<task[t].arg, gen[task[t].arg] + 1>> \in Objs /\ gen[task[t].arg] + 1 \in 0 .. MaxGen
        /\ Built(store[Place(task[t].arg)].turns) \in Objects
    <3>1. task[t].arg \in Ids /\ gen[task[t].arg] < MaxGen /\ HasRecord(task[t].arg)
      BY <1>3, <1>7 DEF LoadBuilds, Running, Fit
    <3>2. Place(task[t].arg) \in 1 .. Len(store) BY <3>1 DEF HasRecord, Place
    <3>3. store[Place(task[t].arg)] \in Record BY <1>1, <3>2, ElementOfSeq DEF TypeOK, Record
    <3>4. store[Place(task[t].arg)].turns \in 0 .. MaxTurns BY <3>3 DEF Record
    <3>6. gen[task[t].arg] + 1 \in 1 .. MaxGen BY <1>1, <3>1 DEF TypeOK
    <3> QED BY <3>1, <3>4, <3>6, BuiltType DEF Objs
  <2>1. h \in Handlers /\ h.pc = "scan" /\ h.op = task[t].op /\ h.arg = task[t].arg /\ h.mine \in Objs /\ h.mine[1] = h.arg /\ h.stale = task[t].stale
    BY <1>1, <1>2, <1>3, <1>7, <2>0 DEF Handlers, Resting, LoadBuilds, Running, Build
  <2>2. Becomes(t, h) /\ UNCHANGED server BY <1>7 DEF LoadBuilds, Running, Build
  <2> HIDE DEF h
  <2>3. cpu \in {t, NoTask} /\ cpu' \in {t, NoTask} /\ task[t].pc # "ended"
    BY <1>7 DEF LoadBuilds, Running, Build
  <2>4. HandlerOK' /\ (task \in [Tasks -> Handlers])'
    <3>1. Fit(t, h, cpu', Hosted') BY <1>1, <1>2, <1>3, <1>7, <2>0, <2>1 DEF Fit, Hosted, Handlers, LoadBuilds, Running, Build
    <3>2. t = Lifespan => /\ task[t].pc # "rest" /\ UNCHANGED live
                          /\ h.op = "shutdown" /\ h.stale \subseteq task[t].stale
                          /\ h.pc \in {"reap", "join", "disconnect", "saving"}
      BY <1>1, <1>2, <1>3, <1>7, <2>0, <2>1 DEF HandlerOK, LoadBuilds, Running, Build
    <3>3. task[t].pc # "rest" BY <1>7 DEF LoadBuilds, Running, Build
    <3> QED BY <2>1, <2>2, <2>3, <3>1, <3>2, <3>3, HandlerMoves
  <2>5. TypeOK' BY <1>1, <1>2, <1>3, <1>7, <2>0, <2>1, <2>4 DEF LoadBuilds, Running, Build, TypeOK, Record
  <2> QED BY <2>4, <2>5 DEF IInv
<1>8. ASSUME Scan(t) PROVE IInv'
  <2> DEFINE h == [task[t] EXCEPT !.pc = "reap", !.stale = IdleIds]
  <2>1. h \in Handlers /\ h.pc = "reap" /\ h.op = task[t].op /\ h.arg = task[t].arg /\ h.mine = task[t].mine
    BY <1>1, <1>2, <1>3, <1>8 DEF Handlers, Resting, Scan, Running, IdleIds, Hosted
  <2>2. Becomes(t, h) /\ UNCHANGED server BY <1>8 DEF Scan, Running, IdleIds, Hosted
  <2> HIDE DEF h
  <2>3. cpu \in {t, NoTask} /\ cpu' \in {t, NoTask} /\ task[t].pc # "ended"
    BY <1>8 DEF Scan, Running, IdleIds, Hosted
  <2>4. HandlerOK' /\ (task \in [Tasks -> Handlers])'
    <3>1. Fit(t, h, cpu', Hosted') BY <1>1, <1>2, <1>3, <1>8, <2>1 DEF Fit, Hosted, Handlers, Scan, Running, IdleIds, Hosted
    <3>2. t = Lifespan => /\ task[t].pc # "rest" /\ UNCHANGED live
                          /\ h.op = "shutdown" /\ h.stale \subseteq task[t].stale
                          /\ h.pc \in {"reap", "join", "disconnect", "saving"}
      BY <1>1, <1>2, <1>3, <1>8, <2>1 DEF HandlerOK, Scan, Running, IdleIds, Hosted
    <3>3. task[t].pc # "rest" BY <1>8 DEF Scan, Running, IdleIds, Hosted
    <3> QED BY <2>1, <2>2, <2>3, <3>1, <3>2, <3>3, HandlerMoves
  <2>5. TypeOK' BY <1>1, <1>2, <1>3, <1>8, <2>1, <2>4 DEF Scan, Running, IdleIds, Hosted, TypeOK, Record
  <2> QED BY <2>4, <2>5 DEF IInv
<1>9. ASSUME Joined(t) PROVE IInv'
  <2> DEFINE h == [task[t] EXCEPT !.pc = IF obj[task[t].cur].client THEN "disconnect" ELSE "saving"]
  <2>1. h \in Handlers /\ (h.pc = "disconnect" \/ (h.pc = "saving" /\ cpu' = t)) /\ h.op = task[t].op /\ h.arg = task[t].arg /\ h.mine = task[t].mine /\ h.cur = task[t].cur /\ h.stale = task[t].stale
    BY <1>1, <1>2, <1>3, <1>9 DEF Handlers, Resting, Joined, Suspended, Becomes
  <2>2. Becomes(t, h) /\ UNCHANGED server BY <1>9 DEF Joined, Suspended, Becomes
  <2> HIDE DEF h
  <2>3. cpu \in {t, NoTask} /\ cpu' \in {t, NoTask} /\ task[t].pc # "ended"
    BY <1>9 DEF Joined, Suspended, Becomes
  <2>4. HandlerOK' /\ (task \in [Tasks -> Handlers])'
    <3>1. Fit(t, h, cpu', Hosted') BY <1>1, <1>2, <1>3, <1>9, <2>1 DEF Fit, Hosted, Handlers, Joined, Suspended, Becomes
    <3>2. t = Lifespan => /\ task[t].pc # "rest" /\ UNCHANGED live
                          /\ h.op = "shutdown" /\ h.stale \subseteq task[t].stale
                          /\ h.pc \in {"reap", "join", "disconnect", "saving"}
      BY <1>1, <1>2, <1>3, <1>9, <2>1 DEF HandlerOK, Joined, Suspended, Becomes
    <3>3. task[t].pc # "rest" BY <1>9 DEF Joined, Suspended, Becomes
    <3> QED BY <2>1, <2>2, <2>3, <3>1, <3>2, <3>3, HandlerMoves
  <2>5. TypeOK' BY <1>1, <1>2, <1>3, <1>9, <2>1, <2>4 DEF Joined, Suspended, Becomes, TypeOK, Record
  <2> QED BY <2>4, <2>5 DEF IInv
<1>10. ASSUME SaveClosed(t) PROVE IInv'
  <2> DEFINE h == [task[t] EXCEPT !.pc = "reap", !.cur = None]
  <2>0. /\ [Closed EXCEPT !.watch = obj[task[t].cur].watch] \in Objects
        /\ Saved(task[t].cur, obj[task[t].cur].turns) \in Seq(Record)
    <3>1. task[t].cur \in Objs BY <1>3, <1>10 DEF SaveClosed, Running, Fit
    <3>2. obj[task[t].cur] \in Objects BY <1>1, <3>1 DEF TypeOK
    <3> QED BY <1>1, <1>2, <3>1, <3>2, SavedType DEF Objects
  <2>1. h \in Handlers /\ h.pc = "reap" /\ h.op = task[t].op /\ h.arg = task[t].arg /\ h.mine = task[t].mine /\ h.stale = task[t].stale
    BY <1>1, <1>2, <1>3, <1>10, <2>0 DEF Handlers, Resting, SaveClosed, Running
  <2>2. Becomes(t, h) /\ UNCHANGED server BY <1>10 DEF SaveClosed, Running
  <2> HIDE DEF h
  <2>3. cpu \in {t, NoTask} /\ cpu' \in {t, NoTask} /\ task[t].pc # "ended"
    BY <1>10 DEF SaveClosed, Running
  <2>4. HandlerOK' /\ (task \in [Tasks -> Handlers])'
    <3>1. Fit(t, h, cpu', Hosted') BY <1>1, <1>2, <1>3, <1>10, <2>0, <2>1 DEF Fit, Hosted, Handlers, SaveClosed, Running
    <3>2. t = Lifespan => /\ task[t].pc # "rest" /\ UNCHANGED live
                          /\ h.op = "shutdown" /\ h.stale \subseteq task[t].stale
                          /\ h.pc \in {"reap", "join", "disconnect", "saving"}
      BY <1>1, <1>2, <1>3, <1>10, <2>0, <2>1 DEF HandlerOK, SaveClosed, Running
    <3>3. task[t].pc # "rest" BY <1>10 DEF SaveClosed, Running
    <3> QED BY <2>1, <2>2, <2>3, <3>1, <3>2, <3>3, HandlerMoves
  <2>5. TypeOK' BY <1>1, <1>2, <1>3, <1>10, <2>0, <2>1, <2>4 DEF SaveClosed, Running, TypeOK, Record
  <2> QED BY <2>4, <2>5 DEF IInv
<1>11. ASSUME NEW i \in Ids, Pop(t, i) PROVE IInv'
  <2> DEFINE h == [[task[t] EXCEPT !.stale = @ \ {i}] EXCEPT !.cur = Live(i), !.pc = IF obj[Live(i)].worker = "dead" THEN "saving" ELSE "join"]
  <2>0. Live(i) \in Objs /\ [obj[Live(i)] EXCEPT !.phase = "closing"] \in Objects
    <3>1. Live(i) \in Objs BY <1>1, <1>11 DEF Pop, Live, Objs, TypeOK
    <3>2. obj[Live(i)] \in Objects BY <1>1, <3>1 DEF TypeOK
    <3>3. [obj[Live(i)] EXCEPT !.phase = "closing"] \in Objects BY <3>2 DEF Objects
    <3> QED BY <3>1, <3>3
  <2>1. h \in Handlers /\ (h.pc = "join" \/ (h.pc = "saving" /\ cpu' = t)) /\ h.op = task[t].op /\ h.arg = task[t].arg /\ h.mine = task[t].mine /\ h.cur = Live(i)
    BY <1>1, <1>2, <1>3, <1>11, <2>0 DEF Handlers, Resting, Pop, Running, Aclose
  <2>2. Becomes(t, h) /\ UNCHANGED server BY <1>11 DEF Pop, Running, Aclose
  <2> HIDE DEF h
  <2>3. cpu \in {t, NoTask} /\ cpu' \in {t, NoTask} /\ task[t].pc # "ended"
    BY <1>11 DEF Pop, Running, Aclose
  <2>4. HandlerOK' /\ (task \in [Tasks -> Handlers])'
    <3>1. Fit(t, h, cpu', Hosted') BY <1>1, <1>2, <1>3, <1>11, <2>0, <2>1 DEF Fit, Hosted, Handlers, Pop, Running, Aclose
    <3>2. t = Lifespan => /\ task[t].pc # "rest" /\ UNCHANGED live
                          /\ h.op = "shutdown" /\ h.stale \subseteq task[t].stale
                          /\ h.pc \in {"reap", "join", "disconnect", "saving"}
      BY <1>1, <1>2, <1>3, <1>11, <2>0, <2>1 DEF HandlerOK, Pop, Running, Aclose
    <3>3. task[t].pc # "rest" BY <1>11 DEF Pop, Running, Aclose
    <3> QED BY <2>1, <2>2, <2>3, <3>1, <3>2, <3>3, HandlerMoves
  <2>5. TypeOK' BY <1>1, <1>2, <1>3, <1>11, <2>0, <2>1, <2>4 DEF Pop, Running, Aclose, TypeOK, Record
  <2> QED BY <2>4, <2>5 DEF IInv
<1>12. ASSUME NEW i \in Ids, PopNothing(t, i) PROVE IInv'
  <2> DEFINE h == [task[t] EXCEPT !.stale = @ \ {i}]
  <2>1. h \in Handlers /\ h.pc = task[t].pc /\ h.op = task[t].op /\ h.arg = task[t].arg /\ h.mine = task[t].mine
    BY <1>1, <1>2, <1>3, <1>12 DEF Handlers, Resting, PopNothing, Running
  <2>2. Becomes(t, h) /\ UNCHANGED server BY <1>12 DEF PopNothing, Running
  <2> HIDE DEF h
  <2>3. cpu \in {t, NoTask} /\ cpu' \in {t, NoTask} /\ task[t].pc # "ended"
    BY <1>12 DEF PopNothing, Running
  <2>4. HandlerOK' /\ (task \in [Tasks -> Handlers])'
    <3>1. Fit(t, h, cpu', Hosted') BY <1>1, <1>2, <1>3, <1>12, <2>1 DEF Fit, Hosted, Handlers, PopNothing, Running
    <3>2. t = Lifespan => /\ task[t].pc # "rest" /\ UNCHANGED live
                          /\ h.op = "shutdown" /\ h.stale \subseteq task[t].stale
                          /\ h.pc \in {"reap", "join", "disconnect", "saving"}
      BY <1>1, <1>2, <1>3, <1>12, <2>1 DEF HandlerOK, PopNothing, Running
    <3>3. task[t].pc # "rest" BY <1>12 DEF PopNothing, Running
    <3> QED BY <2>1, <2>2, <2>3, <3>1, <3>2, <3>3, HandlerMoves
  <2>5. TypeOK' BY <1>1, <1>2, <1>3, <1>12, <2>1, <2>4 DEF PopNothing, Running, TypeOK, Record
  <2> QED BY <2>4, <2>5 DEF IInv
<1>13. ASSUME ReapEnds(t) PROVE IInv'
  <2> DEFINE h == Resting
  <2>1. h \in Handlers /\ h.pc = "rest" /\ h.op = "none"
    BY <1>1, <1>2, <1>3, <1>13 DEF Handlers, Resting, ReapEnds, Running, Reaped, Finish, Becomes
  <2>2. Becomes(t, h) /\ UNCHANGED server BY <1>13 DEF ReapEnds, Running, Reaped, Finish, Becomes
  <2> HIDE DEF h
  <2>3. cpu \in {t, NoTask} /\ cpu' \in {t, NoTask} /\ task[t].pc # "ended"
    BY <1>13 DEF ReapEnds, Running, Reaped, Finish, Becomes
  <2>4. HandlerOK' /\ (task \in [Tasks -> Handlers])'
    <3>1. Fit(t, h, cpu', Hosted') BY <1>1, <1>2, <1>3, <1>13, <2>1 DEF Fit, Hosted, Handlers, ReapEnds, Running, Reaped, Finish, Becomes
    <3>2. t = Lifespan => /\ task[t].pc # "rest" /\ UNCHANGED live
                          /\ h.op = "shutdown" /\ h.stale \subseteq task[t].stale
                          /\ h.pc \in {"reap", "join", "disconnect", "saving"}
      BY <1>1, <1>2, <1>3, <1>13, <2>1 DEF HandlerOK, ReapEnds, Running, Reaped, Finish, Becomes
    <3>3. task[t].pc # "rest" BY <1>13 DEF ReapEnds, Running, Reaped, Finish, Becomes
    <3> QED BY <2>1, <2>2, <2>3, <3>1, <3>2, <3>3, HandlerMoves
  <2>5. TypeOK' BY <1>1, <1>2, <1>3, <1>13, <2>1, <2>4 DEF ReapEnds, Running, Reaped, Finish, Becomes, TypeOK, Record
  <2> QED BY <2>4, <2>5 DEF IInv
<1>14. ASSUME ForgetEnds(t) PROVE IInv'
  <2> DEFINE h == Resting
  <2>0. Without(task[t].arg) \in Seq(Record) BY <1>1, WithoutType
  <2>1. h \in Handlers /\ h.pc = "rest" /\ h.op = "none"
    BY <1>1, <1>2, <1>3, <1>14, <2>0 DEF Handlers, Resting, ForgetEnds, Running, Reaped, Finish, Becomes
  <2>2. Becomes(t, h) /\ UNCHANGED server BY <1>14 DEF ForgetEnds, Running, Reaped, Finish, Becomes
  <2> HIDE DEF h
  <2>3. cpu \in {t, NoTask} /\ cpu' \in {t, NoTask} /\ task[t].pc # "ended"
    BY <1>14 DEF ForgetEnds, Running, Reaped, Finish, Becomes
  <2>4. HandlerOK' /\ (task \in [Tasks -> Handlers])'
    <3>1. Fit(t, h, cpu', Hosted') BY <1>1, <1>2, <1>3, <1>14, <2>0, <2>1 DEF Fit, Hosted, Handlers, ForgetEnds, Running, Reaped, Finish, Becomes
    <3>2. t = Lifespan => /\ task[t].pc # "rest" /\ UNCHANGED live
                          /\ h.op = "shutdown" /\ h.stale \subseteq task[t].stale
                          /\ h.pc \in {"reap", "join", "disconnect", "saving"}
      BY <1>1, <1>2, <1>3, <1>14, <2>0, <2>1 DEF HandlerOK, ForgetEnds, Running, Reaped, Finish, Becomes
    <3>3. task[t].pc # "rest" BY <1>14 DEF ForgetEnds, Running, Reaped, Finish, Becomes
    <3> QED BY <2>1, <2>2, <2>3, <3>1, <3>2, <3>3, HandlerMoves
  <2>5. TypeOK' BY <1>1, <1>2, <1>3, <1>14, <2>0, <2>1, <2>4 DEF ForgetEnds, Running, Reaped, Finish, Becomes, TypeOK, Record
  <2> QED BY <2>4, <2>5 DEF IInv
<1>15. ASSUME CreateGoesOn(t) PROVE IInv'
  <2> DEFINE h == [task[t] EXCEPT !.pc = "scan", !.op = "adopt"]
  <2>1. h \in Handlers /\ h.pc = "scan" /\ h.op = "adopt" /\ h.mine = task[t].mine
    BY <1>1, <1>2, <1>3, <1>15 DEF Handlers, Resting, CreateGoesOn, Running, Reaped
  <2>2. Becomes(t, h) /\ UNCHANGED server BY <1>15 DEF CreateGoesOn, Running, Reaped
  <2> HIDE DEF h
  <2>3. cpu \in {t, NoTask} /\ cpu' \in {t, NoTask} /\ task[t].pc # "ended"
    BY <1>15 DEF CreateGoesOn, Running, Reaped
  <2>4. HandlerOK' /\ (task \in [Tasks -> Handlers])'
    <3>1. Fit(t, h, cpu', Hosted') BY <1>1, <1>2, <1>3, <1>15, <2>1 DEF Fit, Hosted, Handlers, CreateGoesOn, Running, Reaped
    <3>2. t = Lifespan => /\ task[t].pc # "rest" /\ UNCHANGED live
                          /\ h.op = "shutdown" /\ h.stale \subseteq task[t].stale
                          /\ h.pc \in {"reap", "join", "disconnect", "saving"}
      BY <1>1, <1>2, <1>3, <1>15, <2>1 DEF HandlerOK, CreateGoesOn, Running, Reaped
    <3>3. task[t].pc # "rest" BY <1>15 DEF CreateGoesOn, Running, Reaped
    <3> QED BY <2>1, <2>2, <2>3, <3>1, <3>2, <3>3, HandlerMoves
  <2>5. TypeOK' BY <1>1, <1>2, <1>3, <1>15, <2>1, <2>4 DEF CreateGoesOn, Running, Reaped, TypeOK, Record
  <2> QED BY <2>4, <2>5 DEF IInv
<1>16. ASSUME Refused(t) PROVE IInv'
  <2> DEFINE h == Resting
  <2>1. h \in Handlers /\ h.pc = "rest" /\ h.op = "none"
    BY <1>1, <1>2, <1>3, <1>16 DEF Handlers, Resting, Refused, Running, Reaped, Finish, Becomes, Release
  <2>2. Becomes(t, h) /\ UNCHANGED server BY <1>16 DEF Refused, Running, Reaped, Finish, Becomes, Release
  <2> HIDE DEF h
  <2>3. cpu \in {t, NoTask} /\ cpu' \in {t, NoTask} /\ task[t].pc # "ended"
    BY <1>16 DEF Refused, Running, Reaped, Finish, Becomes, Release
  <2>4. HandlerOK' /\ (task \in [Tasks -> Handlers])'
    <3>1. Fit(t, h, cpu', Hosted') BY <1>1, <1>2, <1>3, <1>16, <2>1 DEF Fit, Hosted, Handlers, Refused, Running, Reaped, Finish, Becomes, Release
    <3>2. t = Lifespan => /\ task[t].pc # "rest" /\ UNCHANGED live
                          /\ h.op = "shutdown" /\ h.stale \subseteq task[t].stale
                          /\ h.pc \in {"reap", "join", "disconnect", "saving"}
      BY <1>1, <1>2, <1>3, <1>16, <2>1 DEF HandlerOK, Refused, Running, Reaped, Finish, Becomes, Release
    <3>3. task[t].pc # "rest" BY <1>16 DEF Refused, Running, Reaped, Finish, Becomes, Release
    <3> QED BY <2>1, <2>2, <2>3, <3>1, <3>2, <3>3, HandlerMoves
  <2>5. TypeOK' BY <1>1, <1>2, <1>3, <1>16, <2>1, <2>4 DEF Refused, Running, Reaped, Finish, Becomes, Release, TypeOK, Record
  <2> QED BY <2>4, <2>5 DEF IInv
<1>17. ASSUME Serve(t) PROVE IInv'
  <2> DEFINE h == Resting
  <2>0. obj' \in [Objs -> Objects]
    <3> DEFINE o == Live(task[t].arg)
    <3>1. o \in Objs BY <1>1, <1>3, <1>17 DEF Serve, Running, Fit, Hosted, Live, Objs, TypeOK
    <3>2. obj[o] \in Objects BY <1>1, <3>1 DEF TypeOK
    <3> HIDE DEF o
    <3> DEFINE touched == [obj EXCEPT ![o].idle = FALSE]
    <3>3. touched \in [Objs -> Objects] /\ touched[o] \in Objects
          /\ touched[o].queued = obj[o].queued /\ touched[o].watch = obj[o].watch
      BY <1>1, <3>1, <3>2 DEF TypeOK, Objects
    <3> HIDE DEF touched
    <3>4. CASE obj' = touched BY <3>3, <3>4
    <3>5. CASE obj' = [touched EXCEPT ![o].queued = @ + 1] /\ obj[o].queued < MaxQueue
      <4>1. [touched[o] EXCEPT !.queued = @ + 1] \in Objects BY <3>2, <3>3, <3>5 DEF Objects
      <4> QED BY <3>3, <3>5, <4>1
    <3>6. CASE obj' = [touched EXCEPT ![o].watch = @ + 1] /\ obj[o].watch < MaxSubs
      <4>1. [touched[o] EXCEPT !.watch = @ + 1] \in Objects BY <3>2, <3>3, <3>6 DEF Objects
      <4> QED BY <3>3, <3>6, <4>1
    <3> QED BY <1>17, <3>4, <3>5, <3>6 DEF Serve, touched, o
  <2>1. h \in Handlers /\ h.pc = "rest" /\ h.op = "none"
    BY <1>1, <1>2, <1>3, <1>17, <2>0 DEF Handlers, Resting, Serve, Running, Finish, Becomes
  <2>2. Becomes(t, h) /\ UNCHANGED server BY <1>17 DEF Serve, Running, Finish, Becomes
  <2> HIDE DEF h
  <2>3. cpu \in {t, NoTask} /\ cpu' \in {t, NoTask} /\ task[t].pc # "ended"
    BY <1>17 DEF Serve, Running, Finish, Becomes
  <2>4. HandlerOK' /\ (task \in [Tasks -> Handlers])'
    <3>1. Fit(t, h, cpu', Hosted') BY <1>1, <1>2, <1>3, <1>17, <2>0, <2>1 DEF Fit, Hosted, Handlers, Serve, Running, Finish, Becomes
    <3>2. t = Lifespan => /\ task[t].pc # "rest" /\ UNCHANGED live
                          /\ h.op = "shutdown" /\ h.stale \subseteq task[t].stale
                          /\ h.pc \in {"reap", "join", "disconnect", "saving"}
      BY <1>1, <1>2, <1>3, <1>17, <2>0, <2>1 DEF HandlerOK, Serve, Running, Finish, Becomes
    <3>3. task[t].pc # "rest" BY <1>17 DEF Serve, Running, Finish, Becomes
    <3> QED BY <2>1, <2>2, <2>3, <3>1, <3>2, <3>3, HandlerMoves
  <2>5. TypeOK' BY <1>1, <1>2, <1>3, <1>17, <2>0, <2>1, <2>4 DEF Serve, Running, Finish, Becomes, TypeOK, Record
  <2> QED BY <2>4, <2>5 DEF IInv
<1>18. ASSUME Disconnected(t) PROVE IInv'
  <2> DEFINE h == [task[t] EXCEPT !.pc = "saving"]
  <2>0. [obj[task[t].cur] EXCEPT !.client = FALSE] \in Objects
    <3>1. task[t].cur \in Objs BY <1>3, <1>18 DEF Disconnected, Suspended, Fit
    <3>2. obj[task[t].cur] \in Objects BY <1>1, <3>1 DEF TypeOK
    <3> QED BY <3>2 DEF Objects
  <2>1. h \in Handlers /\ h.pc = "saving" /\ h.op = task[t].op /\ h.arg = task[t].arg /\ h.mine = task[t].mine /\ h.cur = task[t].cur /\ h.stale = task[t].stale
    BY <1>1, <1>2, <1>3, <1>18, <2>0 DEF Handlers, Resting, Disconnected, Suspended
  <2>2. Becomes(t, h) /\ UNCHANGED server BY <1>18 DEF Disconnected, Suspended
  <2> HIDE DEF h
  <2>3. cpu \in {t, NoTask} /\ cpu' \in {t, NoTask} /\ task[t].pc # "ended"
    BY <1>18 DEF Disconnected, Suspended
  <2>4. HandlerOK' /\ (task \in [Tasks -> Handlers])'
    <3>1. Fit(t, h, cpu', Hosted') BY <1>1, <1>2, <1>3, <1>18, <2>0, <2>1 DEF Fit, Hosted, Handlers, Disconnected, Suspended
    <3>2. t = Lifespan => /\ task[t].pc # "rest" /\ UNCHANGED live
                          /\ h.op = "shutdown" /\ h.stale \subseteq task[t].stale
                          /\ h.pc \in {"reap", "join", "disconnect", "saving"}
      BY <1>1, <1>2, <1>3, <1>18, <2>0, <2>1 DEF HandlerOK, Disconnected, Suspended
    <3>3. task[t].pc # "rest" BY <1>18 DEF Disconnected, Suspended
    <3> QED BY <2>1, <2>2, <2>3, <3>1, <3>2, <3>3, HandlerMoves
  <2>5. TypeOK' BY <1>1, <1>2, <1>3, <1>18, <2>0, <2>1, <2>4 DEF Disconnected, Suspended, TypeOK, Record
  <2> QED BY <2>4, <2>5 DEF IInv
<1>19. ASSUME Adopt(t) PROVE IInv'
  <2> DEFINE h == IF task[t].op = "wake" THEN [task[t] EXCEPT !.pc = "serve", !.mine = None] ELSE Resting
  <2>0. /\ task[t].mine \in Objs /\ task[t].mine[1] \in Ids /\ task[t].mine[2] \in 1 .. MaxGen
        /\ [obj[task[t].mine] EXCEPT !.phase = "open", !.idle = FALSE,
              !.worker = IF task[t].mine[1] \in Crews THEN "run" ELSE "wait"] \in Objects
        /\ task[t].op = "wake" => task[t].mine[1] = task[t].arg
        /\ task[t].mine[1] \in Hosted' /\ live' \in [Ids -> 0 .. MaxGen]
    <3>1. task[t].mine \in Objs BY <1>3, <1>19 DEF Adopt, Reaped, Running, Fit
    <3>2. obj[task[t].mine] \in Objects BY <1>1, <3>1 DEF TypeOK
    <3> DEFINE w == IF task[t].mine[1] \in Crews THEN "run" ELSE "wait"
    <3>3. w \in {"run", "wait"} OBVIOUS
    <3> HIDE DEF w
    <3>4. [obj[task[t].mine] EXCEPT !.phase = "open", !.idle = FALSE, !.worker = w] \in Objects
      BY <3>2, <3>3 DEF Objects
    <3>5. task[t].op = "wake" => task[t].mine[1] = task[t].arg BY <1>3, <1>19 DEF Adopt, Reaped, Running, Fit
    <3>6. live' = [live EXCEPT ![task[t].mine[1]] = task[t].mine[2]] BY <1>19 DEF Adopt
    <3>7. task[t].mine[1] \in Ids /\ task[t].mine[2] \in 1 .. MaxGen BY <3>1 DEF Objs
    <3>8. task[t].mine[1] \in Hosted' /\ live' \in [Ids -> 0 .. MaxGen]
      BY <1>1, <3>6, <3>7 DEF TypeOK, Hosted
    <3> QED BY <3>1, <3>4, <3>5, <3>7, <3>8 DEF w
  <2>1. h \in Handlers /\ ((h.pc = "serve" /\ h.op = "wake" /\ h.arg = task[t].arg /\ h.arg \in Hosted' /\ h.arg \in Ids /\ cpu' = t) \/ (h.pc = "rest" /\ h.op = "none"))
    BY <1>1, <1>2, <1>3, <1>19, <2>0 DEF Handlers, Resting, Adopt, Running, Reaped, Finish, Becomes, Release
  <2>2. Becomes(t, h) /\ UNCHANGED server BY <1>19 DEF Adopt, Running, Reaped, Finish, Becomes, Release
  <2> HIDE DEF h
  <2>3. cpu \in {t, NoTask} /\ cpu' \in {t, NoTask} /\ task[t].pc # "ended"
    BY <1>19 DEF Adopt, Running, Reaped, Finish, Becomes, Release
  <2>4. HandlerOK' /\ (task \in [Tasks -> Handlers])'
    <3>1. Fit(t, h, cpu', Hosted') BY <2>1 DEF Fit
    <3>2. t = Lifespan => /\ task[t].pc # "rest" /\ UNCHANGED live
                          /\ h.op = "shutdown" /\ h.stale \subseteq task[t].stale
                          /\ h.pc \in {"reap", "join", "disconnect", "saving"}
      BY <1>1, <1>2, <1>3, <1>19, <2>0, <2>1 DEF HandlerOK, Adopt, Running, Reaped, Finish, Becomes, Release
    <3>3. task[t].pc # "rest" BY <1>19 DEF Adopt, Running, Reaped, Finish, Becomes, Release
    <3> QED BY <2>1, <2>2, <2>3, <3>1, <3>2, <3>3, HandlerMoves
  <2>5. TypeOK' BY <1>1, <1>2, <1>3, <1>19, <2>0, <2>1, <2>4 DEF Adopt, Running, Reaped, Finish, Becomes, Release, TypeOK, Record
  <2> QED BY <2>4, <2>5 DEF IInv
<1> QED BY <1>4, <1>5, <1>6, <1>7, <1>8, <1>9, <1>10, <1>11, <1>12, <1>13, <1>14, <1>15, <1>16, <1>17, <1>18, <1>19 DEF Handler

\* The routes' first steps.
LEMMA RequestSteps ==
    ASSUME IInv, NEW t \in Reqs, NEW i \in Ids, Post(t, i) \/ Ask(t, i) \/ Forget(t, i)
    PROVE  IInv'
<1> USE BoundsAssumption, TasksAssumption
<1>1. TypeOK /\ HandlerOK /\ t \in Tasks /\ t # Lifespan BY DEF IInv, Tasks
<1>2. Unmade \in Objects /\ Resting \in Handlers
  BY DEF Unmade, Objects, Resting, Handlers
<1>3. server = "up" /\ task[t].pc = "rest" /\ cpu = NoTask
  BY DEF Post, Ask, Forget, Request, Suspended
<1>4. CASE Post(t, i)
  <2> DEFINE what == IF i \in Chats THEN "create" ELSE "adopt"
             h == [Resting EXCEPT !.pc = "scan", !.mine = <<i, 1>>, !.op = what]
  <2>1. <<i, 1>> \in Objs /\ what \in {"create", "adopt"} BY DEF Objs
  <2>2. Becomes(t, h) /\ UNCHANGED server /\ cpu' = t BY <1>4 DEF Post
  <2>3. gen[i] = 0 /\ Build(i, 0) BY <1>4 DEF Post
  <2> HIDE DEF what
  <2>4. h \in Handlers /\ h.pc = "scan" /\ h.op \in {"create", "adopt"} /\ h.mine \in Objs
    BY <1>2, <2>1 DEF Handlers
  <2> HIDE DEF h
  <2>5. Fit(t, h, cpu', Hosted') BY <2>2, <2>4 DEF Fit
  <2>6. HandlerOK' /\ (task \in [Tasks -> Handlers])'
    BY <1>1, <1>3, <2>2, <2>4, <2>5, HandlerMoves
  <2>7. Built(0) \in Objects BY BuiltType
  <2>8. TypeOK' BY <1>1, <1>4, <2>1, <2>3, <2>6, <2>7 DEF Post, Build, TypeOK
  <2> QED BY <2>6, <2>8 DEF IInv
<1>5. CASE Ask(t, i)
  <2> DEFINE to == IF live[i] # 0 THEN "serve" ELSE IF lock = NoTask THEN "load" ELSE "lock"
             h == [Resting EXCEPT !.pc = to, !.op = "wake", !.arg = i]
  <2>1. /\ Becomes(t, h) /\ UNCHANGED <<server, live>> /\ cpu' = IF to = "lock" THEN NoTask ELSE t
        /\ UNCHANGED <<gen, obj, store, crashes>> /\ lock' \in {t, lock}
    BY <1>5 DEF Ask
  <2>2. to \in {"serve", "load", "lock"} /\ (to = "serve" => i \in Hosted) BY DEF Hosted
  <2> HIDE DEF to
  <2>3. h \in Handlers /\ h.pc = to /\ h.op = "wake" /\ h.arg = i BY <1>2, <2>2 DEF Handlers
  <2> HIDE DEF h
  <2>4. Hosted' = Hosted BY <2>1 DEF Hosted
  <2>5. Fit(t, h, cpu', Hosted') BY <2>1, <2>2, <2>3, <2>4 DEF Fit
  <2>6. HandlerOK' /\ (task \in [Tasks -> Handlers])'
    BY <1>1, <1>3, <2>1, <2>3, <2>5, HandlerMoves
  <2>7. TypeOK' BY <1>1, <2>1, <2>6 DEF TypeOK
  <2> QED BY <2>6, <2>7 DEF IInv
<1>6. CASE Forget(t, i)
  <2> DEFINE f == [Resting EXCEPT !.pc = "reap", !.op = "forget", !.arg = i]
  <2>1. f \in Handlers /\ f.pc = "reap" /\ f.op = "forget" /\ f.arg = i BY <1>2 DEF Handlers
  <2>2. /\ live' = [live EXCEPT ![i] = 0] /\ UNCHANGED <<gen, store, lock, server, crashes>>
        /\ \/ live[i] # 0 /\ Aclose(t, Live(i), f)
           \/ Becomes(t, f) /\ cpu' = t /\ UNCHANGED obj
    BY <1>6 DEF Forget
  <2> HIDE DEF f
  <2>3. CASE live[i] # 0 /\ Aclose(t, Live(i), f)
    <3> DEFINE h == [f EXCEPT !.cur = Live(i),
                              !.pc = IF obj[Live(i)].worker = "dead" THEN "saving" ELSE "join"]
    <3>1. Live(i) \in Objs BY <1>1, <2>3 DEF Live, Objs, TypeOK
    <3>2. [obj[Live(i)] EXCEPT !.phase = "closing"] \in Objects
      <4>1. obj[Live(i)] \in Objects BY <1>1, <3>1 DEF TypeOK
      <4> QED BY <4>1 DEF Objects
    <3>3. Becomes(t, h) /\ cpu' = IF obj[Live(i)].worker = "dead" THEN t ELSE NoTask
      BY <2>3 DEF Aclose
    <3>4. /\ h \in Handlers /\ h.op = "forget" /\ h.cur = Live(i)
          /\ h.pc = IF obj[Live(i)].worker = "dead" THEN "saving" ELSE "join"
      BY <2>1, <3>1 DEF Handlers
    <3> HIDE DEF h
    <3>5. Fit(t, h, cpu', Hosted') BY <3>1, <3>3, <3>4 DEF Fit
    <3>6. HandlerOK' /\ (task \in [Tasks -> Handlers])'
      BY <1>1, <1>3, <2>2, <3>3, <3>4, <3>5, HandlerMoves
    <3>7. TypeOK' BY <1>1, <2>2, <2>3, <3>1, <3>2, <3>3, <3>6 DEF Aclose, TypeOK
    <3> QED BY <3>6, <3>7 DEF IInv
  <2>4. CASE Becomes(t, f) /\ cpu' = t /\ UNCHANGED obj
    <3>1. Fit(t, f, cpu', Hosted') BY <2>1, <2>4 DEF Fit
    <3>2. HandlerOK' /\ (task \in [Tasks -> Handlers])'
      BY <1>1, <1>3, <2>1, <2>2, <2>4, <3>1, HandlerMoves
    <3>3. TypeOK' BY <1>1, <2>2, <2>4, <3>2 DEF TypeOK
    <3> QED BY <3>2, <3>3 DEF IInv
  <2> QED BY <2>2, <2>3, <2>4
<1> QED BY <1>4, <1>5, <1>6

LEMMA TickStep == ASSUME IInv, Tick PROVE IInv'
<1> USE TasksAssumption
<1> DEFINE h == [Resting EXCEPT !.pc = "scan", !.op = "reap"]
<1>1. TypeOK /\ HandlerOK /\ Reaper \in Tasks /\ Reaper \notin Reqs BY DEF IInv, Tasks
<1>2. Resting \in Handlers BY DEF Resting, Handlers
<1>3. h \in Handlers /\ h.pc = "scan" /\ h.op = "reap" BY <1>2 DEF Handlers
<1>4. Becomes(Reaper, h) /\ cpu' = Reaper /\ cpu = NoTask /\ task[Reaper].pc = "rest"
      /\ UNCHANGED <<live, gen, obj, store, lock, server, crashes>>
  BY DEF Tick, Suspended
<1> HIDE DEF h
<1>5. Fit(Reaper, h, cpu', Hosted') BY <1>3, <1>4 DEF Fit
<1>6. HandlerOK' /\ (task \in [Tasks -> Handlers])'
  BY <1>1, <1>3, <1>4, <1>5, HandlerMoves
<1>7. TypeOK' BY <1>1, <1>4, <1>6 DEF TypeOK
<1> QED BY <1>6, <1>7 DEF IInv

\* A step of one object leaves the handlers and the table alone.
LEMMA ObjectSteps ==
    ASSUME IInv, NEW o \in Objs, Worker(o) \/ Unsubscribe(o) \/ GoIdle(o) \/ Touched(o)
    PROVE  IInv'
<1> USE BoundsAssumption
<1>1. TypeOK /\ HandlerOK /\ obj[o] \in Objects BY DEF IInv, TypeOK
<1>2. ASSUME NEW r \in Objects, Alone(o, r), store' \in Seq(Record) PROVE IInv'
  <2>1. HandlerOK' BY <1>1, <1>2 DEF Alone, HandlerOK, Hosted
  <2>2. TypeOK' BY <1>1, <1>2 DEF Alone, TypeOK, Record
  <2> QED BY <2>1, <2>2 DEF IInv
<1>3. store \in Seq(Record) BY <1>1 DEF TypeOK, Record
<1>4. CASE TakeTurn(o)
  <2>1. [obj[o] EXCEPT !.queued = @ - 1, !.worker = "turn", !.idle = FALSE] \in Objects
    <3>1. obj[o].queued - 1 \in 0 .. MaxQueue BY <1>1, <1>4 DEF TakeTurn, Objects
    <3> QED BY <1>1, <3>1 DEF Objects
  <2> QED BY <1>2, <1>3, <1>4, <2>1 DEF TakeTurn
<1>5. CASE Connect(o)
  <2>1. [obj[o] EXCEPT !.client = TRUE, !.idle = FALSE] \in Objects BY <1>1 DEF Objects
  <2> QED BY <1>2, <1>3, <1>5, <2>1 DEF Connect
<1>6. CASE EndTurn(o)
  <2>1. PICK next \in {"wait", "upkeep"} :
          Alone(o, [obj[o] EXCEPT !.turns = @ + 1, !.worker = next, !.idle = FALSE])
    BY <1>6 DEF EndTurn
  <2>2. obj[o].turns + 1 \in 0 .. MaxTurns BY <1>1, <1>6 DEF EndTurn, Objects
  <2>3. [obj[o] EXCEPT !.turns = @ + 1, !.worker = next, !.idle = FALSE] \in Objects
    BY <1>1, <2>2 DEF Objects
  <2>4. store' \in Seq(Record) BY <1>1, <1>6, <2>2, SavedType DEF EndTurn
  <2> QED BY <1>2, <2>1, <2>3, <2>4
<1>7. CASE Upkeep(o)
  <2>1. [obj[o] EXCEPT !.worker = "wait", !.idle = FALSE] \in Objects BY <1>1 DEF Objects
  <2> QED BY <1>2, <1>3, <1>7, <2>1 DEF Upkeep
<1>8. CASE Cancelled(o)
  <2>1. [obj[o] EXCEPT !.worker = "dead"] \in Objects BY <1>1 DEF Objects
  <2>2. obj[o].turns \in 0 .. MaxTurns BY <1>1 DEF Objects
  <2>3. store' \in Seq(Record) BY <1>1, <1>3, <1>8, <2>2, SavedType DEF Cancelled
  <2> QED BY <1>2, <1>8, <2>1, <2>3 DEF Cancelled
<1>9. CASE CrewEnds(o)
  <2>1. [obj[o] EXCEPT !.worker = "dead", !.idle = FALSE] \in Objects BY <1>1 DEF Objects
  <2> QED BY <1>2, <1>3, <1>9, <2>1 DEF CrewEnds
<1>10. CASE Unsubscribe(o)
  <2>1. [obj[o] EXCEPT !.watch = @ - 1, !.idle = FALSE] \in Objects
    <3>1. obj[o].watch - 1 \in 0 .. MaxSubs BY <1>1, <1>10 DEF Unsubscribe, Objects
    <3> QED BY <1>1, <3>1 DEF Objects
  <2> QED BY <1>2, <1>3, <1>10, <2>1 DEF Unsubscribe
<1>11. CASE GoIdle(o)
  <2>1. [obj[o] EXCEPT !.idle = TRUE] \in Objects BY <1>1 DEF Objects
  <2> QED BY <1>2, <1>3, <1>11, <2>1 DEF GoIdle
<1>12. CASE Touched(o)
  <2>1. [obj[o] EXCEPT !.idle = FALSE] \in Objects BY <1>1 DEF Objects
  <2> QED BY <1>2, <1>3, <1>12, <2>1 DEF Touched
<1> QED BY <1>4, <1>5, <1>6, <1>7, <1>8, <1>9, <1>10, <1>11, <1>12 DEF Worker

\* The shutdown and a crash.
LEMMA ServerSteps == ASSUME IInv, Shutdown \/ Stop \/ Crash PROVE IInv'
<1> USE BoundsAssumption, TasksAssumption
<1>1. TypeOK /\ HandlerOK /\ Reaper \in Tasks /\ Lifespan \in Tasks /\ Lifespan \notin Reqs
  BY DEF IInv, Tasks
<1>2. Unmade \in Objects /\ Resting \in Handlers
  BY DEF Unmade, Objects, Resting, Handlers
<1>3. task[Reaper] \in Handlers /\ task[Lifespan] \in Handlers /\ Fit(Lifespan, task[Lifespan], cpu, Hosted)
  BY <1>1 DEF TypeOK, HandlerOK
<1>4. CASE CloseAll
  <2> DEFINE h == [Resting EXCEPT !.pc = "reap", !.op = "shutdown", !.stale = Hosted]
  <2>1. /\ Becomes(Lifespan, h) /\ cpu' = Lifespan /\ cpu = NoTask /\ server = "stopping"
        /\ task[Reaper].pc = "ended" /\ UNCHANGED <<live, gen, obj, store, lock, server, crashes>>
    BY <1>4 DEF CloseAll, Suspended
  <2>2. h \in Handlers /\ h.pc = "reap" /\ h.op = "shutdown" /\ h.stale = Hosted
    BY <1>2 DEF Handlers, Hosted
  <2> HIDE DEF h
  <2>3. /\ task' \in [Tasks -> Handlers] /\ task'[Lifespan] = h
        /\ \A u \in Tasks : u # Lifespan => task'[u] = task[u]
    BY <1>1, <2>1, <2>2 DEF Becomes, TypeOK
  <2>4. Hosted' = Hosted BY <2>1 DEF Hosted
  <2>5. \A u \in Tasks : Fit(u, task'[u], cpu', Hosted')
    BY <1>1, <2>1, <2>2, <2>3, <2>4 DEF HandlerOK, Fit
  <2>6. HandlerOK' BY <1>1, <2>1, <2>2, <2>3, <2>4, <2>5 DEF HandlerOK, Tasks
  <2>7. TypeOK' BY <1>1, <2>1, <2>3 DEF TypeOK
  <2> QED BY <2>6, <2>7 DEF IInv
<1>5. ASSUME NEW i \in Ids, CloseNext(i) PROVE IInv'
  <2> DEFINE at == IF obj[Live(i)].worker = "dead" THEN "saving" ELSE "join"
             h == [[task[Lifespan] EXCEPT !.stale = @ \ {i}] EXCEPT !.cur = Live(i), !.pc = at]
  <2>1. /\ Becomes(Lifespan, h) /\ cpu = Lifespan /\ cpu' = IF at = "saving" THEN Lifespan ELSE NoTask
        /\ task[Lifespan].pc = "reap" /\ i \in task[Lifespan].stale
        /\ obj' = [obj EXCEPT ![Live(i)].phase = "closing"]
        /\ UNCHANGED <<live, gen, store, lock, server, crashes>>
    BY <1>5 DEF CloseNext, Aclose, Running
  <2>2. task[Lifespan].op = "shutdown" /\ live[i] # 0
    BY <1>1, <2>1 DEF HandlerOK, Hosted, TypeOK
  <2>3. Live(i) \in Objs BY <1>1, <2>2 DEF Live, Objs, TypeOK
  <2>4. obj[Live(i)] \in Objects BY <1>1, <2>3 DEF TypeOK
  <2>5. [obj[Live(i)] EXCEPT !.phase = "closing"] \in Objects BY <2>4 DEF Objects
  <2>6. at \in {"join", "saving"} OBVIOUS
  <2> HIDE DEF at
  <2>7. /\ h \in Handlers /\ h.pc = at /\ h.op = "shutdown" /\ h.cur = Live(i)
        /\ h.stale \subseteq task[Lifespan].stale
    BY <1>3, <2>2, <2>3, <2>6 DEF Handlers
  <2> HIDE DEF h
  <2>8. Fit(Lifespan, h, cpu', Hosted') BY <2>1, <2>3, <2>6, <2>7 DEF Fit
  <2>9. HandlerOK' /\ (task \in [Tasks -> Handlers])'
    BY <1>1, <2>1, <2>6, <2>7, <2>8, HandlerMoves
  <2>10. TypeOK' BY <1>1, <2>1, <2>3, <2>5, <2>6, <2>9 DEF TypeOK
  <2> QED BY <2>9, <2>10 DEF IInv
<1>6. CASE Down
  <2> DEFINE h == [task[Lifespan] EXCEPT !.pc = "ended"]
  <2>1. /\ Becomes(Lifespan, h) /\ cpu = Lifespan /\ cpu' = NoTask /\ task[Lifespan].op = "shutdown"
        /\ server' = "down" /\ live' = [i \in Ids |-> 0] /\ UNCHANGED <<gen, obj, store, lock, crashes>>
    BY <1>6 DEF Down, Reaped, Running
  <2>2. h \in Handlers /\ h.pc = "ended" /\ h.op = "shutdown" BY <1>3, <2>1 DEF Handlers
  <2> HIDE DEF h
  <2>3. /\ task' \in [Tasks -> Handlers] /\ task'[Lifespan] = h
        /\ \A u \in Tasks : u # Lifespan => task'[u] = task[u]
    BY <1>1, <2>1, <2>2 DEF Becomes, TypeOK
  <2>4. \A u \in Tasks : u # Lifespan => task[u].pc \notin {"load", "scan", "reap", "saving", "serve"}
    BY <1>1, <2>1 DEF HandlerOK, Fit
  <2>5. \A u \in Tasks : Fit(u, task'[u], cpu', Hosted')
    BY <1>1, <2>2, <2>3, <2>4 DEF HandlerOK, Fit
  <2>6. HandlerOK' BY <1>1, <2>1, <2>2, <2>3, <2>5 DEF HandlerOK, Tasks
  <2>7. TypeOK' BY <1>1, <2>1, <2>3 DEF TypeOK
  <2> QED BY <2>6, <2>7 DEF IInv
<1>7. CASE Stop
  <2> DEFINE at == IF task[Reaper].pc = "join" THEN "join" ELSE "ended"
             h == [task[Reaper] EXCEPT !.pc = at]
  <2>1. /\ Becomes(Reaper, h) /\ server = "up" /\ server' = "stopping"
        /\ \A u \in Reqs : task[u].pc = "rest"
        /\ UNCHANGED <<live, gen, store, lock, cpu, crashes>>
    BY <1>7 DEF Stop
  <2>2. at \in {"join", "ended"} /\ (at = "join" => task[Reaper].pc = "join") OBVIOUS
  <2> HIDE DEF at
  <2>3. h \in Handlers /\ h.pc = at /\ h.op = task[Reaper].op /\ h.cur = task[Reaper].cur
        /\ h.arg = task[Reaper].arg /\ h.mine = task[Reaper].mine
    BY <1>3, <2>2 DEF Handlers
  <2> HIDE DEF h
  <2>4. /\ task' \in [Tasks -> Handlers] /\ task'[Reaper] = h
        /\ \A u \in Tasks : u # Reaper => task'[u] = task[u]
    BY <1>1, <2>1, <2>3 DEF Becomes, TypeOK
  <2>5. Hosted' = Hosted BY <2>1 DEF Hosted
  <2>6. obj' \in [Objs -> Objects]
    <3>1. CASE task[Reaper].pc = "disconnect"
      <4>1. PICK left \in BOOLEAN : obj' = [obj EXCEPT ![task[Reaper].cur].client = left]
        BY <1>7, <3>1 DEF Stop
      <4>2. task[Reaper].cur \in Objs BY <1>1, <3>1 DEF HandlerOK, Fit
      <4>3. obj[task[Reaper].cur] \in Objects BY <1>1, <4>2 DEF TypeOK
      <4>4. [obj[task[Reaper].cur] EXCEPT !.client = left] \in Objects BY <4>3 DEF Objects
      <4> QED BY <1>1, <4>1, <4>2, <4>4 DEF TypeOK
    <3> QED BY <1>1, <1>7, <3>1 DEF Stop, TypeOK
  <2>7. task[Lifespan].op # "shutdown" /\ task[Lifespan].pc = "rest" BY <1>1, <2>1 DEF HandlerOK
  <2>8. Fit(Reaper, h, cpu, Hosted)
    <3>1. Fit(Reaper, task[Reaper], cpu, Hosted) BY <1>1 DEF HandlerOK
    <3>2. CASE at = "join" BY <2>2, <2>3, <3>1, <3>2 DEF Fit
    <3>3. CASE at = "ended" BY <2>3, <3>1, <3>3 DEF Fit
    <3> QED BY <2>2, <3>2, <3>3
  <2>9. HandlerOK' BY <1>1, <2>1, <2>4, <2>5, <2>7, <2>8 DEF HandlerOK, Tasks
  <2>10. TypeOK' BY <1>1, <2>1, <2>4, <2>6 DEF TypeOK
  <2> QED BY <2>9, <2>10 DEF IInv
<1>8. CASE Crash
  <2>1. Closed \in Objects BY <1>2 DEF Closed, Objects
  <2>2. /\ task' = [t \in Tasks |-> Resting] /\ live' = [i \in Ids |-> 0] /\ server = "up"
        /\ UNCHANGED <<gen, store, cpu, server>> /\ lock' = NoTask
        /\ crashes < MaxCrashes /\ crashes' = crashes + 1
        /\ obj' = [o \in Objs |-> IF o[2] > gen[o[1]] THEN Unmade ELSE Closed]
    BY <1>1, <1>8 DEF Crash
  <2>5. Unmade \in Objects BY <1>2 DEF Unmade, Objects
  <2>6. obj' \in [Objs -> Objects] BY <2>1, <2>2, <2>5
  <2>7. crashes' \in 0 .. MaxCrashes BY <1>1, <2>2, BoundsAssumption DEF TypeOK
  <2>3. TypeOK' BY <1>1, <1>2, <2>2, <2>6, <2>7 DEF TypeOK
  <2>4. HandlerOK' BY <1>1, <2>2 DEF HandlerOK, Fit, Resting
  <2> QED BY <2>3, <2>4 DEF IInv
<1> QED BY <1>4, <1>5, <1>6, <1>7, <1>8 DEF Shutdown

LEMMA NextIInv == IInv /\ [Next]_vars => IInv'
<1> SUFFICES ASSUME IInv, [Next]_vars PROVE IInv' OBVIOUS
<1>1. CASE UNCHANGED vars
  BY <1>1 DEF vars, IInv, TypeOK, HandlerOK, Hosted
<1>2. CASE Next
  BY <1>2, HandlerSteps, RequestSteps, TickStep, ObjectSteps, ServerSteps DEF Next
<1> QED BY <1>1, <1>2

\* Every variable of the session manager keeps its type, and every handler
\* stays in a state its code relies on (HandlerOK), for any number of ids,
\* handlers, objects and turns.
THEOREM TypeCorrect == Spec => [](TypeOK /\ HandlerOK)
<1>1. IInv => TypeOK /\ HandlerOK BY DEF IInv
<1> QED BY InitIInv, NextIInv, <1>1, PTL DEF Spec

-----------------------------------------------------------------------------
LEMMA HostedFinite == IsFiniteSet(Hosted)
BY IdsAssumption, FS_Subset DEF Hosted

\* adopt() is the only step that adds an entry to the table, and it adds one.
LEMMA HostedGrows ==
    ASSUME IInv, Next
    PROVE  \/ Hosted' \subseteq Hosted
           \/ ~Full /\ \E i \in Ids : Hosted' = Hosted \cup {i}
<1>1. TypeOK BY DEF IInv
<1>2. ASSUME UNCHANGED live PROVE Hosted' \subseteq Hosted BY <1>2 DEF Hosted
<1>3. ASSUME NEW i \in Ids, live' \in {live, [live EXCEPT ![i] = 0]} PROVE Hosted' \subseteq Hosted
  BY <1>1, <1>3 DEF Hosted, TypeOK
<1>4. CASE Tick \/ Stop BY <1>2, <1>4 DEF Tick, Stop
<1>5. CASE Shutdown \/ Crash
  BY <1>2, <1>5 DEF Shutdown, CloseAll, CloseNext, Down, Crash, Hosted
<1>6. ASSUME NEW t \in Reqs, NEW i \in Ids, Post(t, i) \/ Ask(t, i) \/ Forget(t, i)
      PROVE Hosted' \subseteq Hosted
  BY <1>2, <1>3, <1>6 DEF Post, Ask, Forget
<1>7. ASSUME NEW o \in Objs, Worker(o) \/ Unsubscribe(o) \/ GoIdle(o) \/ Touched(o)
      PROVE Hosted' \subseteq Hosted
  BY <1>2, <1>7 DEF Worker, TakeTurn, Connect, EndTurn, Upkeep, Cancelled, CrewEnds,
                    Unsubscribe, GoIdle, Touched, Alone
<1>8. ASSUME NEW t \in Tasks, Handler(t)
      PROVE \/ Hosted' \subseteq Hosted
            \/ ~Full /\ \E i \in Ids : Hosted' = Hosted \cup {i}
  <2>1. CASE Adopt(t)
    <3>1. task[t].mine \in Objs BY <1>8, <2>1 DEF IInv, HandlerOK, Fit, Adopt, Reaped, Running
    <3>2. ~Full /\ live' = [live EXCEPT ![task[t].mine[1]] = task[t].mine[2]] BY <2>1 DEF Adopt
    <3>3. task[t].mine[1] \in Ids /\ task[t].mine[2] # 0 BY <3>1 DEF Objs
    <3>4. Hosted' = Hosted \cup {task[t].mine[1]} BY <1>1, <3>2, <3>3 DEF Hosted, TypeOK
    <3> QED BY <3>2, <3>3, <3>4
  <2>2. CASE \E i \in Ids : Pop(t, i) BY <1>3, <2>2 DEF Pop
  <2>3. CASE UNCHANGED live BY <1>2, <2>3
  <2> QED BY <1>8, <2>1, <2>2, <2>3 DEF Handler, LockTaken, LoadFindsLive, LoadFindsNothing,
        LoadBuilds, Scan, Joined, Disconnected, SaveClosed, PopNothing, ReapEnds, ForgetEnds,
        CreateGoesOn, Refused, Serve
<1> QED BY <1>4, <1>5, <1>6, <1>7, <1>8 DEF Next

\* The table never holds more than MaxSessions sessions, whatever creates,
\* wakes, crews, reaps and deletes are suspended in each other's way: the
\* ceiling is checked again after the last await before the insertion.
THEOREM CeilingHolds == Spec => []Ceiling
<1>1. Init => Ceiling
  <2> SUFFICES ASSUME Init PROVE Ceiling OBVIOUS
  <2>1. Hosted = {} BY DEF Init, Hosted
  <2> QED BY <2>1, FS_EmptySet, BoundsAssumption DEF Ceiling
<1>2. IInv /\ Ceiling /\ [Next]_vars => Ceiling'
  <2> SUFFICES ASSUME IInv, Ceiling, [Next]_vars PROVE Ceiling' OBVIOUS
  <2>1. IsFiniteSet(Hosted) /\ Cardinality(Hosted) \in Nat BY HostedFinite, FS_CardinalityType
  <2>2. CASE Hosted' \subseteq Hosted
    <3>1. Cardinality(Hosted') <= Cardinality(Hosted) BY <2>1, <2>2, FS_Subset
    <3>2. Cardinality(Hosted') \in Nat BY <2>1, <2>2, FS_Subset, FS_CardinalityType
    <3> QED BY <2>1, <3>1, <3>2, BoundsAssumption DEF Ceiling
  <2>3. CASE ~Full /\ \E i \in Ids : Hosted' = Hosted \cup {i}
    <3>1. PICK i \in Ids : Hosted' = Hosted \cup {i} BY <2>3
    <3>2. Cardinality(Hosted \cup {i}) \in {Cardinality(Hosted), Cardinality(Hosted) + 1}
      BY <2>1, FS_AddElement
    <3>3. Cardinality(Hosted') \in {Cardinality(Hosted), Cardinality(Hosted) + 1} BY <3>1, <3>2
    <3>4. ~(Cardinality(Hosted) >= MaxSessions) BY <2>3 DEF Full
    <3> HIDE DEF Hosted
    <3>5. Cardinality(Hosted') <= MaxSessions BY <2>1, <3>3, <3>4, BoundsAssumption
    <3> QED BY <3>5 DEF Ceiling
  <2>4. CASE Next BY <2>2, <2>3, <2>4, HostedGrows
  <2>5. CASE UNCHANGED vars BY <2>2, <2>5 DEF vars, Hosted
  <2> QED BY <2>4, <2>5
<1> QED BY InitIInv, NextIInv, <1>1, <1>2, PTL DEF Spec
=============================================================================
