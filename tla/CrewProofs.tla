----------------------------- MODULE CrewProofs -----------------------------
(***************************************************************************)
(* Theorems about CrewRuns, for every set of crews, every plan and every   *)
(* number of request handlers, hosts and crashes.                          *)
(*                                                                         *)
(* The invariant says of a record what its readers rely on, of a host that *)
(* it has work left until its thread has saved, and of the calls in flight *)
(* that the object each one holds is its own and not started, and that no  *)
(* two of them are about to start the same crew.                           *)
(***************************************************************************)
EXTENDS CrewRuns, FiniteSetTheorems, WellFoundedInduction, TLAPS

Fine(q) ==
    /\ q.status \in {"none", "planned"} => q.done = {}
    /\ q.status = "done" => q.done \cup q.bad = Tasks
    /\ q.status = "paused" => Left(q) # {} /\ q.due # "never"
HasWorker(c) == \E n \in Slots : host[c][n].work \in {"ready", "task"}
Worked(c) == rec[c].status = "running" =>
    rec[c].pid <= proc /\ (rec[c].pid = proc => HasWorker(c))
RecordsOK == \A c \in Crews : Fine(rec[c]) /\ Worked(c)

HostOK(h) ==
    /\ h.life \in {"none", "built", "over"} => h.work = "none"
    /\ h.life \in {"built", "up", "closed"} /\ h.work # "saved" => Todo(h) # {}
HostsOK == \A c \in Crews, n \in Slots :
    HostOK(host[c][n]) /\ (host[c][n].life = "up" => hosted[c] = n)

\* A call holds an object between building it and adopt's registration.
Held(q) == q.pc \in {"launch", "adopt"}
CallOK(q) ==
    /\ q.pc # "idle" => q.crew \in Crews
    /\ Held(q) => q.slot \in Slots /\ host[q.crew][q.slot].life = "built"
    /\ q.pc = "adopt" => \A n \in Slots : host[q.crew][n].life # "up"
CallsOK == \A r \in Callers : CallOK(req[r])
Apart == \A r, u \in Callers : r # u /\ req[r].crew = req[u].crew =>
    /\ Held(req[r]) /\ Held(req[u]) => req[r].slot # req[u].slot
    /\ ~(req[r].pc = "adopt" /\ req[u].pc = "adopt")

IInv == TypeOK /\ proc = crashes + 1 /\ RecordsOK /\ HostsOK /\ CallsOK /\ Apart

-----------------------------------------------------------------------------
(* The plan.                                                               *)

LEMMA LeastNumber == ASSUME NEW S \in SUBSET Nat, S # {} PROVE \E x \in S : \A y \in S : x <= y
<1> DEFINE R == OpToRel(<, Nat)
<1>1. IsWellFoundedOn(R, Nat) BY NatLessThanWellFounded
<1>2. \A y, x \in Nat : y < x => <<y, x>> \in R BY DEF OpToRel
<1> HIDE DEF R
<1>3. PICK x \in S : \A y \in S : ~(<<y, x>> \in R) BY <1>1, WFMin
<1>4. ASSUME NEW y \in S PROVE x <= y
  <2>1. x \in Nat /\ y \in Nat OBVIOUS
  <2>2. ~(y < x) BY <1>2, <1>3, <2>1
  <2> QED BY <2>1, <2>2
<1> QED BY <1>4

\* The next task of a run is one of those that are left.
LEMMA FirstLeft == ASSUME NEW todo \in SUBSET Tasks, todo # {} PROVE First(todo) \in todo
<1> DEFINE at == {k \in 1 .. Len(Plan) : Plan[k] \in todo}
<1>1. Tasks = {Plan[k] : k \in 1 .. Len(Plan)} /\ Len(Plan) \in Nat
  BY PlanAssumption DEF Tasks, Range
<1>2. at # {} BY <1>1
<1>3. at \in SUBSET Nat BY <1>1
<1> HIDE DEF at
<1>4. PICK k \in at : \A j \in at : k <= j BY <1>2, <1>3, LeastNumber
<1>5. k \in 1 .. Len(Plan) /\ Plan[k] \in todo /\ \A j \in 1 .. (k - 1) : Plan[j] \notin todo
  BY <1>1, <1>4 DEF at
<1> QED BY <1>5 DEF First

LEMMA TasksToDo == Tasks # {} /\ Llm \subseteq Tasks
<1>1. 1 \in 1 .. Len(Plan) BY PlanAssumption
<1> QED BY <1>1, PlanAssumption DEF Tasks, Range

LEMMA InitIInv == Init => IInv
<1> SUFFICES ASSUME Init PROVE IInv OBVIOUS
<1>1. TypeOK
  BY BoundsAssumption, NamesAssumption DEF Init, TypeOK, NoRecord, NoHost, Idle, Records, Hosts, Calls, Callers
<1>2. proc = crashes + 1 /\ Apart /\ CallsOK BY DEF Init, Apart, CallsOK, CallOK, Held, Idle
<1>3. RecordsOK BY DEF Init, RecordsOK, Fine, Worked, NoRecord
<1>4. HostsOK BY DEF Init, HostsOK, HostOK, NoHost, NoRecord
<1> QED BY <1>1, <1>2, <1>3, <1>4 DEF IInv

-----------------------------------------------------------------------------
(* One host changes, or one record, or one call.                           *)

LEMMA HostMoves ==
    ASSUME IInv, NEW c \in Crews, NEW n \in Slots, NEW h \in Hosts, HostIs(c, n, h), HostOK(h),
           host[c][n].life \in {"up", "closed", "over"}, h.life = "up" => host[c][n].life = "up",
           UNCHANGED <<hosted, req>>
    PROVE  host' \in [Crews -> [Slots -> Hosts]] /\ HostsOK' /\ CallsOK' /\ Apart'
<1>1. host \in [Crews -> [Slots -> Hosts]] BY DEF IInv, TypeOK
<1>2. /\ host' \in [Crews -> [Slots -> Hosts]] /\ host'[c][n] = h
      /\ \A d \in Crews, m \in Slots : <<d, m>> # <<c, n>> => host'[d][m] = host[d][m]
  BY <1>1 DEF HostIs
<1>3. HostsOK' BY <1>2 DEF HostsOK, IInv, HostOK, Todo, Left
<1>4. CallsOK'
  <2> SUFFICES ASSUME NEW r \in Callers PROVE CallOK(req[r])' BY DEF CallsOK
  <2>1. CallOK(req[r]) /\ req'[r] = req[r] BY DEF IInv, CallsOK
  <2> QED BY <1>2, <2>1 DEF CallOK, Held
<1>5. Apart' BY DEF Apart, IInv
<1> QED BY <1>2, <1>3, <1>4, <1>5

LEMMA RecordsKept ==
    ASSUME IInv, UNCHANGED <<rec, proc>>,
           \A c \in Crews, n \in Slots :
              host[c][n].work \in {"ready", "task"} => host'[c][n].work \in {"ready", "task"}
    PROVE  rec' \in [Crews -> Records] /\ RecordsOK'
BY DEF IInv, TypeOK, RecordsOK, Fine, Worked, HasWorker, Left

LEMMA RecordWritten ==
    ASSUME IInv, NEW c \in Crews, NEW q \in Records, rec' = [rec EXCEPT ![c] = q], UNCHANGED proc, Fine(q),
           q.status = "running" => q.pid <= proc /\ (q.pid = proc => HasWorker(c)'),
           \A d \in Crews \ {c}, n \in Slots : host'[d][n] = host[d][n]
    PROVE  rec' \in [Crews -> Records] /\ RecordsOK'
<1>1. /\ rec' \in [Crews -> Records] /\ rec'[c] = q /\ \A d \in Crews \ {c} : rec'[d] = rec[d]
  BY DEF IInv, TypeOK
<1>2. ASSUME NEW d \in Crews PROVE Fine(rec[d])' /\ Worked(d)'
  <2>1. CASE d = c BY <1>1, <2>1 DEF Fine, Worked, Left
  <2>2. CASE d # c
    <3>1. Fine(rec[d]) /\ Worked(d) BY DEF IInv, RecordsOK
    <3> QED BY <1>1, <2>2, <3>1 DEF Fine, Worked, HasWorker, Left
  <2> QED BY <2>1, <2>2
<1> QED BY <1>1, <1>2 DEF RecordsOK

\* The worker's thread, or the task of its host, moves on and writes no record.
LEMMA Works ==
    ASSUME IInv, NEW c \in Crews, NEW n \in Slots, NEW h \in Hosts, HostIs(c, n, h), HostOK(h),
           host[c][n].life \in {"up", "closed", "over"}, h.life = "up" => host[c][n].life = "up",
           host[c][n].work \in {"ready", "task"} => h.work \in {"ready", "task"},
           UNCHANGED <<rec, hosted, req, quota, outs, proc, crashes>>
    PROVE  IInv'
<1>1. host' \in [Crews -> [Slots -> Hosts]] /\ HostsOK' /\ CallsOK' /\ Apart' BY HostMoves
<1>2. \A d \in Crews, m \in Slots :
        host[d][m].work \in {"ready", "task"} => host'[d][m].work \in {"ready", "task"}
  BY DEF HostIs, IInv, TypeOK
<1>3. rec' \in [Crews -> Records] /\ RecordsOK' BY <1>2, RecordsKept
<1> QED BY <1>1, <1>3 DEF IInv, TypeOK

\* It writes the record: what it knows of the run, whole.
LEMMA Writes ==
    ASSUME IInv, NEW c \in Crews, NEW n \in Slots, NEW h \in Hosts, HostIs(c, n, h), HostOK(h),
           host[c][n].life \in {"up", "closed", "over"}, h.life = "up" => host[c][n].life = "up",
           NEW q \in Records, rec' = [rec EXCEPT ![c] = q], Fine(q),
           q.status = "running" => q.pid <= proc /\ h.work \in {"ready", "task"},
           UNCHANGED <<hosted, req, quota, outs, proc, crashes>>
    PROVE  IInv'
<1>1. host' \in [Crews -> [Slots -> Hosts]] /\ HostsOK' /\ CallsOK' /\ Apart' BY HostMoves
<1>2. /\ host'[c][n] = h
      /\ \A d \in Crews \ {c}, m \in Slots : host'[d][m] = host[d][m]
  BY DEF HostIs, IInv, TypeOK
<1>3. q.status = "running" => HasWorker(c)' BY <1>2 DEF HasWorker
<1>4. rec' \in [Crews -> Records] /\ RecordsOK' BY <1>2, <1>3, RecordWritten
<1> QED BY <1>1, <1>4 DEF IInv, TypeOK

-----------------------------------------------------------------------------
(* The host's task and its worker thread.                                  *)

LEMMA AtWork ==
    ASSUME IInv, NEW c \in Crews, NEW n \in Slots
    PROVE  /\ host[c][n] \in Hosts /\ HostOK(host[c][n]) /\ Todo(host[c][n]) \in SUBSET Tasks
           /\ host[c][n].work # "none" => host[c][n].life \in {"up", "closed"}
           /\ host[c][n].work \in {"fresh", "ready", "task"} =>
                Todo(host[c][n]) # {} /\ First(Todo(host[c][n])) \in Todo(host[c][n])
<1>1. host[c][n] \in Hosts /\ HostOK(host[c][n]) BY DEF IInv, TypeOK, HostsOK
<1>2. Todo(host[c][n]) \in SUBSET Tasks BY DEF Todo, Left
<1>3. host[c][n].work # "none" => host[c][n].life \in {"up", "closed"} BY <1>1 DEF HostOK, Hosts
<1>4. host[c][n].work \in {"fresh", "ready", "task"} => Todo(host[c][n]) # {} BY <1>1, <1>3 DEF HostOK
<1> QED BY <1>1, <1>2, <1>3, <1>4, FirstLeft

LEMMA CutOffFine ==
    ASSUME NEW h \in Hosts, NEW status \in {"error", "paused"}, status = "paused" => Todo(h) # {}
    PROVE  CutOff(h, status) \in Records /\ Fine(CutOff(h, status)) /\ CutOff(h, status).status # "running"
<1>1. h.rec \in Records /\ h.fin \in SUBSET Tasks /\ h.bad \in SUBSET Tasks BY DEF Hosts
<1>2. PICK due \in {"never", "later", "now"} : due = IF status = "paused" THEN "later" ELSE h.rec.due
  BY <1>1 DEF Records
<1>3. PICK done \in SUBSET Tasks : done = h.rec.done \cup (h.fin \ h.rec.bad) BY <1>1 DEF Records
<1>4. PICK bad \in SUBSET Tasks : bad = h.rec.bad \cup h.bad BY <1>1 DEF Records
<1>5. PICK q \in Records :
        q = [h.rec EXCEPT !.status = status, !.pid = 0, !.due = due, !.done = done, !.bad = bad]
  <2>1. 0 \in 0 .. MaxCrashes + 1 BY BoundsAssumption
  <2> QED BY <1>1, <2>1 DEF Records
<1>6. q = CutOff(h, status) BY <1>1, <1>2, <1>3, <1>4, <1>5 DEF CutOff, Records
<1>7. q.status = status /\ q.due = due /\ q.done = done BY <1>1, <1>5 DEF Records
<1>8. status = "paused" => Left(q) # {} /\ due # "never" BY <1>2, <1>3, <1>7 DEF Left, Todo
<1> QED BY <1>6, <1>7, <1>8 DEF Fine

LEMMA CompletedFine ==
    ASSUME NEW h \in Hosts, Todo(h) = {}
    PROVE  Completed(h) \in Records /\ Fine(Completed(h)) /\ Completed(h).status # "running"
<1>1. h.rec \in Records /\ h.fin \in SUBSET Tasks /\ h.bad \in SUBSET Tasks BY DEF Hosts
<1>2. PICK done \in SUBSET Tasks : done = h.rec.done \cup h.fin BY <1>1 DEF Records
<1>3. PICK bad \in SUBSET Tasks : bad = h.rec.bad \cup h.bad BY <1>1 DEF Records
<1>4. PICK q \in Records : q = [h.rec EXCEPT !.status = "done", !.pid = 0, !.done = done, !.bad = bad]
  <2>1. 0 \in 0 .. MaxCrashes + 1 BY BoundsAssumption
  <2> QED BY <1>1, <2>1 DEF Records
<1>5. q = Completed(h) BY <1>1, <1>2, <1>3, <1>4 DEF Completed, Records
<1>6. q.status = "done" /\ q.done = done /\ q.bad = bad BY <1>1, <1>4 DEF Records
<1>7. done \cup bad = Tasks BY <1>2, <1>3 DEF Todo, Left
<1> QED BY <1>5, <1>6, <1>7 DEF Fine

\* The finally clause of a run, whether its host is up or closed.
LEMMA Saved ==
    ASSUME IInv, NEW c \in Crews, NEW n \in Slots, host[c][n].work \in {"ready", "task"},
           NEW h \in Hosts, h.life = host[c][n].life,
           NEW q \in Records, Fine(q), q.status # "running", Saves(c, n, h, q),
           UNCHANGED <<hosted, req, quota, outs, proc, crashes>>
    PROVE  IInv'
<1>1. h.life \in {"up", "closed"} BY AtWork
<1>2. CASE h.life = "closed"
  <2>1. NoHost \in Hosts /\ HostOK(NoHost) /\ NoHost.life = "none"
    BY BoundsAssumption DEF NoHost, NoRecord, Hosts, Records, HostOK
  <2> QED BY <1>2, <2>1, Writes DEF Saves
<1>3. CASE h.life = "up"
  <2>1. PICK g \in Hosts : g = [h EXCEPT !.work = "saved", !.rec = q] BY DEF Hosts
  <2>2. g.life = "up" /\ g.work = "saved" BY <1>3, <2>1 DEF Hosts
  <2> QED BY <1>1, <1>3, <2>1, <2>2, Writes DEF Saves, HostOK
<1> QED BY <1>1, <1>2, <1>3

LEMMA AtBoundary ==
    ASSUME IInv, NEW c \in Crews, NEW n \in Slots, host[c][n].work = "task",
           NEW h \in Hosts, h.life = host[c][n].life, Boundary(c, n, h),
           UNCHANGED <<hosted, req, quota, outs, proc, crashes>>
    PROVE  IInv'
<1>1. CASE Saves(c, n, h, CutOff(h, "error")) BY <1>1, CutOffFine, Saved
<1>2. CASE NextNeeds(Todo(h)) /\ Saves(c, n, h, CutOff(h, "paused"))
  BY <1>2, CutOffFine, Saved DEF NextNeeds
<1>3. CASE Todo(h) = {} /\ Saves(c, n, h, Completed(h)) BY <1>3, CompletedFine, Saved
<1>4. CASE Todo(h) # {} /\ HostIs(c, n, [h EXCEPT !.work = "ready"]) /\ UNCHANGED rec
  <2>1. PICK g \in Hosts : g = [h EXCEPT !.work = "ready"] BY DEF Hosts
  <2>2. g.life = h.life /\ g.work = "ready" /\ Todo(g) = Todo(h) BY <2>1 DEF Hosts, Todo
  <2>3. h.life \in {"up", "closed"} BY AtWork
  <2> QED BY <1>4, <2>1, <2>2, <2>3, Works DEF HostOK
<1> QED BY <1>1, <1>2, <1>3, <1>4 DEF Boundary

LEMMA TaskEndsIInv == ASSUME IInv, NEW c \in Crews, NEW n \in Slots, TaskEnds(c, n) PROVE IInv'
<1>1. PICK h \in Hosts : h = host[c][n] /\ h.work = "task" /\ Todo(h) # {} BY AtWork DEF TaskEnds
<1>2. PICK t \in Tasks : t = First(Todo(h)) BY <1>1, AtWork
<1>3. UNCHANGED <<hosted, req, quota, outs, proc, crashes>> BY DEF TaskEnds
<1>4. PICK good \in Hosts : good = [h EXCEPT !.fin = @ \cup {t}] BY DEF Hosts
<1>5. PICK flawed \in Hosts : flawed = [h EXCEPT !.bad = @ \cup {t}] BY DEF Hosts
<1>6. good.life = h.life /\ flawed.life = h.life BY <1>4, <1>5 DEF Hosts
<1>7. \/ Boundary(c, n, good) \/ Boundary(c, n, flawed)
      \/ Saves(c, n, flawed, CutOff(flawed, "error"))
      \/ Saves(c, n, h, CutOff(h, "error")) \/ Saves(c, n, h, CutOff(h, "paused"))
  BY <1>1, <1>2, <1>4, <1>5 DEF TaskEnds
<1>8. CASE Boundary(c, n, good) \/ Boundary(c, n, flawed) BY <1>1, <1>3, <1>6, <1>8, AtBoundary
<1>9. CASE Saves(c, n, flawed, CutOff(flawed, "error")) BY <1>1, <1>3, <1>6, <1>9, CutOffFine, Saved
<1>10. CASE Saves(c, n, h, CutOff(h, "error")) BY <1>1, <1>3, <1>10, CutOffFine, Saved
<1>11. CASE Saves(c, n, h, CutOff(h, "paused")) BY <1>1, <1>3, <1>11, CutOffFine, Saved
<1> QED BY <1>7, <1>8, <1>9, <1>10, <1>11

LEMMA TaskRefusedIInv == ASSUME IInv, NEW c \in Crews, NEW n \in Slots, TaskRefused(c, n) PROVE IInv'
<1>1. PICK h \in Hosts : h = host[c][n] BY AtWork
<1> QED BY <1>1, CutOffFine, Saved DEF TaskRefused

LEMMA WorkerStartsIInv == ASSUME IInv, NEW c \in Crews, NEW n \in Slots, WorkerStarts(c, n) PROVE IInv'
<1>1. PICK h \in Hosts : h = host[c][n] /\ h.work = "fresh" /\ Todo(h) # {} /\ h.life \in {"up", "closed"}
  BY AtWork DEF WorkerStarts
<1>2. proc \in 0 .. MaxCrashes + 1 /\ proc <= proc BY BoundsAssumption DEF IInv, TypeOK
<1>3. PICK q \in Records : q = Begun(h) BY <1>2 DEF Begun, Hosts, Records
<1>4. q.status = "running" /\ q.pid = proc /\ q.done = h.rec.done BY <1>3 DEF Begun, Hosts, Records
<1>5. PICK g \in Hosts : g = [h EXCEPT !.work = "ready", !.rec = q] BY DEF Hosts
<1>6. g.work = "ready" /\ g.life = h.life /\ Todo(g) = Todo(h) BY <1>4, <1>5 DEF Hosts, Todo, Left
<1>7. HostOK(g) /\ Fine(q) BY <1>1, <1>4, <1>6 DEF HostOK, Fine
<1>8. HostIs(c, n, g) /\ rec' = [rec EXCEPT ![c] = q] /\ UNCHANGED <<hosted, req, quota, outs, proc, crashes>>
  BY <1>1, <1>3, <1>5 DEF WorkerStarts
<1> QED BY <1>1, <1>2, <1>4, <1>6, <1>7, <1>8, Writes

LEMMA HostSteps ==
    ASSUME IInv, NEW c \in Crews, NEW n \in Slots, ThreadStarts(c, n) \/ TaskStarts(c, n) \/ HostEnds(c, n)
    PROVE  IInv'
<1>1. PICK h \in Hosts : h = host[c][n] /\ HostOK(h) BY AtWork
<1>2. UNCHANGED <<rec, hosted, req, quota, outs, proc, crashes>> BY DEF ThreadStarts, TaskStarts, HostEnds
<1>3. CASE ThreadStarts(c, n)
  <2>1. PICK g \in Hosts : g = [h EXCEPT !.work = "fresh"] BY DEF Hosts
  <2>2. g.life = h.life /\ g.work = "fresh" /\ Todo(g) = Todo(h) BY <2>1 DEF Hosts, Todo
  <2>3. HostIs(c, n, g) /\ h.life = "up" /\ h.work = "none"
    BY <1>1, <1>3, <2>1 DEF ThreadStarts, HostIs, IInv, TypeOK
  <2> QED BY <1>1, <1>2, <2>2, <2>3, Works DEF HostOK
<1>4. CASE TaskStarts(c, n)
  <2>1. PICK g \in Hosts : g = [h EXCEPT !.work = "task"] BY DEF Hosts
  <2>2. g.life = h.life /\ g.work = "task" /\ Todo(g) = Todo(h) BY <2>1 DEF Hosts, Todo
  <2>3. HostIs(c, n, g) /\ h.work = "ready" BY <1>1, <1>4, <2>1 DEF TaskStarts
  <2>4. h.life \in {"up", "closed"} /\ Todo(h) # {} BY <1>1, <2>3, AtWork
  <2> QED BY <1>1, <1>2, <2>2, <2>3, <2>4, Works DEF HostOK
<1>5. CASE HostEnds(c, n)
  <2>1. PICK g \in Hosts : g = [NoHost EXCEPT !.life = "over"]
    <3>1. NoHost \in Hosts BY BoundsAssumption DEF Hosts, NoHost, NoRecord, Records
    <3> QED BY <3>1 DEF Hosts
  <2>2. g.life = "over" /\ g.work = "none" BY <2>1 DEF NoHost
  <2>3. HostIs(c, n, g) /\ h.life = "up" /\ h.work = "saved" BY <1>1, <1>5, <2>1 DEF HostEnds
  <2> QED BY <1>1, <1>2, <2>2, <2>3, Works DEF HostOK
<1> QED BY <1>3, <1>4, <1>5

-----------------------------------------------------------------------------
(* The calls of start() and resume().                                      *)

\* A call that holds no object goes on to another that holds none.
LEMMA CallLight ==
    ASSUME IInv, NEW r \in Callers, NEW q \in Calls, CallIs(r, q), ~Held(q), q.pc # "idle" => q.crew \in Crews,
           UNCHANGED <<host, hosted>>
    PROVE  /\ req' \in [Callers -> Calls] /\ host' \in [Crews -> [Slots -> Hosts]]
           /\ HostsOK' /\ CallsOK' /\ Apart'
<1>1. /\ req' \in [Callers -> Calls] /\ req'[r] = q /\ \A u \in Callers \ {r} : req'[u] = req[u]
  BY DEF CallIs, IInv, TypeOK
<1>2. host' \in [Crews -> [Slots -> Hosts]] /\ HostsOK' BY DEF IInv, TypeOK, HostsOK, HostOK, Todo, Left
<1>3. CallsOK'
  <2> SUFFICES ASSUME NEW u \in Callers PROVE CallOK(req[u])' BY DEF CallsOK
  <2>1. CASE u = r BY <1>1, <2>1 DEF CallOK, Held
  <2>2. CASE u # r
    <3>1. CallOK(req[u]) BY DEF IInv, CallsOK
    <3> QED BY <1>1, <2>2, <3>1 DEF CallOK, Held
  <2> QED BY <2>1, <2>2
<1>4. Apart' BY <1>1 DEF Apart, IInv, Held
<1> QED BY <1>1, <1>2, <1>3, <1>4

\* build_host: a new object, held by the call that built it.
LEMMA Built ==
    ASSUME IInv, NEW r \in Callers, NEW c \in Crews, NEW n \in Free(c), NEW h \in Hosts, HostIs(c, n, h),
           h.life = "built", HostOK(h),
           NEW q \in Calls, CallIs(r, q), Held(q), q.crew = c, q.slot = n,
           q.pc = "adopt" => hosted[c] = 0 /\ c \notin Pending,
           UNCHANGED <<rec, hosted, quota, outs, proc, crashes>>
    PROVE  IInv'
<1>1. n \in Slots /\ host[c][n].life = "none" /\ host[c][n].work = "none"
  <2>1. n \in Slots /\ host[c][n].life = "none" BY DEF Free
  <2> QED BY <2>1, AtWork DEF HostOK
<1>2. /\ host' \in [Crews -> [Slots -> Hosts]] /\ host'[c][n] = h
      /\ \A d \in Crews, m \in Slots : <<d, m>> # <<c, n>> => host'[d][m] = host[d][m]
  BY <1>1 DEF HostIs, IInv, TypeOK
<1>3. HostsOK' BY <1>2 DEF HostsOK, IInv, HostOK, Todo, Left
<1>4. rec' \in [Crews -> Records] /\ RecordsOK'
  <2>1. \A d \in Crews, m \in Slots :
          host[d][m].work \in {"ready", "task"} => host'[d][m].work \in {"ready", "task"}
    BY <1>1, <1>2
  <2> QED BY <2>1, RecordsKept
<1>5. /\ req' \in [Callers -> Calls] /\ req'[r] = q /\ \A u \in Callers \ {r} : req'[u] = req[u]
  BY DEF CallIs, IInv, TypeOK
<1>6. CallsOK'
  <2> SUFFICES ASSUME NEW u \in Callers PROVE CallOK(req[u])' BY DEF CallsOK
  <2>1. CASE u = r
    <3>1. q.pc = "adopt" => \A m \in Slots : host'[c][m].life # "up"
      <4> SUFFICES ASSUME q.pc = "adopt", NEW m \in Slots PROVE host'[c][m].life # "up" OBVIOUS
      <4>1. host[c][m].life = "up" => hosted[c] = m BY DEF IInv, HostsOK
      <4>2. hosted[c] # m BY DEF Slots
      <4> QED BY <1>2, <4>1, <4>2
    <3> QED BY <1>1, <1>2, <1>5, <2>1, <3>1 DEF CallOK, Held
  <2>2. CASE u # r
    <3>1. CallOK(req[u]) /\ req'[u] = req[u] BY <1>5, <2>2 DEF IInv, CallsOK
    <3>2. \A m \in Slots : req[u].crew \in Crews /\ host[req[u].crew][m].life = "built"
            => host'[req[u].crew][m] = host[req[u].crew][m]
      BY <1>1, <1>2
    <3>3. \A m \in Slots : req[u].crew \in Crews /\ host[req[u].crew][m].life # "up"
            => host'[req[u].crew][m].life # "up"
      BY <1>2
    <3> QED BY <3>1, <3>2, <3>3 DEF CallOK, Held
  <2> QED BY <2>1, <2>2
<1>7. Apart'
  <2>1. ASSUME NEW u \in Callers \ {r}, req[u].crew = c
        PROVE  (Held(req[u]) => req[u].slot # n) /\ (q.pc = "adopt" => req[u].pc # "adopt")
    <3>1. CallOK(req[u]) BY DEF IInv, CallsOK
    <3>2. Held(req[u]) => req[u].slot # n BY <1>1, <2>1, <3>1 DEF CallOK
    <3>3. q.pc = "adopt" => req[u].pc # "adopt" BY <2>1 DEF Pending
    <3> QED BY <3>2, <3>3
  <2> QED BY <1>5, <2>1 DEF Apart, IInv, Held
<1> QED BY <1>2, <1>3, <1>4, <1>5, <1>6, <1>7 DEF IInv, TypeOK

\* The call lets its object go, or starts it.
LEMMA Settled ==
    ASSUME IInv, NEW r \in Callers, Held(req[r]), NEW c, c = req[r].crew, NEW n, n = req[r].slot,
           NEW h \in Hosts, HostIs(c, n, h), HostOK(h), h.life # "built", CallIs(r, Idle),
           h.life = "up" => req[r].pc = "adopt" /\ hosted' = [hosted EXCEPT ![c] = n],
           h.life # "up" => UNCHANGED hosted,
           UNCHANGED <<rec, quota, outs, proc, crashes>>
    PROVE  IInv'
<1>0. CallOK(req[r]) BY DEF IInv, CallsOK
<1>1. c \in Crews /\ n \in Slots /\ host[c][n].life = "built" /\ host[c][n].work = "none"
  <2>1. c \in Crews /\ n \in Slots /\ host[c][n].life = "built" BY <1>0 DEF CallOK, Held
  <2> QED BY <2>1, AtWork DEF HostOK
<1>2. /\ host' \in [Crews -> [Slots -> Hosts]] /\ host'[c][n] = h
      /\ \A d \in Crews, m \in Slots : <<d, m>> # <<c, n>> => host'[d][m] = host[d][m]
  BY <1>1 DEF HostIs, IInv, TypeOK
<1>3. hosted' \in [Crews -> 0 .. MaxHosts] BY <1>1 DEF IInv, TypeOK, Slots
<1>4. HostsOK'
  <2> SUFFICES ASSUME NEW d \in Crews, NEW m \in Slots
               PROVE  HostOK(host[d][m])' /\ (host'[d][m].life = "up" => hosted'[d] = m)
    BY DEF HostsOK
  <2>1. HostOK(host[d][m]) /\ (host[d][m].life = "up" => hosted[d] = m) BY DEF IInv, HostsOK
  <2>2. HostOK(host[d][m])' BY <1>2, <2>1 DEF HostOK, Todo, Left
  <2>3. hosted \in [Crews -> 0 .. MaxHosts] BY DEF IInv, TypeOK
  <2>4. CASE h.life = "up"
    <3>1. \A k \in Slots : host[c][k].life # "up" BY <1>0, <2>4 DEF CallOK
    <3> QED BY <1>1, <1>2, <2>1, <2>2, <2>3, <2>4, <3>1
  <2>5. CASE h.life # "up" BY <1>2, <2>1, <2>2, <2>5
  <2> QED BY <2>4, <2>5
<1>5. rec' \in [Crews -> Records] /\ RecordsOK'
  <2>1. \A d \in Crews, m \in Slots :
          host[d][m].work \in {"ready", "task"} => host'[d][m].work \in {"ready", "task"}
    BY <1>1, <1>2
  <2> QED BY <2>1, RecordsKept
<1>6. /\ req' \in [Callers -> Calls] /\ req'[r] = Idle /\ \A u \in Callers \ {r} : req'[u] = req[u]
  <2>1. Idle \in Calls BY BoundsAssumption DEF Idle, Calls, NoRecord, Records
  <2> QED BY <2>1 DEF CallIs, IInv, TypeOK
<1>7. ASSUME NEW u \in Callers \ {r}, Held(req[u]), req[u].crew = c
      PROVE  req[u].slot # n /\ (h.life = "up" => req[u].pc # "adopt")
  BY <1>7 DEF IInv, Apart
<1>8. CallsOK'
  <2> SUFFICES ASSUME NEW u \in Callers PROVE CallOK(req[u])' BY DEF CallsOK
  <2>1. CASE u = r BY <1>6, <2>1 DEF CallOK, Held, Idle
  <2>2. CASE u # r
    <3>1. CallOK(req[u]) /\ req'[u] = req[u] BY <1>6, <2>2 DEF IInv, CallsOK
    <3>2. Held(req[u]) => host'[req[u].crew][req[u].slot].life = "built"
      BY <1>2, <1>7, <2>2, <3>1 DEF CallOK, Held
    <3>3. req[u].pc = "adopt" => \A m \in Slots : host'[req[u].crew][m].life # "up"
      BY <1>2, <1>7, <2>2, <3>1 DEF CallOK, Held
    <3> QED BY <3>1, <3>2, <3>3 DEF CallOK, Held
  <2> QED BY <2>1, <2>2
<1>9. Apart' BY <1>6 DEF Apart, IInv, Held, Idle
<1> QED BY <1>2, <1>3, <1>4, <1>5, <1>6, <1>8, <1>9 DEF IInv, TypeOK

LEMMA ReconciledFine ==
    ASSUME IInv, NEW c \in Crews
    PROVE  /\ Reconciled(c) \in Records /\ Fine(Reconciled(c))
           /\ Reconciled(c).status = "running" => Worked(c) /\ Reconciled(c).pid = rec[c].pid /\ rec[c].status = "running"
<1>1. rec[c] \in Records /\ Fine(rec[c]) /\ Worked(c) BY DEF IInv, TypeOK, RecordsOK
<1>2. CASE rec[c].status = "running" /\ rec[c].pid # proc
  <2>1. 0 \in 0 .. MaxCrashes + 1 BY BoundsAssumption
  <2>2. PICK q \in Records : q = [rec[c] EXCEPT !.status = "interrupted", !.pid = 0] BY <1>1, <2>1 DEF Records
  <2>3. q.status = "interrupted" BY <1>1, <2>2 DEF Records
  <2>4. Reconciled(c) = q BY <1>2, <2>2 DEF Reconciled
  <2> QED BY <2>3, <2>4 DEF Fine
<1>3. CASE ~(rec[c].status = "running" /\ rec[c].pid # proc)
  <2>1. Reconciled(c) = rec[c] BY <1>3 DEF Reconciled
  <2> QED BY <1>1, <2>1
<1> QED BY <1>2, <1>3

\* A record as a reader finds it, written back.
LEMMA ReadBack ==
    ASSUME IInv, NEW c \in Crews, rec' = [rec EXCEPT ![c] = Reconciled(c)], UNCHANGED <<host, proc>>
    PROVE  rec' \in [Crews -> Records] /\ RecordsOK'
<1>1. PICK q \in Records : q = Reconciled(c) /\ Fine(q) BY ReconciledFine
<1>2. q.status = "running" => q.pid <= proc /\ (q.pid = proc => HasWorker(c)')
  BY <1>1, ReconciledFine DEF Worked, HasWorker
<1> QED BY <1>1, <1>2, RecordWritten

LEMMA RunIInv == ASSUME IInv, NEW r \in Callers, NEW c \in Crews, Run(r, c) PROVE IInv'
<1>1. PICK n \in Free(c) :
        /\ HostIs(c, n, [NoHost EXCEPT !.life = "built", !.rec = rec[c]])
        /\ CallIs(r, [Idle EXCEPT !.pc = "adopt", !.crew = c, !.slot = n])
  BY DEF Run
<1>2. NoHost \in Hosts /\ Idle \in Calls /\ rec[c] \in Records /\ n \in 0 .. MaxHosts
  BY BoundsAssumption DEF NoHost, Idle, NoRecord, Hosts, Calls, Records, IInv, TypeOK, Free, Slots
<1>3. PICK h \in Hosts : h = [NoHost EXCEPT !.life = "built", !.rec = rec[c]] BY <1>2 DEF Hosts
<1>4. h.life = "built" /\ h.work = "none" /\ h.rec = rec[c] /\ h.fin = {} /\ h.bad = {} BY <1>3 DEF NoHost
<1>5. rec[c].status = "planned" /\ rec[c].done = {} BY DEF Run, IInv, RecordsOK, Fine
<1>6. HostOK(h) BY <1>4, <1>5, TasksToDo DEF HostOK, Todo, Left
<1>7. PICK q \in Calls : q = [Idle EXCEPT !.pc = "adopt", !.crew = c, !.slot = n] BY <1>2 DEF Calls
<1>8. q.pc = "adopt" /\ q.crew = c /\ q.slot = n BY <1>7 DEF Idle
<1>9. hosted[c] = 0 /\ c \notin Pending /\ UNCHANGED <<rec, hosted, quota, outs, proc, crashes>> BY DEF Run
<1> QED BY <1>1, <1>3, <1>4, <1>6, <1>7, <1>8, <1>9, Built DEF Held

LEMMA ResumeIInv == ASSUME IInv, NEW r \in Callers, NEW c \in Crews, Resume(r, c) PROVE IInv'
<1>1. Reconciled(c) \in Records BY ReconciledFine
<1>2. Idle \in Calls BY BoundsAssumption DEF Idle, NoRecord, Calls, Records
<1>3. PICK q \in Calls : q = [Idle EXCEPT !.pc = "job", !.crew = c, !.rec = Reconciled(c)]
  BY <1>1, <1>2 DEF Calls
<1>4. q.pc = "job" /\ q.crew = c BY <1>3 DEF Idle
<1>5. CallIs(r, q) /\ UNCHANGED <<host, hosted, quota, outs, proc, crashes>> BY <1>3 DEF Resume
<1>6. rec' \in [Crews -> Records] /\ RecordsOK' BY <1>5, ReadBack DEF Resume
<1>7. /\ req' \in [Callers -> Calls] /\ host' \in [Crews -> [Slots -> Hosts]]
      /\ HostsOK' /\ CallsOK' /\ Apart'
  BY <1>4, <1>5, CallLight DEF Held
<1> QED BY <1>5, <1>6, <1>7 DEF IInv, TypeOK

LEMMA BuildsIInv == ASSUME IInv, NEW r \in Callers, Builds(r) PROVE IInv'
<1>1. PICK c \in Crews : c = req[r].crew BY DEF Builds, IInv, CallsOK, CallOK
<1>2. PICK copy \in Records : copy = req[r].rec BY DEF IInv, TypeOK, Calls
<1>3. Idle \in Calls /\ Idle.pc = "idle" BY BoundsAssumption DEF Idle, NoRecord, Calls, Records
<1>4. UNCHANGED <<hosted, quota, outs, proc, crashes>> BY DEF Builds
<1>5. ASSUME CallIs(r, Idle), UNCHANGED host, rec' \in [Crews -> Records], RecordsOK' PROVE IInv'
  <2>1. /\ req' \in [Callers -> Calls] /\ host' \in [Crews -> [Slots -> Hosts]]
        /\ HostsOK' /\ CallsOK' /\ Apart'
    BY <1>3, <1>4, <1>5, CallLight DEF Held
  <2> QED BY <1>4, <1>5, <2>1 DEF IInv, TypeOK
<1>6. CASE CallIs(r, Idle) /\ UNCHANGED host /\ UNCHANGED rec
  <2>1. rec' \in [Crews -> Records] /\ RecordsOK' BY <1>4, <1>6, RecordsKept
  <2> QED BY <1>5, <1>6, <2>1
<1>7. CASE /\ copy.status \in {"paused", "interrupted"} /\ Left(copy) # {}
           /\ CallIs(r, Idle) /\ UNCHANGED host /\ rec' = [rec EXCEPT ![c] = [copy EXCEPT !.due = "later"]]
  <2>1. PICK q \in Records : q = [copy EXCEPT !.due = "later"] BY DEF Records
  <2>2. q.status = copy.status /\ q.due = "later" /\ Left(q) = Left(copy) BY <2>1 DEF Records, Left
  <2>3. Fine(q) /\ q.status # "running" BY <1>7, <2>2 DEF Fine
  <2>4. rec' \in [Crews -> Records] /\ RecordsOK' BY <1>4, <1>7, <2>1, <2>3, RecordWritten
  <2> QED BY <1>5, <1>7, <2>4
<1>8. CASE /\ Left(copy) # {} /\ UNCHANGED rec
           /\ \E n \in Free(c) :
                 /\ HostIs(c, n, [NoHost EXCEPT !.life = "built", !.rec = [copy EXCEPT !.due = "never"]])
                 /\ CallIs(r, [Idle EXCEPT !.pc = "launch", !.crew = c, !.slot = n])
  <2>1. PICK n \in Free(c) :
           /\ HostIs(c, n, [NoHost EXCEPT !.life = "built", !.rec = [copy EXCEPT !.due = "never"]])
           /\ CallIs(r, [Idle EXCEPT !.pc = "launch", !.crew = c, !.slot = n])
    BY <1>8
  <2>2. NoHost \in Hosts /\ n \in 0 .. MaxHosts
    BY BoundsAssumption DEF NoHost, NoRecord, Hosts, Records, Free, Slots
  <2>3. PICK own \in Records : own = [copy EXCEPT !.due = "never"] BY DEF Records
  <2>4. Left(own) # {} BY <1>8, <2>3 DEF Left, Records
  <2>5. PICK h \in Hosts : h = [NoHost EXCEPT !.life = "built", !.rec = own] BY <2>2 DEF Hosts
  <2>6. h.life = "built" /\ h.work = "none" /\ h.rec = own /\ h.fin = {} /\ h.bad = {} BY <2>5 DEF NoHost
  <2>7. HostOK(h) BY <2>4, <2>6 DEF HostOK, Todo
  <2>8. PICK q \in Calls : q = [Idle EXCEPT !.pc = "launch", !.crew = c, !.slot = n] BY <1>3, <2>2 DEF Calls
  <2>9. q.pc = "launch" /\ q.crew = c /\ q.slot = n BY <2>8 DEF Idle
  <2> QED BY <1>4, <1>8, <2>1, <2>3, <2>5, <2>6, <2>7, <2>8, <2>9, Built DEF Held
<1> QED BY <1>1, <1>2, <1>6, <1>7, <1>8 DEF Builds

LEMMA NoHostFits == NoHost \in Hosts /\ NoHost.life = "none" /\ HostOK(NoHost)
BY BoundsAssumption DEF NoHost, NoRecord, Hosts, Records, HostOK

LEMMA LaunchesIInv == ASSUME IInv, NEW r \in Callers, Launches(r) PROVE IInv'
<1>1. PICK c \in Crews : c = req[r].crew BY DEF Launches, IInv, CallsOK, CallOK
<1>2. /\ req[r].pc = "launch" /\ Held(req[r]) /\ req[r] \in Calls /\ CallOK(req[r])
      /\ UNCHANGED <<rec, hosted, quota, outs, proc, crashes>>
  BY DEF Launches, Held, IInv, TypeOK, CallsOK
<1>3. CASE HostIs(c, req[r].slot, NoHost) /\ CallIs(r, Idle) BY <1>1, <1>2, <1>3, NoHostFits, Settled
<1>4. CASE ~Live(c) /\ CallIs(r, [req[r] EXCEPT !.pc = "adopt"]) /\ UNCHANGED host
  <2>1. PICK q \in Calls : q = [req[r] EXCEPT !.pc = "adopt"] BY <1>2 DEF Calls
  <2>2. q.pc = "adopt" /\ q.crew = c /\ q.slot = req[r].slot BY <1>1, <1>2, <2>1 DEF Calls
  <2>3. /\ req' \in [Callers -> Calls] /\ req'[r] = q /\ \A u \in Callers \ {r} : req'[u] = req[u]
    BY <1>4, <2>1 DEF CallIs, IInv, TypeOK
  <2>4. \A n \in Slots : host[c][n].life # "up"
    <3> SUFFICES ASSUME NEW n \in Slots, host[c][n].life = "up" PROVE FALSE OBVIOUS
    <3>1. hosted[c] = n /\ n # 0 BY DEF IInv, HostsOK, Slots
    <3> QED BY <1>4, <3>1 DEF Live, Busy
  <2>5. \A u \in Callers : req[u].pc = "adopt" => req[u].crew # c BY <1>4 DEF Live, Pending
  <2>6. CallsOK'
    <3> SUFFICES ASSUME NEW u \in Callers PROVE CallOK(req[u])' BY DEF CallsOK
    <3>1. CASE u = r BY <1>1, <1>2, <1>4, <2>2, <2>3, <2>4, <3>1 DEF CallOK, Held
    <3>2. CASE u # r
      <4>1. CallOK(req[u]) BY DEF IInv, CallsOK
      <4> QED BY <1>4, <2>3, <3>2, <4>1 DEF CallOK, Held
    <3> QED BY <3>1, <3>2
  <2>7. Apart' BY <1>1, <1>2, <2>2, <2>3, <2>5 DEF Apart, IInv, Held
  <2>8. rec' \in [Crews -> Records] /\ RecordsOK' BY <1>2, <1>4, RecordsKept
  <2>9. HostsOK' BY <1>2, <1>4 DEF IInv, HostsOK, HostOK, Todo, Left
  <2> QED BY <1>2, <1>4, <2>3, <2>6, <2>7, <2>8, <2>9 DEF IInv, TypeOK
<1> QED BY <1>1, <1>3, <1>4 DEF Launches

LEMMA AdoptIInv == ASSUME IInv, NEW r \in Callers, Adopted(r) \/ AdoptRefused(r) PROVE IInv'
<1>1. PICK c \in Crews : c = req[r].crew BY DEF Adopted, AdoptRefused, IInv, CallsOK, CallOK
<1>2. PICK n \in Slots : n = req[r].slot
  BY DEF Adopted, AdoptRefused, IInv, CallsOK, CallOK, Held
<1>3. /\ req[r].pc = "adopt" /\ Held(req[r]) /\ CallIs(r, Idle) /\ host[c][n].life = "built"
      /\ UNCHANGED <<rec, quota, outs, proc, crashes>>
  BY <1>1, <1>2 DEF Adopted, AdoptRefused, Held, IInv, CallsOK, CallOK
<1>4. CASE Adopted(r)
  <2>1. PICK h \in Hosts : h = [host[c][n] EXCEPT !.life = "up"] BY AtWork DEF Hosts
  <2>2. h.life = "up" /\ h.work = "none" /\ Todo(h) = Todo(host[c][n]) /\ host[c][n].work = "none"
    BY <1>3, <2>1, AtWork DEF Hosts, HostOK, Todo
  <2>3. HostOK(h) BY <1>3, <2>2, AtWork DEF HostOK
  <2>4. HostIs(c, n, h) /\ hosted' = [hosted EXCEPT ![c] = n]
    BY <1>1, <1>2, <1>4, <2>1 DEF Adopted, HostIs, IInv, TypeOK
  <2> QED BY <1>1, <1>2, <1>3, <2>2, <2>3, <2>4, Settled
<1>5. CASE AdoptRefused(r)
  <2>1. HostIs(c, n, NoHost) /\ UNCHANGED hosted BY <1>1, <1>2, <1>5 DEF AdoptRefused
  <2> QED BY <1>1, <1>2, <1>3, <2>1, NoHostFits, Settled
<1> QED BY <1>4, <1>5

-----------------------------------------------------------------------------
(* The routes, the other readers, the clock and the process.               *)

LEMMA RecordSteps ==
    ASSUME IInv, NEW c \in Crews, MakePlan(c) \/ Discard(c) \/ Reconcile(c) \/ ResumeAfterComes(c)
    PROVE  IInv'
<1>1. UNCHANGED <<host, hosted, req, quota, outs, proc, crashes>>
  BY DEF MakePlan, Discard, Reconcile, ResumeAfterComes
<1>2. rec[c] \in Records /\ Fine(rec[c]) /\ Worked(c) BY DEF IInv, TypeOK, RecordsOK
<1>3. ASSUME NEW q \in Records, rec' = [rec EXCEPT ![c] = q], Fine(q),
             q.status = "running" => rec[c].status = "running" /\ q.pid = rec[c].pid
      PROVE  rec' \in [Crews -> Records] /\ RecordsOK'
  <2>1. q.status = "running" => q.pid <= proc /\ (q.pid = proc => HasWorker(c)')
    BY <1>1, <1>2, <1>3 DEF Worked, HasWorker
  <2> QED BY <1>1, <1>3, <2>1, RecordWritten
<1>4. rec' \in [Crews -> Records] /\ RecordsOK'
  <2>1. CASE MakePlan(c)
    <3>1. PICK q \in Records : q = [rec[c] EXCEPT !.status = "planned"] BY <1>2 DEF Records
    <3>2. q.status = "planned" /\ q.done = rec[c].done /\ rec[c].status = "none"
      BY <1>2, <2>1, <3>1 DEF MakePlan, Records
    <3>3. Fine(q) BY <1>2, <3>2 DEF Fine
    <3>4. rec' = [rec EXCEPT ![c] = q] BY <2>1, <3>1 DEF MakePlan
    <3> QED BY <1>3, <3>2, <3>3, <3>4
  <2>2. CASE Discard(c)
    <3>1. PICK q \in Records : q = [rec[c] EXCEPT !.status = "cancelled"] BY <1>2 DEF Records
    <3>2. q.status = "cancelled" BY <1>2, <3>1 DEF Records
    <3>3. rec' = [rec EXCEPT ![c] = q] BY <2>2, <3>1 DEF Discard
    <3> QED BY <1>3, <3>2, <3>3 DEF Fine
  <2>3. CASE Reconcile(c) BY <1>1, <2>3, ReadBack DEF Reconcile
  <2>4. CASE ResumeAfterComes(c)
    <3>1. PICK q \in Records : q = [rec[c] EXCEPT !.due = "now"] BY <1>2 DEF Records
    <3>2. /\ q.status = rec[c].status /\ q.done = rec[c].done /\ q.bad = rec[c].bad
          /\ q.pid = rec[c].pid /\ q.due = "now"
      BY <1>2, <3>1 DEF Records
    <3>3. Fine(q) BY <1>2, <3>2 DEF Fine, Left
    <3>4. rec' = [rec EXCEPT ![c] = q] BY <2>4, <3>1 DEF ResumeAfterComes
    <3> QED BY <1>3, <3>2, <3>3, <3>4
  <2> QED BY <2>1, <2>2, <2>3, <2>4
<1>5. HostsOK' /\ CallsOK' /\ Apart'
  BY <1>1 DEF IInv, HostsOK, HostOK, Todo, Left, CallsOK, CallOK, Held, Apart
<1> QED BY <1>1, <1>4, <1>5 DEF IInv, TypeOK

LEMMA CloseSteps == ASSUME IInv, NEW c \in Crews, Stop(c) \/ Close(c) \/ Reap(c) PROVE IInv'
<1>1. PICK n \in Slots : n = hosted[c] /\ host[c][n].life \in {"up", "over"}
  BY DEF Stop, Close, Reap, Busy, IInv, TypeOK, Slots
<1>2. PICK h \in Hosts : h = host[c][n] /\ HostOK(h) BY AtWork
<1>3. UNCHANGED <<rec, hosted, req, quota, outs, proc, crashes>> BY DEF Stop, Close, Reap, Closed
<1>4. CASE Stop(c)
  <2>1. PICK g \in Hosts : g = [h EXCEPT !.stop = TRUE] BY DEF Hosts
  <2>2. g.life = h.life /\ g.work = h.work /\ Todo(g) = Todo(h) BY <2>1 DEF Hosts, Todo
  <2>3. HostIs(c, n, g) BY <1>1, <1>2, <1>4, <2>1 DEF Stop, HostIs, IInv, TypeOK
  <2> QED BY <1>1, <1>2, <1>3, <2>2, <2>3, Works DEF HostOK
<1>5. CASE Closed(c)
  <2>1. CASE h.work \in {"none", "saved"}
    <3>1. HostIs(c, n, NoHost) BY <1>1, <1>2, <1>5, <2>1 DEF Closed
    <3> QED BY <1>1, <1>2, <1>3, <2>1, <3>1, NoHostFits, Works
  <2>2. CASE h.work \notin {"none", "saved"}
    <3>1. PICK g \in Hosts : g = [h EXCEPT !.life = "closed", !.stop = TRUE] BY DEF Hosts
    <3>2. g.life = "closed" /\ g.work = h.work /\ Todo(g) = Todo(h) BY <3>1 DEF Hosts, Todo
    <3>3. HostIs(c, n, g) BY <1>1, <1>2, <1>5, <2>2, <3>1 DEF Closed
    <3>4. HostOK(g) BY <1>1, <1>2, <2>2, <3>2 DEF HostOK
    <3> QED BY <1>1, <1>2, <1>3, <3>2, <3>3, <3>4, Works
  <2> QED BY <2>1, <2>2
<1> QED BY <1>4, <1>5 DEF Close, Reap

LEMMA CrashIInv == ASSUME IInv, Crash PROVE IInv'
<1>1. /\ crashes \in 0 .. MaxCrashes /\ proc = crashes + 1 /\ crashes < MaxCrashes
      /\ crashes' = crashes + 1 /\ proc' = proc + 1 /\ UNCHANGED <<rec, quota, outs>>
      /\ host' = [c \in Crews |-> [n \in Slots |-> NoHost]]
      /\ hosted' = [c \in Crews |-> 0] /\ req' = [r \in Callers |-> Idle]
  BY DEF Crash, IInv, TypeOK
<1>2. crashes' \in 0 .. MaxCrashes /\ proc' \in 1 .. MaxCrashes + 1 /\ proc' = crashes' + 1
  BY <1>1, BoundsAssumption
<1>3. Idle \in Calls /\ Idle.pc = "idle" /\ 0 \in 0 .. MaxHosts
  BY BoundsAssumption DEF Idle, NoRecord, Calls, Records
<1>4. RecordsOK'
  <2> SUFFICES ASSUME NEW c \in Crews PROVE Fine(rec[c])' /\ Worked(c)' BY DEF RecordsOK
  <2>1. Fine(rec[c]) /\ Worked(c) /\ rec[c].pid \in Int BY DEF IInv, RecordsOK, TypeOK, Records
  <2>2. rec[c].status = "running" => rec[c].pid <= proc' /\ rec[c].pid # proc'
    BY <1>1, <2>1 DEF Worked
  <2> QED BY <1>1, <2>1, <2>2 DEF Fine, Worked, Left
<1>5. HostsOK' BY <1>1, NoHostFits DEF HostsOK, HostOK, Todo, Left
<1>6. CallsOK' /\ Apart' BY <1>1, <1>3 DEF CallsOK, CallOK, Apart, Held
<1>7. TypeOK' BY <1>1, <1>2, <1>3, NoHostFits DEF TypeOK, IInv
<1> QED BY <1>2, <1>4, <1>5, <1>6, <1>7 DEF IInv

LEMMA NextIInv == IInv /\ [Next]_vars => IInv'
<1> SUFFICES ASSUME IInv, [Next]_vars PROVE IInv' OBVIOUS
<1>1. ASSUME UNCHANGED <<rec, host, hosted, req, proc, crashes>>, quota' \in BOOLEAN, outs' \in 0 .. MaxOuts
      PROVE  IInv'
  BY <1>1 DEF IInv, TypeOK, RecordsOK, Fine, Worked, HasWorker, HostsOK, HostOK, Todo, Left,
     CallsOK, CallOK, Held, Apart
<1>2. CASE UNCHANGED vars BY <1>1, <1>2 DEF vars, IInv, TypeOK
<1>3. CASE Loop BY <1>3, HostSteps DEF Loop
<1>4. CASE Worker BY <1>4, WorkerStartsIInv, HostSteps, TaskRefusedIInv, TaskEndsIInv DEF Worker
<1>5. CASE Call BY <1>5, RunIInv, ResumeIInv, BuildsIInv, LaunchesIInv, AdoptIInv DEF Call
<1>6. CASE Routes BY <1>6, RecordSteps, CloseSteps DEF Routes
<1>7. CASE Environment
  <2>1. CASE SpendQuota
    <3>1. outs' \in 0 .. MaxOuts BY <2>1, BoundsAssumption DEF SpendQuota, IInv, TypeOK
    <3> QED BY <1>1, <2>1, <3>1 DEF SpendQuota
  <2>2. CASE Reset BY <1>1, <2>2 DEF Reset, IInv, TypeOK
  <2> QED BY <1>7, <2>1, <2>2, RecordSteps, CrashIInv DEF Environment
<1> QED BY <1>2, <1>3, <1>4, <1>5, <1>6, <1>7 DEF Next

LEMMA Always == Spec => []IInv
BY InitIInv, NextIInv, PTL DEF Spec

-----------------------------------------------------------------------------
(* What follows from it.                                                   *)

\* The records, the hosts and the calls have the types the model gives them;
\* in particular no record ever has a status that no reader knows.
THEOREM TypeCorrect == Spec => []TypeOK
<1>1. IInv => TypeOK BY DEF IInv
<1> QED BY <1>1, Always, PTL

\* A crew has one host whose run is on, however starts, resumes and the tick's
\* resume overlap: launch's check and adopt's registration lie on both sides of
\* an await, and the ids being adopted bridge it.
THEOREM OneHost == Spec => []OneHostUp
<1>1. ASSUME IInv PROVE OneHostUp
  <2> SUFFICES ASSUME NEW c \in Crews PROVE Cardinality({n \in Slots : host[c][n].life = "up"}) <= 1
    BY DEF OneHostUp
  <2>1. {n \in Slots : host[c][n].life = "up"} \subseteq {hosted[c]} BY <1>1 DEF IInv, HostsOK
  <2>2. IsFiniteSet({hosted[c]}) /\ Cardinality({hosted[c]}) = 1 BY FS_Singleton
  <2> QED BY <2>1, <2>2, FS_Subset
<1> QED BY <1>1, Always, PTL

\* A record this process says is running has a thread that will write another
\* status, whatever was closed, stopped, resumed or restarted meanwhile.
THEOREM WorkerThere == Spec => []RunningHasWorker
<1>1. IInv => RunningHasWorker BY DEF IInv, RecordsOK, Worked, HasWorker, RunningHasWorker
<1> QED BY <1>1, Always, PTL

\* A crew that is done has an outcome for every task of its plan, over all the
\* runs and processes it took.
THEOREM DoneComplete == Spec => []DoneIsComplete
<1>1. IInv => DoneIsComplete BY DEF IInv, RecordsOK, Fine, DoneIsComplete
<1> QED BY <1>1, Always, PTL

\* A paused crew has a task left and a time to come back: resume never finds an
\* empty plan.
THEOREM PausedLeft == Spec => []PausedIsResumable
<1>1. IInv => PausedIsResumable BY DEF IInv, RecordsOK, Fine, PausedIsResumable
<1> QED BY <1>1, Always, PTL
=============================================================================
