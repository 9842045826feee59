---------------------------- MODULE TableProofs ----------------------------
(***************************************************************************)
(* The session table and the objects it names: theorems about Sessions for *)
(* every set of ids, handlers and bounds. What the code relies on without  *)
(* saying so is TableOK: an object is open exactly as long as the table    *)
(* (or what the shutdown has left of it) names it, the object a handler is *)
(* about to adopt is its own, is its id's newest and has no live sibling,  *)
(* and a list of ids to reap holds no crew that is at work.                *)
(***************************************************************************)
EXTENDS SessionsProofs

Makers == {"create", "adopt", "wake"}
Adopting(h) == h.op \in Makers /\ h.pc \in {"scan", "reap", "join", "disconnect", "saving"}
Closing(h) == h.pc \in {"join", "disconnect", "saving"}

\* In the table, and not yet closed by the shutdown's walk through it.
Awake(i) == live[i] # 0 /\ (task[Lifespan].op = "shutdown" => i \in task[Lifespan].stale)

OpenOK == \A o \in Objs : obj[o].phase = "open" <=> Awake(o[1]) /\ live[o[1]] = o[2]
FreshOK == \A o \in Objs : o[2] > gen[o[1]] => obj[o].phase = "none"
WorkerOK == \A o \in Objs : obj[o].phase = "open" =>
    /\ o[1] \in Crews => obj[o].worker \in {"run", "dead"}
    /\ o[1] \in Chats => obj[o].worker \in {"wait", "turn", "upkeep"}
\* A crew has no record to be woken from.
CrewOK == \A i \in Crews : gen[i] <= 1

Role(t, h) ==
    /\ h.op \in Makers => t \in Reqs
    /\ h.pc \in {"lock", "load", "serve"} => h.op = "wake"
    /\ h.op = "forget" => h.stale = {} /\ h.pc # "scan"
    /\ h.pc = "rest" => h.op = "none"

\* What a handler knows of the object it will adopt, whatever it is suspended in.
Mine(t, h) == Adopting(h) =>
    /\ obj[h.mine].phase = "new" /\ h.mine[2] = gen[h.mine[1]] /\ live[h.mine[1]] = 0
    /\ h.op # "wake" => h.mine[2] = 1 /\ ~HasRecord(h.mine[1])

\* The restore lock is held from the look at the record to the adoption.
Locked(t, h) == h.pc = "load" \/ (h.op = "wake" /\ Adopting(h)) => lock = t

Cur(h) == Closing(h) => obj[h.cur].phase = "closing"
Stale(h) == h.op # "shutdown" => \A i \in h.stale \cap Crews :
    obj[<<i, 1>>].worker # "run" /\ obj[<<i, 1>>].phase \in {"open", "closing", "closed"}

HandlersOK == \A t \in Tasks :
    Role(t, task[t]) /\ Mine(t, task[t]) /\ Locked(t, task[t]) /\ Cur(task[t]) /\ Stale(task[t])

Apart == \A t, u \in Tasks : t # u =>
    /\ Adopting(task[t]) /\ Adopting(task[u]) => task[t].mine[1] # task[u].mine[1]
    /\ Closing(task[t]) /\ Closing(task[u]) => task[t].cur # task[u].cur

TableOK == OpenOK /\ FreshOK /\ WorkerOK /\ CrewOK /\ HandlersOK /\ Apart
TInv == IInv /\ TableOK

LEMMA InitTable == Init => TableOK
<1> SUFFICES ASSUME Init PROVE TableOK OBVIOUS
<1>1. Lifespan \in Tasks BY DEF Tasks
<1> QED
  BY <1>1, BoundsAssumption DEF Init, TableOK, OpenOK, FreshOK, WorkerOK, CrewOK, HandlersOK, Apart,
     Awake, Role, Mine, Locked, Cur, Stale, Adopting, Closing, Makers, Unmade, Resting, Objs, Ids

-----------------------------------------------------------------------------
(* What the store's operations do to the ids it holds.                     *)

LEMMA WithoutIds ==
    ASSUME TypeOK, NEW j, NEW i, ~HasRecord(i)
    PROVE  \A k \in 1 .. Len(Without(j)) : Without(j)[k].id # i
<1>1. store \in Seq(Record) BY DEF TypeOK, Record
<1>2. CASE HasRecord(j)
  <2>1. Place(j) \in 1 .. Len(store) BY <1>2 DEF HasRecord, Place
  <2> DEFINE p == Place(j)
             front == SubSeq(store, 1, p - 1)
             back == SubSeq(store, p + 1, Len(store))
  <2>2. Len(store) \in Nat /\ p \in 1 .. Len(store) BY <1>1, <2>1
  <2>3. Without(j) = front \o back BY <1>2 DEF Without, RemoveAt
  <2> HIDE DEF p
  <2>4. front \in Seq(Record) /\ Len(front) = p - 1 /\ \A k \in 1 .. p - 1 : front[k] = store[k]
    BY <1>1, <2>2
  <2>5. /\ back \in Seq(Record) /\ Len(back) = Len(store) - p
        /\ \A k \in 1 .. Len(store) - p : back[k] = store[p + k]
    BY <1>1, <2>2
  <2> HIDE DEF front, back
  <2>6. /\ Len(Without(j)) = Len(store) - 1
        /\ \A k \in 1 .. Len(store) - 1 : Without(j)[k] = IF k <= p - 1 THEN front[k] ELSE back[k - (p - 1)]
    <3>1. /\ Len(front \o back) = Len(front) + Len(back)
          /\ \A k \in 1 .. Len(front) + Len(back) :
               (front \o back)[k] = IF k <= Len(front) THEN front[k] ELSE back[k - Len(front)]
      BY <2>4, <2>5, ConcatProperties
    <3>2. Len(front) + Len(back) = Len(store) - 1 BY <2>2, <2>4, <2>5
    <3> QED BY <2>3, <2>4, <3>1, <3>2
  <2>7. ASSUME NEW k \in 1 .. Len(store) - 1 PROVE \E l \in 1 .. Len(store) : Without(j)[k] = store[l]
    <3>1. CASE k <= p - 1 BY <2>2, <2>4, <2>6, <3>1
    <3>2. CASE ~(k <= p - 1)
      <4>1. k - (p - 1) \in 1 .. Len(store) - p BY <2>2, <3>2
      <4>2. p + (k - (p - 1)) \in 1 .. Len(store) BY <2>2, <4>1
      <4> QED BY <2>5, <2>6, <3>2, <4>1, <4>2
    <3> QED BY <3>1, <3>2
  <2> QED BY <2>6, <2>7 DEF HasRecord
<1> QED BY <1>1, <1>2 DEF Without, HasRecord

LEMMA SavedIds ==
    ASSUME TypeOK, NEW o \in Objs, NEW n \in 0 .. MaxTurns, NEW i, ~HasRecord(i), i # o[1]
    PROVE  \A k \in 1 .. Len(Saved(o, n)) : Saved(o, n)[k].id # i
<1>1. Without(o[1]) \in Seq(Record) BY WithoutType
<1>2. \A k \in 1 .. Len(Without(o[1])) : Without(o[1])[k].id # i BY WithoutIds
<1>3. CASE o[1] \in Crews BY <1>3 DEF Saved, HasRecord
<1>4. CASE o[1] \notin Crews
  <2> DEFINE new == [id |-> o[1], turns |-> n]
             all == Append(Without(o[1]), new)
  <2>1. new \in Record /\ new.id # i BY <1>4 DEF Record, Objs, Ids
  <2> HIDE DEF new
  <2>2. /\ all \in Seq(Record) /\ Len(all) = Len(Without(o[1])) + 1 /\ Len(Without(o[1])) \in Nat
        /\ \A k \in 1 .. Len(all) : all[k] = IF k = Len(all) THEN new ELSE Without(o[1])[k]
    BY <1>1, <2>1, AppendProperties
  <2>3. \A k \in 1 .. Len(all) : all[k].id # i
    <3> SUFFICES ASSUME NEW k \in 1 .. Len(all) PROVE all[k].id # i OBVIOUS
    <3>1. CASE k = Len(all) BY <2>1, <2>2, <3>1
    <3>2. CASE k # Len(all)
      <4>1. k \in 1 .. Len(Without(o[1])) BY <2>2, <3>2
      <4> QED BY <1>2, <2>2, <3>2, <4>1
    <3> QED BY <3>1, <3>2
  <2> HIDE DEF all
  <2>4. \A k \in 1 .. Len(Tail(all)) : Tail(all)[k].id # i
    <3>1. Len(Tail(all)) = Len(all) - 1 /\ Len(all) \in Nat /\ \A k \in 1 .. Len(all) - 1 : Tail(all)[k] = all[k + 1]
      BY <2>2, HeadTailProperties, EmptySeq
    <3> QED BY <2>3, <3>1
  <2>5. Saved(o, n) \in {all, Tail(all)} BY <1>4 DEF Saved, all, new
  <2> QED BY <2>3, <2>4, <2>5
<1> QED BY <1>3, <1>4
-----------------------------------------------------------------------------
(* What the parts of the invariant say of one handler and one object.      *)

LEMMA MineKnown ==
    ASSUME TInv, NEW t \in Tasks, Adopting(task[t])
    PROVE  /\ task[t].mine \in Objs /\ task[t].mine[1] \in Ids /\ task[t].mine[2] \in 1 .. MaxGen
           /\ obj[task[t].mine].phase = "new" /\ task[t].mine[2] = gen[task[t].mine[1]]
           /\ live[task[t].mine[1]] = 0 /\ t \in Reqs
           /\ task[t].op = "wake" => lock = t
           /\ task[t].op # "wake" => task[t].mine[2] = 1 /\ ~HasRecord(task[t].mine[1])
<1>1. task[t].mine \in Objs BY DEF TInv, IInv, HandlerOK, Fit, Adopting, Makers
<1>2. Role(t, task[t]) /\ Mine(t, task[t]) /\ Locked(t, task[t]) BY DEF TInv, TableOK, HandlersOK
<1> QED BY <1>1, <1>2 DEF Role, Mine, Locked, Adopting, Makers, Objs

\* The shutdown walks the table when every other handler is through.
LEMMA NotShutting ==
    ASSUME TInv, NEW t \in Tasks, t # Lifespan, task[t].pc # "ended", t \in Reqs => task[t].pc # "rest"
    PROVE  task[Lifespan].op # "shutdown" /\ \A i \in Ids : Awake(i) <=> live[i] # 0
<1>1. task[Lifespan].op # "shutdown" BY DEF TInv, IInv, HandlerOK, Tasks
<1> QED BY <1>1 DEF Awake

LEMMA HostedIsOpen ==
    ASSUME TInv, NEW i \in Ids, Awake(i)
    PROVE  /\ Live(i) \in Objs /\ obj[Live(i)].phase = "open" /\ live[i] \in 1 .. MaxGen
           /\ live[i] <= gen[i] /\ gen[i] \in Nat
<1>1. live[i] \in 1 .. MaxGen /\ gen[i] \in 0 .. MaxGen BY DEF TInv, IInv, TypeOK, Awake
<1>2. Live(i) \in Objs BY <1>1 DEF Live, Objs
<1>3. obj[Live(i)].phase = "open" BY <1>2 DEF TInv, TableOK, OpenOK, Live
<1>4. ~(live[i] > gen[i]) BY <1>2, <1>3 DEF TInv, TableOK, FreshOK, Live
<1> QED BY <1>1, <1>2, <1>3, <1>4

\* Nothing that may still be saved is of an id a handler is creating.
LEMMA CreatedAlone ==
    ASSUME TInv, NEW t \in Tasks, Adopting(task[t]), task[t].op # "wake",
           NEW o \in Objs, obj[o].phase \in {"open", "closing"}
    PROVE  o[1] # task[t].mine[1]
<1> SUFFICES ASSUME o[1] = task[t].mine[1] PROVE FALSE OBVIOUS
<1>1. /\ task[t].mine \in Objs /\ task[t].mine[2] = 1 /\ gen[o[1]] = 1
      /\ obj[task[t].mine].phase = "new"
  BY MineKnown
<1>2. o = <<o[1], o[2]>> /\ task[t].mine = <<o[1], 1>> /\ o[2] \in Nat \ {0} BY <1>1 DEF Objs
<1>3. o[2] # 1 BY <1>1, <1>2
<1>4. o[2] > gen[o[1]] BY <1>1, <1>2, <1>3
<1> QED BY <1>4 DEF TInv, TableOK, FreshOK

\* A handler moves on and no object begins or ends.
LEMMA Quiet ==
    ASSUME TInv, NEW t \in Tasks, UNCHANGED <<live, gen>>,
           \A o \in Objs : obj'[o].phase = obj[o].phase /\ obj'[o].worker = obj[o].worker,
           \A u \in Tasks \ {t} : task'[u] = task[u] /\ (lock = u => lock' = u),
           \A i \in Ids : Awake(i)' <=> Awake(i),
           \A i \in Ids : ~HasRecord(i) => ~HasRecord(i)',
           Adopting(task'[t]) =>
               /\ Adopting(task[t]) /\ task'[t].mine = task[t].mine
               /\ task'[t].op = "wake" <=> task[t].op = "wake",
           Closing(task'[t]) => Closing(task[t]) /\ task'[t].cur = task[t].cur,
           Role(t, task[t])', Locked(t, task[t])', Stale(task[t])'
    PROVE  TableOK'
<1>1. HandlersOK /\ Apart BY DEF TInv, TableOK
<1>2. OpenOK' /\ FreshOK' /\ WorkerOK' /\ CrewOK'
  BY DEF TInv, TableOK, OpenOK, FreshOK, WorkerOK, CrewOK, Objs
<1>3. ASSUME NEW u \in Tasks PROVE Role(u, task[u])' /\ Locked(u, task[u])'
  <2>1. CASE u = t BY <2>1
  <2>2. CASE u # t
    <3>1. task'[u] = task[u] /\ (lock = u => lock' = u) BY <2>2
    <3> QED BY <1>1, <3>1 DEF HandlersOK, Role, Locked
  <2> QED BY <2>1, <2>2
<1>4. ASSUME NEW u \in Tasks PROVE Mine(u, task[u])'
  <2> SUFFICES ASSUME Adopting(task'[u])
               PROVE  /\ obj'[task'[u].mine].phase = "new" /\ task'[u].mine[2] = gen'[task'[u].mine[1]]
                      /\ live'[task'[u].mine[1]] = 0
                      /\ task'[u].op # "wake" => task'[u].mine[2] = 1 /\ ~HasRecord(task[u].mine[1])'
    BY DEF Mine
  <2>1. Adopting(task[u]) /\ task'[u].mine = task[u].mine /\ (task'[u].op = "wake" <=> task[u].op = "wake")
    OBVIOUS
  <2>2. /\ task[u].mine \in Objs /\ task[u].mine[1] \in Ids /\ obj[task[u].mine].phase = "new"
        /\ task[u].mine[2] = gen[task[u].mine[1]] /\ live[task[u].mine[1]] = 0
        /\ task[u].op # "wake" => task[u].mine[2] = 1 /\ ~HasRecord(task[u].mine[1])
    BY <2>1, MineKnown
  <2>3. ASSUME task[u].op # "wake" PROVE ~HasRecord(task[u].mine[1])'
    <3>1. PICK j \in Ids : j = task[u].mine[1] BY <2>2
    <3>2. ~HasRecord(j)' BY <2>2, <2>3, <3>1
    <3>3. task'[u].mine[1] = j BY <2>1, <3>1
    <3> QED BY <3>2, <3>3 DEF HasRecord
  <2> QED BY <2>1, <2>2, <2>3
<1>5. ASSUME NEW u \in Tasks PROVE Cur(task[u])'
  <2> SUFFICES ASSUME Closing(task'[u]) PROVE obj'[task'[u].cur].phase = "closing" BY DEF Cur
  <2>1. Closing(task[u]) /\ task'[u].cur = task[u].cur OBVIOUS
  <2>2. task[u].cur \in Objs /\ obj[task[u].cur].phase = "closing"
    BY <1>1, <2>1 DEF HandlersOK, Cur, TInv, IInv, HandlerOK, Fit, Closing
  <2> QED BY <2>1, <2>2
<1>6. ASSUME NEW u \in Tasks PROVE Stale(task[u])'
  <2>1. CASE u = t BY <2>1
  <2>2. CASE u # t
    <3>1. task'[u] = task[u] /\ Stale(task[u]) BY <1>1, <2>2 DEF HandlersOK
    <3>2. \A i \in Crews \cap task[u].stale : <<i, 1>> \in Objs
      BY BoundsAssumption DEF Objs, Ids
    <3> QED BY <3>1, <3>2 DEF Stale
  <2> QED BY <2>1, <2>2
<1>7. Apart' BY <1>1 DEF Apart
<1>8. HandlersOK' BY <1>3, <1>4, <1>5, <1>6 DEF HandlersOK
<1> QED BY <1>2, <1>7, <1>8 DEF TableOK

\* The same for a handler whose list of ids only shrinks.
LEMMA Moves ==
    ASSUME TInv, NEW t \in Tasks, NEW h \in Handlers, Becomes(t, h), UNCHANGED <<live, gen>>,
           \A o \in Objs : obj'[o].phase = obj[o].phase /\ obj'[o].worker = obj[o].worker,
           \A u \in Tasks \ {t} : lock = u => lock' = u,
           \A i \in Ids : ~HasRecord(i) => ~HasRecord(i)',
           h.stale \subseteq task[t].stale, h.op = "shutdown" <=> task[t].op = "shutdown",
           t = Lifespan => h.stale = task[t].stale,
           Adopting(h) => Adopting(task[t]) /\ h.mine = task[t].mine /\ (h.op = "wake" <=> task[t].op = "wake"),
           Closing(h) => Closing(task[t]) /\ h.cur = task[t].cur,
           Role(t, h), h.pc = "load" \/ (h.op = "wake" /\ Adopting(h)) => lock' = t
    PROVE  TableOK'
<1>1. task \in [Tasks -> Handlers] /\ Stale(task[t]) /\ Lifespan \in Tasks
  BY DEF TInv, IInv, TypeOK, TableOK, HandlersOK, Tasks
<1>2. task'[t] = h /\ \A u \in Tasks \ {t} : task'[u] = task[u] BY <1>1 DEF Becomes
<1>3. \A i \in Ids : Awake(i)' <=> Awake(i) BY <1>1, <1>2 DEF Awake
<1>4. Role(t, task[t])' BY <1>2 DEF Role
<1>5. Locked(t, task[t])' BY <1>2 DEF Locked
<1>6. Stale(task[t])'
  <2>1. \A i \in Crews : <<i, 1>> \in Objs BY BoundsAssumption DEF Objs, Ids
  <2> QED BY <1>1, <1>2, <2>1 DEF Stale
<1> QED BY <1>2, <1>3, <1>4, <1>5, <1>6, Quiet

\* The steps that only move a handler on.
LEMMA QuietSteps ==
    ASSUME TInv, NEW t \in Tasks,
           \/ LockTaken(t) \/ LoadFindsLive(t) \/ LoadFindsNothing(t) \/ Joined(t) \/ Disconnected(t)
           \/ (\E i \in Ids : PopNothing(t, i)) \/ ReapEnds(t) \/ ForgetEnds(t) \/ CreateGoesOn(t) \/ Serve(t)
    PROVE  TableOK'
<1> USE TasksAssumption
<1>1. /\ TypeOK /\ HandlerOK /\ task[t] \in Handlers /\ task \in [Tasks -> Handlers]
      /\ Role(t, task[t]) /\ Locked(t, task[t]) /\ obj \in [Objs -> Objects] /\ Resting \in Handlers
      /\ Fit(t, task[t], cpu, Hosted)
  BY DEF TInv, IInv, TypeOK, TableOK, HandlersOK, HandlerOK, Resting, Handlers
<1>2. t = Lifespan => task[t].pc \in {"rest", "reap", "join", "disconnect", "saving", "ended"}
                      /\ (task[t].pc # "rest" => task[t].op = "shutdown")
  BY <1>1 DEF HandlerOK
<1>3. UNCHANGED obj => \A o \in Objs : obj'[o].phase = obj[o].phase /\ obj'[o].worker = obj[o].worker
  OBVIOUS
<1>4. UNCHANGED store => \A i \in Ids : ~HasRecord(i) => ~HasRecord(i)' BY DEF HasRecord
<1>5. \A u \in Tasks \ {t} : Release(t) \/ UNCHANGED lock => (lock = u => lock' = u) BY DEF Release
<1>6. CASE LockTaken(t)
  <2>1. PICK h \in Handlers : h = [task[t] EXCEPT !.pc = "load"] BY <1>1 DEF Handlers
  <2>2. /\ Becomes(t, h) /\ task[t].pc = "lock" /\ lock = NoTask /\ lock' = t
        /\ UNCHANGED <<live, gen, obj, store>>
    BY <1>6, <2>1 DEF LockTaken, Suspended
  <2>3. h.pc = "load" /\ h.op = task[t].op /\ h.stale = task[t].stale BY <1>1, <2>1 DEF Handlers
  <2>4. Role(t, h) BY <1>1, <2>2, <2>3 DEF Role
  <2> QED BY <1>2, <1>3, <1>4, <2>2, <2>3, <2>4, Moves DEF Adopting, Closing
<1>7. CASE LoadFindsLive(t)
  <2>1. PICK h \in Handlers : h = [task[t] EXCEPT !.pc = "serve"] BY <1>1 DEF Handlers
  <2>2. Becomes(t, h) /\ task[t].pc = "load" /\ Release(t) /\ UNCHANGED <<live, gen, obj, store>>
    BY <1>7, <2>1 DEF LoadFindsLive, Running
  <2>3. h.pc = "serve" /\ h.op = task[t].op /\ h.stale = task[t].stale BY <1>1, <2>1 DEF Handlers
  <2>4. Role(t, h) BY <1>1, <2>2, <2>3 DEF Role
  <2> QED BY <1>2, <1>3, <1>4, <1>5, <2>2, <2>3, <2>4, Moves DEF Adopting, Closing
<1>8. ASSUME Becomes(t, Resting), task[t].op # "shutdown", task[t].pc # "rest", Release(t) \/ UNCHANGED lock,
             UNCHANGED <<live, gen>>,
             \A o \in Objs : obj'[o].phase = obj[o].phase /\ obj'[o].worker = obj[o].worker,
             \A i \in Ids : ~HasRecord(i) => ~HasRecord(i)'
      PROVE  TableOK'
  <2>1. PICK h \in Handlers : h = Resting BY <1>1
  <2>2. h.pc = "rest" /\ h.op = "none" /\ h.stale = {} BY <2>1 DEF Resting
  <2>3. Becomes(t, h) BY <1>8, <2>1
  <2>4. Role(t, h) BY <2>2 DEF Role, Makers
  <2> QED BY <1>2, <1>5, <1>8, <2>2, <2>3, <2>4, Moves DEF Adopting, Closing
<1>9. CASE LoadFindsNothing(t)
  <2>1. /\ Becomes(t, Resting) /\ task[t].pc = "load" /\ Release(t)
        /\ UNCHANGED <<live, gen, obj, store>>
    BY <1>9 DEF LoadFindsNothing, Finish, Running
  <2> QED BY <1>1, <1>3, <1>4, <1>8, <2>1 DEF Role
<1>10. CASE ReapEnds(t)
  <2>1. Becomes(t, Resting) /\ task[t].pc = "reap" /\ task[t].op = "reap" /\ UNCHANGED <<live, gen, obj, store, lock>>
    BY <1>10 DEF ReapEnds, Finish, Reaped, Running
  <2> QED BY <1>3, <1>4, <1>8, <2>1
<1>11. CASE ForgetEnds(t)
  <2>1. /\ Becomes(t, Resting) /\ task[t].pc = "reap" /\ task[t].op = "forget" /\ UNCHANGED <<live, gen, obj, lock>>
        /\ store' = Without(task[t].arg)
    BY <1>11 DEF ForgetEnds, Finish, Reaped, Running
  <2>2. \A i \in Ids : ~HasRecord(i) => ~HasRecord(i)' BY <1>1, <2>1, WithoutIds DEF HasRecord
  <2> QED BY <1>3, <1>8, <2>1, <2>2
<1>12. CASE Serve(t)
  <2>1. /\ Becomes(t, Resting) /\ task[t].pc = "serve" /\ UNCHANGED <<live, gen, store, lock>>
        /\ Live(task[t].arg) \in Objs
    <3>1. Becomes(t, Resting) /\ task[t].pc = "serve" /\ UNCHANGED <<live, gen, store, lock>>
      BY <1>12 DEF Serve, Finish, Running
    <3>2. task[t].arg \in Hosted BY <1>1, <3>1 DEF Fit
    <3>3. task[t].arg \in Ids /\ live[task[t].arg] \in 1 .. MaxGen
      BY <1>1, <3>2, BoundsAssumption DEF Hosted, TypeOK
    <3>4. Live(task[t].arg) \in Objs BY <3>3 DEF Live, Objs
    <3> QED BY <3>1, <3>4
  <2>2. \A o \in Objs : obj'[o].phase = obj[o].phase /\ obj'[o].worker = obj[o].worker
    <3>1. PICK o \in Objs : o = Live(task[t].arg) BY <2>1
    <3>2. obj[o] \in Objects BY <1>1
    <3>3. \E r \in Objects : r.phase = obj[o].phase /\ r.worker = obj[o].worker /\ obj' = [obj EXCEPT ![o] = r]
      <4> DEFINE s == [obj[o] EXCEPT !.idle = FALSE]
                 q == [s EXCEPT !.queued = @ + 1]
                 w == [s EXCEPT !.watch = @ + 1]
      <4>1. /\ s \in Objects /\ s.phase = obj[o].phase /\ s.worker = obj[o].worker
            /\ s.queued = obj[o].queued /\ s.watch = obj[o].watch
        BY <3>2 DEF Objects
      <4>2. \/ obj' = [obj EXCEPT ![o] = s]
            \/ obj' = [obj EXCEPT ![o] = q] /\ obj[o].queued < MaxQueue
            \/ obj' = [obj EXCEPT ![o] = w] /\ obj[o].watch < MaxSubs
        BY <1>1, <1>12, <3>1 DEF Serve
      <4> HIDE DEF s
      <4>3. obj[o].queued < MaxQueue => q \in Objects /\ q.phase = obj[o].phase /\ q.worker = obj[o].worker
        BY <4>1, BoundsAssumption DEF Objects
      <4>4. obj[o].watch < MaxSubs => w \in Objects /\ w.phase = obj[o].phase /\ w.worker = obj[o].worker
        BY <4>1, BoundsAssumption DEF Objects
      <4> HIDE DEF q, w
      <4> QED BY <4>1, <4>2, <4>3, <4>4
    <3> QED BY <1>1, <3>3
  <2> QED BY <1>1, <1>4, <1>8, <2>1, <2>2 DEF Role
<1>13. ASSUME NEW i \in Ids, PopNothing(t, i) PROVE TableOK'
  <2>1. PICK h \in Handlers : h = [task[t] EXCEPT !.stale = @ \ {i}] BY <1>1 DEF Handlers
  <2>2. Becomes(t, h) /\ task[t].pc = "reap" /\ task[t].op # "shutdown" /\ UNCHANGED <<live, gen, obj, store, lock>>
    BY <1>13, <2>1 DEF PopNothing, Running
  <2>3. /\ h.pc = task[t].pc /\ h.op = task[t].op /\ h.stale \subseteq task[t].stale /\ h.mine = task[t].mine
        /\ h.cur = task[t].cur
    BY <1>1, <2>1 DEF Handlers
  <2>4. Role(t, h) /\ t # Lifespan BY <1>1, <1>2, <2>2, <2>3 DEF Role
  <2>5. h.op = "wake" /\ Adopting(h) => lock' = t BY <1>1, <2>2, <2>3 DEF Locked, Adopting
  <2> QED BY <1>3, <1>4, <2>2, <2>3, <2>4, <2>5, Moves DEF Adopting, Closing
<1>14. CASE CreateGoesOn(t)
  <2>1. PICK h \in Handlers : h = [task[t] EXCEPT !.pc = "scan", !.op = "adopt"] BY <1>1 DEF Handlers
  <2>2. /\ Becomes(t, h) /\ task[t].pc = "reap" /\ task[t].op = "create" /\ task[t].stale = {}
        /\ UNCHANGED <<live, gen, obj, store, lock>>
    BY <1>14, <2>1 DEF CreateGoesOn, Reaped, Running
  <2>3. h.pc = "scan" /\ h.op = "adopt" /\ h.stale = {} /\ h.mine = task[t].mine
    BY <1>1, <2>1, <2>2 DEF Handlers
  <2>4. Role(t, h) /\ t # Lifespan BY <1>1, <1>2, <2>2, <2>3 DEF Role, Makers
  <2> QED BY <1>3, <1>4, <2>2, <2>3, <2>4, Moves DEF Adopting, Closing, Makers
<1>15. CASE Joined(t)
  <2>1. PICK to \in {"disconnect", "saving"} : to = IF obj[task[t].cur].client THEN "disconnect" ELSE "saving"
    OBVIOUS
  <2>2. PICK h \in Handlers : h = [task[t] EXCEPT !.pc = to] BY <1>1 DEF Handlers
  <2>3. Becomes(t, h) /\ task[t].pc = "join" /\ UNCHANGED <<live, gen, obj, store, lock>>
    BY <1>15, <2>1, <2>2 DEF Joined, Suspended
  <2>4. h.pc = to /\ h.op = task[t].op /\ h.stale = task[t].stale /\ h.mine = task[t].mine /\ h.cur = task[t].cur
    BY <1>1, <2>2 DEF Handlers
  <2>5. Role(t, h) BY <1>1, <2>4 DEF Role
  <2>6. h.op = "wake" /\ Adopting(h) => lock' = t BY <1>1, <2>3, <2>4 DEF Locked, Adopting
  <2> QED BY <1>3, <1>4, <2>3, <2>4, <2>5, <2>6, Moves DEF Adopting, Closing
<1>16. CASE Disconnected(t)
  <2>1. PICK h \in Handlers : h = [task[t] EXCEPT !.pc = "saving"] BY <1>1 DEF Handlers
  <2>2. /\ Becomes(t, h) /\ task[t].pc = "disconnect" /\ UNCHANGED <<live, gen, store, lock>>
        /\ obj' = [obj EXCEPT ![task[t].cur].client = FALSE]
    BY <1>16, <2>1 DEF Disconnected, Suspended
  <2>3. h.pc = "saving" /\ h.op = task[t].op /\ h.stale = task[t].stale /\ h.mine = task[t].mine /\ h.cur = task[t].cur
    BY <1>1, <2>1 DEF Handlers
  <2>4. Role(t, h) BY <1>1, <2>3 DEF Role
  <2>5. h.op = "wake" /\ Adopting(h) => lock' = t BY <1>1, <2>2, <2>3 DEF Locked, Adopting
  <2>6. \A o \in Objs : obj'[o].phase = obj[o].phase /\ obj'[o].worker = obj[o].worker
    BY <1>1, <2>2 DEF Objects
  <2> QED BY <1>4, <2>2, <2>3, <2>4, <2>5, <2>6, Moves DEF Adopting, Closing
<1> QED BY <1>6, <1>7, <1>9, <1>10, <1>11, <1>12, <1>13, <1>14, <1>15, <1>16

-----------------------------------------------------------------------------
(* The steps of an object's life, as changes of the whole table.           *)

\* The factory makes the next object of an id nobody else is making one for.
LEMMA Builds ==
    ASSUME TInv, NEW t \in Reqs, NEW i \in Ids, NEW n \in 0 .. MaxTurns, NEW h \in Handlers,
           Build(i, n), Becomes(t, h), gen[i] < MaxGen, live[i] = 0, i \in Crews => gen[i] = 0,
           \A u \in Tasks \ {t} : /\ Adopting(task[u]) => task[u].mine[1] # i
                                  /\ lock = u => lock' = u,
           h.mine = <<i, gen[i] + 1>>, h.pc = "scan", h.op \in Makers,
           h.stale \subseteq task[t].stale, task[t].op # "shutdown",
           h.op = "wake" => lock' = t, h.op # "wake" => gen[i] = 0 /\ ~HasRecord(i),
           UNCHANGED <<live, store>>
    PROVE  TableOK'
<1> USE TasksAssumption
<1> DEFINE o == <<i, gen[i] + 1>>
<1>1. /\ t \in Tasks /\ t # Lifespan /\ Lifespan \in Tasks /\ task \in [Tasks -> Handlers] /\ gen[i] \in Nat
      /\ gen \in [Ids -> 0 .. MaxGen] /\ obj \in [Objs -> Objects]
  BY DEF TInv, IInv, TypeOK, Tasks
<1>2. o \in Objs /\ o[1] = i /\ o[2] = gen[i] + 1 /\ obj[o].phase = "none"
  <2>1. gen[i] + 1 \in 1 .. MaxGen /\ gen[i] + 1 > gen[i] BY <1>1, BoundsAssumption
  <2>2. o \in Objs BY <2>1 DEF Objs
  <2> QED BY <2>1, <2>2 DEF TInv, TableOK, FreshOK
<1>3. /\ obj' = [obj EXCEPT ![o] = Built(n)] /\ obj'[o].phase = "new" /\ gen'[i] = o[2]
      /\ \A p \in Objs \ {o} : obj'[p] = obj[p]
      /\ \A j \in Ids \ {i} : gen'[j] = gen[j]
  BY <1>1, <1>2 DEF Build, Built, Unmade
<1>4. task'[t] = h /\ \A u \in Tasks \ {t} : task'[u] = task[u] BY <1>1 DEF Becomes
<1> HIDE DEF o
<1>5. \A j \in Ids : Awake(j)' <=> Awake(j) BY <1>1, <1>4 DEF Awake
<1>6. OpenOK'
  <2>1. ~Awake(o[1]) BY <1>2 DEF Awake
  <2> QED BY <1>2, <1>3, <1>5, <2>1 DEF OpenOK, TInv, TableOK, Objs
<1>7. FreshOK'
  <2> SUFFICES ASSUME NEW p \in Objs, p[2] > gen'[p[1]] PROVE obj'[p].phase = "none" BY DEF FreshOK
  <2>1. p # o /\ p[2] \in Nat /\ p[1] \in Ids BY <1>1, <1>2, <1>3 DEF Objs
  <2>2. p[2] > gen[p[1]] BY <1>1, <1>2, <1>3, <2>1
  <2> QED BY <1>3, <2>1, <2>2 DEF TInv, TableOK, FreshOK
<1>8. WorkerOK' BY <1>2, <1>3 DEF WorkerOK, TInv, TableOK
<1>9. CrewOK' BY <1>1, <1>2, <1>3 DEF CrewOK, TInv, TableOK, Ids
<1>10. HandlersOK'
  <2>1. ASSUME NEW u \in Tasks PROVE Mine(u, task[u])'
    <3>1. CASE u = t
      BY <1>2, <1>3, <1>4, <3>1 DEF Mine, HasRecord, o
    <3>2. CASE u # t
      <4>1. ASSUME Adopting(task[u]) PROVE task[u].mine \in Objs \ {o} /\ task[u].mine[1] \in Ids \ {i}
        BY <1>2, <3>2, <4>1, MineKnown
      <4> QED BY <1>3, <1>4, <3>2, <4>1 DEF Mine, HasRecord, TInv, TableOK, HandlersOK
    <3> QED BY <3>1, <3>2
  <2>2. ASSUME NEW u \in Tasks PROVE Role(u, task[u])'
    BY <1>4, <2>2 DEF Role, TInv, TableOK, HandlersOK, Makers
  <2>3. ASSUME NEW u \in Tasks PROVE Locked(u, task[u])'
    BY <1>4, <2>3 DEF Locked, TInv, TableOK, HandlersOK
  <2>4. ASSUME NEW u \in Tasks PROVE Cur(task[u])'
    <3>1. CASE u = t BY <1>4, <3>1 DEF Cur, Closing
    <3>2. CASE u # t
      <4>1. Closing(task[u]) => task[u].cur \in Objs /\ obj[task[u].cur].phase = "closing"
        BY DEF Closing, Cur, TInv, TableOK, HandlersOK, IInv, HandlerOK, Fit
      <4> QED BY <1>2, <1>3, <1>4, <3>2, <4>1 DEF Cur
    <3> QED BY <3>1, <3>2
  <2>5. ASSUME NEW u \in Tasks PROVE Stale(task[u])'
    <3>1. ASSUME NEW j \in task[u].stale \cap Crews, task[u].op # "shutdown"
          PROVE  <<j, 1>> \in Objs \ {o} /\ obj'[<<j, 1>>] = obj[<<j, 1>>]
      <4>1. <<j, 1>> \in Objs BY BoundsAssumption DEF Objs, Ids
      <4>2. obj[<<j, 1>>].phase # "none" BY <3>1 DEF Stale, TInv, TableOK, HandlersOK
      <4> QED BY <1>2, <1>3, <4>1, <4>2
    <3>2. (task'[u].stale \subseteq task[u].stale /\ task[u].op # "shutdown") \/ task'[u] = task[u]
      BY <1>4
    <3>3. Stale(task[u]) BY DEF TInv, TableOK, HandlersOK
    <3> QED BY <3>1, <3>2, <3>3 DEF Stale
  <2> QED BY <2>1, <2>2, <2>3, <2>4, <2>5 DEF HandlersOK
<1>11. Apart' BY <1>2, <1>4 DEF Apart, TInv, TableOK, o, Closing
<1> QED BY <1>6, <1>7, <1>8, <1>9, <1>10, <1>11 DEF TableOK

\* An open object leaves the table, or the shutdown's walk of it, to be closed.
LEMMA Leaves ==
    ASSUME TInv, NEW t \in Tasks, NEW i \in Ids, NEW h \in Handlers, Awake(i), Becomes(t, h),
           obj' = [obj EXCEPT ![Live(i)].phase = "closing"], UNCHANGED <<gen, store, lock>>,
           ~Awake(i)', \A j \in Ids \ {i} : (Awake(j)' <=> Awake(j)) /\ live'[j] = live[j],
           live'[i] \in {0, live[i]},
           h.cur = Live(i), h.stale \subseteq task[t].stale, h.op = "shutdown" <=> task[t].op = "shutdown",
           Adopting(h) => Adopting(task[t]) /\ h.mine = task[t].mine /\ (h.op = "wake" <=> task[t].op = "wake"),
           h.pc # "load", Role(t, h)
    PROVE  TableOK'
<1> DEFINE c == Live(i)
<1>1. c \in Objs /\ obj[c].phase = "open" /\ c[1] = i BY HostedIsOpen DEF Live
<1>2. /\ task \in [Tasks -> Handlers] /\ obj \in [Objs -> Objects]
      /\ \A u \in Tasks : Adopting(task[u]) => task[u].mine \in Objs \ {c}
      /\ \A u \in Tasks : Closing(task[u]) => task[u].cur \in Objs \ {c} /\ obj[task[u].cur].phase = "closing"
  <2>1. \A u \in Tasks : Adopting(task[u]) => task[u].mine \in Objs /\ obj[task[u].mine].phase = "new"
    BY MineKnown
  <2>2. \A u \in Tasks : Closing(task[u]) => task[u].cur \in Objs /\ obj[task[u].cur].phase = "closing"
    BY DEF Closing, Cur, TInv, TableOK, HandlersOK, IInv, HandlerOK, Fit
  <2> QED BY <1>1, <2>1, <2>2 DEF TInv, IInv, TypeOK
<1>3. /\ obj'[c].phase = "closing" /\ \A p \in Objs : obj'[p].worker = obj[p].worker
      /\ \A p \in Objs \ {c} : obj'[p] = obj[p]
  BY <1>1, <1>2 DEF Objects
<1>4. task'[t] = h /\ \A u \in Tasks \ {t} : task'[u] = task[u] BY <1>2 DEF Becomes
<1>5. OpenOK'
  <2> SUFFICES ASSUME NEW p \in Objs
               PROVE  obj'[p].phase = "open" <=> Awake(p[1])' /\ live'[p[1]] = p[2]
    BY DEF OpenOK
  <2>1. CASE p = c BY <1>1, <1>3, <2>1
  <2>2. CASE p # c
    <3>1. p = <<p[1], p[2]>> /\ p[1] \in Ids BY DEF Objs
    <3>2. p[1] = i => live[i] # p[2] BY <2>2, <3>1 DEF Live
    <3>3. obj[p].phase = "open" <=> Awake(p[1]) /\ live[p[1]] = p[2] BY DEF OpenOK, TInv, TableOK
    <3> QED BY <1>3, <2>2, <3>1, <3>2, <3>3
  <2> QED BY <2>1, <2>2
<1>6. FreshOK' /\ CrewOK' BY <1>1, <1>3 DEF FreshOK, CrewOK, TInv, TableOK
<1>7. WorkerOK' BY <1>1, <1>3 DEF WorkerOK, TInv, TableOK
<1> HIDE DEF c
<1>8. ASSUME NEW u \in Tasks PROVE Role(u, task[u])' /\ Locked(u, task[u])'
  <2>1. Role(u, task[u]) /\ Locked(u, task[u]) /\ Locked(t, task[t]) BY DEF TInv, TableOK, HandlersOK
  <2> QED BY <1>4, <2>1 DEF Role, Locked
<1>9. ASSUME NEW u \in Tasks PROVE Mine(u, task[u])'
  <2> SUFFICES ASSUME Adopting(task'[u])
               PROVE  /\ obj'[task'[u].mine].phase = "new" /\ task'[u].mine[2] = gen'[task'[u].mine[1]]
                      /\ live'[task'[u].mine[1]] = 0
                      /\ task'[u].op # "wake" => task'[u].mine[2] = 1 /\ ~HasRecord(task[u].mine[1])'
    BY DEF Mine
  <2>1. Adopting(task[u]) /\ task'[u].mine = task[u].mine /\ (task'[u].op = "wake" <=> task[u].op = "wake")
    BY <1>4
  <2>2. /\ task[u].mine \in Objs \ {c} /\ task[u].mine[1] \in Ids /\ obj[task[u].mine].phase = "new"
        /\ task[u].mine[2] = gen[task[u].mine[1]] /\ live[task[u].mine[1]] = 0
        /\ task[u].op # "wake" => task[u].mine[2] = 1 /\ ~HasRecord(task[u].mine[1])
    BY <1>2, <2>1, MineKnown
  <2>3. live'[task[u].mine[1]] = 0 BY <2>2
  <2> QED BY <1>3, <2>1, <2>2, <2>3 DEF HasRecord
<1>10. ASSUME NEW u \in Tasks PROVE Cur(task[u])' BY <1>2, <1>3, <1>4, <1>10 DEF Cur, c
<1>11. ASSUME NEW u \in Tasks PROVE Stale(task[u])'
  <2>1. \A j \in Crews : <<j, 1>> \in Objs BY BoundsAssumption DEF Objs, Ids
  <2>2. \A j \in Crews : obj[<<j, 1>>].phase \in {"open", "closing", "closed"}
                           => obj'[<<j, 1>>].phase \in {"open", "closing", "closed"}
    BY <1>3, <2>1
  <2>3. \A j \in Crews : obj'[<<j, 1>>].worker = obj[<<j, 1>>].worker BY <1>3, <2>1
  <2>4. Stale(task[u]) /\ Stale(task[t]) BY DEF TInv, TableOK, HandlersOK
  <2> QED BY <1>4, <2>2, <2>3, <2>4 DEF Stale
<1>12. Apart' BY <1>2, <1>4 DEF Apart, TInv, TableOK, c
<1>13. HandlersOK' BY <1>8, <1>9, <1>10, <1>11 DEF HandlersOK
<1> QED BY <1>5, <1>6, <1>7, <1>12, <1>13 DEF TableOK

\* adopt(): the object a handler was keeping enters the table, where its id has no other.
LEMMA AdoptTable == ASSUME TInv, NEW t \in Tasks, Adopt(t) PROVE TableOK'
<1> USE TasksAssumption
<1>1. PICK o \in Objs : o = task[t].mine /\ o[1] \in Ids /\ obj[o].phase = "new" /\ live[o[1]] = 0 /\ o[2] \in 1 .. MaxGen
  <2>1. Adopting(task[t]) BY DEF Adopt, Reaped, Running, Adopting, Makers
  <2> QED BY <2>1, MineKnown
<1>2. PICK h \in Handlers :
        /\ Becomes(t, h) /\ h.pc \in {"serve", "rest"} /\ (h.pc = "serve" => h.op = "wake")
        /\ (h.pc = "rest" => h.op = "none")
        /\ h.op \in Makers => t \in Reqs
        /\ h.op # "shutdown" /\ h.op # "forget" /\ h.stale = {}
  <2>1. /\ task[t].stale = {} /\ task[t].op \in {"adopt", "wake"} /\ task[t] \in Handlers
        /\ Role(t, task[t]) /\ Resting \in Handlers
    BY DEF Adopt, Reaped, Running, TInv, IInv, TypeOK, TableOK, HandlersOK, Resting, Handlers
  <2>2. CASE task[t].op = "wake"
    <3>1. PICK h \in Handlers : h = [task[t] EXCEPT !.pc = "serve", !.mine = None] BY <2>1 DEF Handlers
    <3>2. Becomes(t, h) BY <2>2, <3>1 DEF Adopt
    <3>3. h.pc = "serve" /\ h.op = "wake" /\ h.stale = {} BY <2>1, <2>2, <3>1 DEF Handlers
    <3> QED BY <2>1, <2>2, <3>2, <3>3 DEF Role, Makers
  <2>3. CASE task[t].op # "wake"
    <3>1. Becomes(t, Resting) BY <2>3 DEF Adopt, Finish
    <3> QED BY <2>1, <3>1 DEF Resting, Makers
  <2> QED BY <2>2, <2>3
<1>3. /\ task \in [Tasks -> Handlers] /\ obj \in [Objs -> Objects] /\ t \in Reqs /\ t # Lifespan /\ Lifespan \in Tasks
      /\ live \in [Ids -> 0 .. MaxGen] /\ task[Lifespan].op # "shutdown"
      /\ \A i \in Ids : Awake(i) <=> live[i] # 0
  <2>1. Role(t, task[t]) /\ task[t].op \in Makers /\ task[t].pc = "reap"
    BY DEF TInv, TableOK, HandlersOK, Adopt, Reaped, Running, Makers
  <2>2. t \in Reqs /\ t # Lifespan BY <2>1 DEF Role
  <2> QED BY <2>1, <2>2, NotShutting DEF TInv, IInv, TypeOK, Tasks
<1>4. task'[t] = h /\ \A u \in Tasks \ {t} : task'[u] = task[u] BY <1>2, <1>3 DEF Becomes
<1>5. /\ UNCHANGED <<gen, store>> /\ live' = [live EXCEPT ![o[1]] = o[2]]
      /\ \A u \in Tasks \ {t} : lock = u => lock' = u
  BY <1>1 DEF Adopt, Release
<1>6. /\ obj'[o].phase = "open" /\ obj'[o].worker = IF o[1] \in Crews THEN "run" ELSE "wait"
      /\ \A p \in Objs \ {o} : obj'[p] = obj[p]
  BY <1>1, <1>3 DEF Adopt, Objects
<1>7. \A i \in Ids : Awake(i)' <=> live'[i] # 0 BY <1>3, <1>4 DEF Awake
<1>8. OpenOK'
  <2> SUFFICES ASSUME NEW p \in Objs
               PROVE  obj'[p].phase = "open" <=> live'[p[1]] # 0 /\ live'[p[1]] = p[2]
    BY <1>7 DEF OpenOK, Objs
  <2>1. p = <<p[1], p[2]>> /\ o = <<o[1], o[2]>> /\ p[1] \in Ids /\ p[2] # 0 /\ o[2] # 0 BY DEF Objs
  <2>2. obj[p].phase = "open" <=> live[p[1]] # 0 /\ live[p[1]] = p[2]
    BY <1>3, <2>1 DEF OpenOK, TInv, TableOK
  <2>3. live'[o[1]] = o[2] /\ \A i \in Ids \ {o[1]} : live'[i] = live[i] BY <1>1, <1>3, <1>5
  <2>4. CASE p = o BY <1>6, <2>1, <2>3, <2>4
  <2>5. CASE p # o /\ p[1] = o[1] BY <1>1, <1>6, <2>1, <2>2, <2>3, <2>5
  <2>6. CASE p[1] # o[1] BY <1>6, <2>1, <2>2, <2>3, <2>6
  <2> QED BY <2>4, <2>5, <2>6
<1>9. FreshOK' BY <1>1, <1>5, <1>6 DEF FreshOK, TInv, TableOK
<1>10. WorkerOK' BY <1>6, IdsAssumption DEF WorkerOK, TInv, TableOK
<1>11. CrewOK' BY <1>5 DEF CrewOK, TInv, TableOK
<1>12. ASSUME NEW u \in Tasks PROVE Role(u, task[u])' /\ Locked(u, task[u])'
  <2>1. Role(u, task[u]) /\ Locked(u, task[u]) BY DEF TInv, TableOK, HandlersOK
  <2>2. CASE u = t BY <1>2, <1>4, <2>2 DEF Role, Locked, Adopting
  <2>3. CASE u # t BY <1>4, <1>5, <2>1, <2>3 DEF Role, Locked
  <2> QED BY <2>2, <2>3
<1>13. ASSUME NEW u \in Tasks PROVE Mine(u, task[u])'
  <2>1. CASE u = t BY <1>2, <1>4, <2>1 DEF Mine, Adopting
  <2>2. CASE u # t
    <3>1. Mine(u, task[u]) BY DEF TInv, TableOK, HandlersOK
    <3>2. ASSUME Adopting(task[u]) PROVE task[u].mine \in Objs /\ task[u].mine[1] \in Ids \ {o[1]}
      <4>1. Adopting(task[t]) BY DEF Adopt, Reaped, Running, Adopting, Makers
      <4> QED BY <1>1, <2>2, <3>2, <4>1, MineKnown DEF Apart, TInv, TableOK
    <3>3. \A i \in Ids \ {o[1]} : live'[i] = live[i] BY <1>3, <1>5
    <3> QED BY <1>4, <1>5, <1>6, <2>2, <3>1, <3>2, <3>3 DEF Mine, HasRecord
  <2> QED BY <2>1, <2>2
<1>14. ASSUME NEW u \in Tasks PROVE Cur(task[u])'
  <2>1. CASE u = t BY <1>2, <1>4, <2>1 DEF Cur, Closing
  <2>2. CASE u # t
    <3>1. Closing(task[u]) => task[u].cur \in Objs /\ obj[task[u].cur].phase = "closing"
      BY DEF Closing, Cur, TInv, TableOK, HandlersOK, IInv, HandlerOK, Fit
    <3> QED BY <1>1, <1>4, <1>6, <2>2, <3>1 DEF Cur
  <2> QED BY <2>1, <2>2
<1>15. ASSUME NEW u \in Tasks PROVE Stale(task[u])'
  <2>1. CASE u = t BY <1>2, <1>4, <2>1 DEF Stale
  <2>2. CASE u # t
    <3>1. \A j \in Crews : <<j, 1>> \in Objs BY BoundsAssumption DEF Objs, Ids
    <3>2. Stale(task[u]) BY DEF TInv, TableOK, HandlersOK
    <3>3. \A j \in Crews : obj[<<j, 1>>].phase \in {"open", "closing", "closed"} => obj'[<<j, 1>>] = obj[<<j, 1>>]
      BY <1>1, <1>6, <3>1
    <3> QED BY <1>4, <2>2, <3>2, <3>3 DEF Stale
  <2> QED BY <2>1, <2>2
<1>16. Apart' BY <1>2, <1>4 DEF Apart, TInv, TableOK, Adopting, Closing
<1>17. HandlersOK' BY <1>12, <1>13, <1>14, <1>15 DEF HandlersOK
<1> QED BY <1>8, <1>9, <1>10, <1>11, <1>16, <1>17 DEF TableOK

\* An object that is not in the table ends, refused or closed and saved.
LEMMA Ends ==
    ASSUME TInv, NEW t \in Tasks, NEW o \in Objs, obj[o].phase \in {"new", "closing"}, NEW h \in Handlers,
           Becomes(t, h), obj'[o].phase = "closed", obj'[o].worker = "dead",
           \A p \in Objs \ {o} : obj'[p] = obj[p], UNCHANGED <<live, gen>>,
           \A u \in Tasks \ {t} : /\ Adopting(task[u]) => task[u].mine # o
                                  /\ Closing(task[u]) => task[u].cur # o
                                  /\ lock = u => lock' = u
                                  /\ Adopting(task[u]) /\ task[u].op # "wake" => ~HasRecord(task[u].mine[1])',
           Adopting(h) => /\ Adopting(task[t]) /\ h.mine = task[t].mine /\ h.mine # o
                          /\ h.op = "wake" <=> task[t].op = "wake"
                          /\ h.op = "wake" => lock' = t
                          /\ h.op # "wake" => ~HasRecord(task[t].mine[1])',
           ~Closing(h), h.pc # "load", Role(t, h), h.stale \subseteq task[t].stale,
           h.op = "shutdown" => task[t].op = "shutdown", task[t].op = "shutdown" => h.op = "shutdown",
           t = Lifespan => h.stale = task[t].stale
    PROVE  TableOK'
<1>1. /\ task \in [Tasks -> Handlers] /\ Lifespan \in Tasks
  BY DEF TInv, IInv, TypeOK, Tasks
<1>2. task'[t] = h /\ \A u \in Tasks \ {t} : task'[u] = task[u] BY <1>1 DEF Becomes
<1>3. \A j \in Ids : Awake(j)' <=> Awake(j) BY <1>1, <1>2 DEF Awake
<1>4. OpenOK' BY <1>3 DEF OpenOK, TInv, TableOK, Objs
<1>5. FreshOK' /\ WorkerOK' /\ CrewOK'
  BY DEF FreshOK, WorkerOK, CrewOK, TInv, TableOK
<1>6. ASSUME NEW u \in Tasks PROVE Role(u, task[u])' /\ Locked(u, task[u])'
  <2>1. Role(u, task[u]) /\ Locked(u, task[u]) BY DEF TInv, TableOK, HandlersOK
  <2> QED BY <1>2, <2>1 DEF Role, Locked
<1>7. ASSUME NEW u \in Tasks PROVE Mine(u, task[u])'
  <2>1. Mine(u, task[u]) BY DEF TInv, TableOK, HandlersOK
  <2>2. Adopting(task[u]) => task[u].mine \in Objs BY MineKnown
  <2>3. CASE u = t BY <1>2, <2>1, <2>2, <2>3 DEF Mine, HasRecord
  <2>4. CASE u # t BY <1>2, <2>1, <2>2, <2>4 DEF Mine, HasRecord
  <2> QED BY <2>3, <2>4
<1>8. ASSUME NEW u \in Tasks PROVE Cur(task[u])'
  <2>1. Closing(task[u]) => task[u].cur \in Objs /\ obj[task[u].cur].phase = "closing"
    BY DEF Closing, Cur, TInv, TableOK, HandlersOK, IInv, HandlerOK, Fit
  <2> QED BY <1>2, <2>1 DEF Cur
<1>9. ASSUME NEW u \in Tasks PROVE Stale(task[u])'
  <2>1. \A j \in Crews : <<j, 1>> \in Objs BY BoundsAssumption DEF Objs, Ids
  <2>2. \A j \in Crews : obj[<<j, 1>>].phase \in {"open", "closing", "closed"} /\ obj[<<j, 1>>].worker # "run"
                         => obj'[<<j, 1>>].phase \in {"open", "closing", "closed"} /\ obj'[<<j, 1>>].worker # "run"
    BY <2>1
  <2>3. Stale(task[u]) /\ Stale(task[t]) BY DEF TInv, TableOK, HandlersOK
  <2> QED BY <1>2, <2>2, <2>3 DEF Stale
<1>10. Apart' BY <1>2 DEF Apart, TInv, TableOK
<1>11. HandlersOK' BY <1>6, <1>7, <1>8, <1>9 DEF HandlersOK
<1> QED BY <1>4, <1>5, <1>10, <1>11 DEF TableOK

-----------------------------------------------------------------------------
(* Every step keeps the invariant.                                         *)

LEMMA ScanTable == ASSUME TInv, NEW t \in Tasks, Scan(t) PROVE TableOK'
<1> USE TasksAssumption
<1>1. /\ task[t] \in Handlers /\ task \in [Tasks -> Handlers] /\ Lifespan \in Tasks
      /\ Role(t, task[t]) /\ Locked(t, task[t]) /\ task[t].pc = "scan" /\ UNCHANGED <<live, gen, obj, store, lock>>
      /\ task' = [task EXCEPT ![t] = [task[t] EXCEPT !.pc = "reap", !.stale = IdleIds]]
  BY DEF TInv, IInv, TypeOK, TableOK, HandlersOK, Scan, Running, Becomes, Tasks
<1>2. PICK ids \in SUBSET Ids : ids = IdleIds BY DEF IdleIds, Hosted
<1>3. PICK h \in Handlers : h = [task[t] EXCEPT !.pc = "reap", !.stale = ids] BY <1>1 DEF Handlers
<1>4. /\ task' = [task EXCEPT ![t] = h] /\ h.pc = "reap" /\ h.op = task[t].op /\ h.stale = ids
      /\ h.mine = task[t].mine /\ h.cur = task[t].cur
  BY <1>1, <1>2, <1>3 DEF Handlers
<1>5. /\ task'[t].pc = "reap" /\ task'[t].op = task[t].op /\ task'[t].stale = ids
      /\ task'[t].mine = task[t].mine /\ task'[t].cur = task[t].cur
      /\ \A u \in Tasks \ {t} : task'[u] = task[u]
  BY <1>1, <1>4
<1>6. t # Lifespan /\ task[t].op # "forget"
  BY <1>1 DEF TInv, IInv, HandlerOK, Role
<1>7. \A i \in Ids : Awake(i)' <=> Awake(i) BY <1>1, <1>5, <1>6 DEF Awake
<1>8. Role(t, task[t])' BY <1>1, <1>5, <1>6 DEF Role
<1>9. Locked(t, task[t])' BY <1>1, <1>5 DEF Locked, Adopting
<1>10. Stale(task[t])'
  <2> SUFFICES ASSUME NEW i \in Crews, i \in ids
               PROVE obj[<<i, 1>>].worker # "run" /\ obj[<<i, 1>>].phase \in {"open", "closing", "closed"}
    BY <1>1, <1>5 DEF Stale
  <2>1. i \in Ids /\ live[i] # 0 /\ obj[Live(i)].worker # "run" BY <1>2 DEF IdleIds, Hosted, Ids
  <2>2. Awake(i)
    <3>1. t \in Reqs => task[t].pc # "rest" BY <1>1
    <3>2. task[t].pc # "ended" BY <1>1
    <3> QED BY <1>6, <2>1, <3>1, <3>2, NotShutting
  <2>3. obj[Live(i)].phase = "open" /\ live[i] \in 1 .. MaxGen /\ live[i] <= gen[i] /\ gen[i] \in Nat
    BY <2>1, <2>2, HostedIsOpen
  <2>4. gen[i] <= 1 BY DEF CrewOK, TInv, TableOK
  <2>5. live[i] = 1 BY <2>3, <2>4, BoundsAssumption
  <2> QED BY <2>1, <2>3, <2>5 DEF Live
<1>11. \A i \in Ids : ~HasRecord(i) => ~HasRecord(i)' BY <1>1 DEF HasRecord
<1>12. Adopting(task'[t]) => Adopting(task[t]) BY <1>1, <1>5 DEF Adopting
<1>13. ~Closing(task'[t]) BY <1>5 DEF Closing
<1> QED BY <1>1, <1>5, <1>7, <1>8, <1>9, <1>10, <1>11, <1>12, <1>13, Quiet

\* Under the lock, with nobody awake for the id: whoever else makes an object
\* of it holds the lock too, or has found no record.
LEMMA WakeTable == ASSUME TInv, NEW t \in Tasks, LoadBuilds(t) PROVE TableOK'
<1> USE TasksAssumption
<1>1. /\ TypeOK /\ task[t] \in Handlers /\ Role(t, task[t]) /\ Locked(t, task[t]) /\ Fit(t, task[t], cpu, Hosted)
      /\ task[t].pc = "load"
  BY DEF TInv, IInv, TypeOK, HandlerOK, TableOK, HandlersOK, LoadBuilds, Running
<1>2. PICK i \in Ids : i = task[t].arg BY <1>1 DEF Fit
<1>3. task[t].op = "wake" /\ t \in Reqs /\ lock = t BY <1>1 DEF Role, Locked, Makers
<1>4. /\ live[i] = 0 /\ HasRecord(i) /\ gen[i] < MaxGen /\ UNCHANGED <<live, store, lock>>
      /\ Build(i, store[Place(i)].turns)
      /\ Becomes(t, [task[t] EXCEPT !.pc = "scan", !.mine = <<i, gen[i] + 1>>])
  BY <1>2 DEF LoadBuilds
<1>5. Place(i) \in 1 .. Len(store) /\ store[Place(i)].id = i BY <1>4 DEF HasRecord, Place
<1>6. store[Place(i)] \in Record BY <1>1, <1>5, ElementOfSeq DEF TypeOK, Record
<1>7. store[Place(i)].turns \in 0 .. MaxTurns /\ i \notin Crews
  BY <1>5, <1>6, IdsAssumption DEF Record
<1>8. <<i, gen[i] + 1>> \in Objs
  <2>1. gen[i] + 1 \in 1 .. MaxGen BY <1>1, <1>4, BoundsAssumption DEF TypeOK
  <2> QED BY <2>1 DEF Objs
<1>9. PICK h \in Handlers : h = [task[t] EXCEPT !.pc = "scan", !.mine = <<i, gen[i] + 1>>]
  BY <1>1, <1>8 DEF Handlers
<1>10. h.mine = <<i, gen[i] + 1>> /\ h.pc = "scan" /\ h.op = "wake" /\ h.stale = task[t].stale
  BY <1>1, <1>3, <1>9 DEF Handlers
<1>11. ASSUME NEW u \in Tasks \ {t}, Adopting(task[u]) PROVE task[u].mine[1] # i
  BY <1>3, <1>4, <1>11, MineKnown
<1>12. Becomes(t, h) BY <1>4, <1>9
<1>13. PICK n \in 0 .. MaxTurns : n = store[Place(i)].turns BY <1>7
<1>14. Build(i, n) BY <1>4, <1>13
<1> QED BY <1>3, <1>4, <1>7, <1>10, <1>11, <1>12, <1>14, Builds DEF Makers

LEMMA PostTable == ASSUME TInv, NEW t \in Reqs, NEW i \in Ids, Post(t, i) PROVE TableOK'
<1> USE TasksAssumption
<1>1. /\ task[t].pc = "rest" /\ server = "up" /\ gen[i] = 0 /\ ~HasRecord(i) /\ Build(i, 0)
      /\ UNCHANGED <<live, store, lock>> /\ t \in Tasks /\ t # Lifespan
  BY DEF Post, Request, Suspended, Tasks
<1>2. live[i] = 0
  <2>1. task[Lifespan].op # "shutdown" BY <1>1 DEF TInv, IInv, HandlerOK
  <2>2. live[i] # 0 => Awake(i) BY <2>1 DEF Awake
  <2> QED BY <1>1, <2>2, HostedIsOpen
<1>3. ASSUME NEW u \in Tasks \ {t}, Adopting(task[u]) PROVE task[u].mine[1] # i
  BY <1>1, <1>3, MineKnown
<1>4. PICK op \in {"create", "adopt"} : op = IF i \in Chats THEN "create" ELSE "adopt" OBVIOUS
<1>5. <<i, 1>> \in Objs BY BoundsAssumption DEF Objs
<1>6. PICK h \in Handlers : h = [Resting EXCEPT !.pc = "scan", !.mine = <<i, 1>>, !.op = op]
  BY <1>5 DEF Handlers, Resting
<1>7. h.mine = <<i, gen[i] + 1>> /\ h.pc = "scan" /\ h.op = op /\ h.stale = {}
  BY <1>1, <1>6 DEF Resting
<1>8. Becomes(t, h) BY <1>4, <1>6 DEF Post
<1>9. task[t].op # "shutdown" BY <1>1 DEF TInv, IInv, HandlerOK, Fit
<1> QED BY <1>1, <1>2, <1>3, <1>4, <1>7, <1>8, <1>9, BoundsAssumption, Builds DEF Makers

LEMMA AskTable == ASSUME TInv, NEW t \in Reqs, NEW i \in Ids, Ask(t, i) PROVE TableOK'
<1> USE TasksAssumption
<1>1. PICK to \in {"serve", "load", "lock"} :
        /\ to = IF live[i] # 0 THEN "serve" ELSE IF lock = NoTask THEN "load" ELSE "lock"
        /\ lock' = IF to = "load" THEN t ELSE lock
        /\ Becomes(t, [Resting EXCEPT !.pc = to, !.op = "wake", !.arg = i])
        /\ UNCHANGED <<live, gen, obj, store>> /\ task[t].pc = "rest" /\ server = "up"
  BY DEF Ask, Request, Suspended
<1>2. PICK h \in Handlers : h = [Resting EXCEPT !.pc = to, !.op = "wake", !.arg = i]
  BY DEF Resting, Handlers
<1>3. h.pc = to /\ h.op = "wake" /\ h.stale = {} BY <1>2 DEF Resting
<1>4. Becomes(t, h) /\ t \in Tasks /\ t # Lifespan BY <1>1, <1>2 DEF Tasks
<1>5. Role(t, h) BY <1>3 DEF Role
<1>6. task[t].op # "shutdown" BY <1>1, <1>4 DEF TInv, IInv, HandlerOK, Fit
<1>7. \A u \in Tasks \ {t} : lock = u => lock' = u BY <1>1
<1>8. \A j \in Ids : ~HasRecord(j) => ~HasRecord(j)' BY <1>1 DEF HasRecord
<1> QED BY <1>1, <1>3, <1>4, <1>5, <1>6, <1>7, <1>8, Moves DEF Adopting, Closing

\* aclose() as the leaving step of a handler: the record it moves to.
LEMMA AcloseMoves ==
    ASSUME NEW t \in Tasks, NEW i \in Ids, Live(i) \in Objs, NEW f \in Handlers, Aclose(t, Live(i), f)
    PROVE  \E h \in Handlers : /\ Becomes(t, h) /\ h.cur = Live(i) /\ h.pc \in {"join", "saving"}
                               /\ h.op = f.op /\ h.arg = f.arg /\ h.mine = f.mine /\ h.stale = f.stale
                               /\ obj' = [obj EXCEPT ![Live(i)].phase = "closing"]
<1>1. PICK o \in Objs : o = Live(i) OBVIOUS
<1>2. PICK to \in {"join", "saving"} : to = IF obj[o].worker = "dead" THEN "saving" ELSE "join" OBVIOUS
<1>3. PICK h \in Handlers : h = [f EXCEPT !.cur = o, !.pc = to] BY DEF Handlers
<1>4. Becomes(t, h) /\ obj' = [obj EXCEPT ![Live(i)].phase = "closing"] BY <1>1, <1>2, <1>3 DEF Aclose
<1>5. h.cur = o /\ h.pc = to /\ h.op = f.op /\ h.arg = f.arg /\ h.mine = f.mine /\ h.stale = f.stale
  BY <1>3 DEF Handlers
<1> QED BY <1>1, <1>4, <1>5

LEMMA ForgetTable == ASSUME TInv, NEW t \in Reqs, NEW i \in Ids, Forget(t, i) PROVE TableOK'
<1> USE TasksAssumption
<1>1. /\ task[t].pc = "rest" /\ server = "up" /\ UNCHANGED <<gen, store, lock>>
      /\ live' = [live EXCEPT ![i] = 0] /\ t \in Tasks /\ t # Lifespan /\ Lifespan \in Tasks
      /\ live \in [Ids -> 0 .. MaxGen] /\ task \in [Tasks -> Handlers]
  BY DEF Forget, Request, Suspended, Tasks, TInv, IInv, TypeOK
<1>2. PICK f \in Handlers : f = [Resting EXCEPT !.pc = "reap", !.op = "forget", !.arg = i]
  BY DEF Resting, Handlers
<1>3. f.pc = "reap" /\ f.op = "forget" /\ f.stale = {} BY <1>2 DEF Resting
<1>4. task[t].op # "shutdown" /\ task[Lifespan].op # "shutdown"
  BY <1>1 DEF TInv, IInv, HandlerOK, Fit
<1>5. CASE live[i] # 0
  <2>1. Awake(i) /\ Live(i) \in Objs BY <1>4, <1>5, HostedIsOpen DEF Awake
  <2>2. Aclose(t, Live(i), f) BY <1>2, <1>5 DEF Forget
  <2>3. PICK h \in Handlers :
          /\ Becomes(t, h) /\ h.cur = Live(i) /\ h.pc \in {"join", "saving"} /\ h.op = "forget" /\ h.stale = {}
          /\ obj' = [obj EXCEPT ![Live(i)].phase = "closing"]
    BY <1>1, <1>3, <2>1, <2>2, AcloseMoves
  <2>4. task'[Lifespan] = task[Lifespan] BY <1>1, <2>3 DEF Becomes
  <2>5. ~Awake(i)' /\ \A j \in Ids \ {i} : (Awake(j)' <=> Awake(j)) /\ live'[j] = live[j]
    BY <1>1, <2>4 DEF Awake
  <2>6. Role(t, h) /\ ~Adopting(h) BY <2>3 DEF Role, Adopting, Makers
  <2> QED BY <1>1, <1>4, <2>1, <2>3, <2>5, <2>6, Leaves
<1>6. CASE live[i] = 0
  <2>1. Becomes(t, f) /\ UNCHANGED <<live, obj>> BY <1>1, <1>2, <1>6 DEF Forget
  <2>2. Role(t, f) /\ ~Adopting(f) /\ ~Closing(f) BY <1>3 DEF Role, Adopting, Closing, Makers
  <2>3. \A j \in Ids : ~HasRecord(j) => ~HasRecord(j)' BY <1>1 DEF HasRecord
  <2> QED BY <1>1, <1>3, <1>4, <2>1, <2>2, <2>3, Moves
<1> QED BY <1>5, <1>6

LEMMA PopTable == ASSUME TInv, NEW t \in Tasks, NEW i \in Ids, Pop(t, i) PROVE TableOK'
<1> USE TasksAssumption
<1>1. /\ task[t].pc = "reap" /\ task[t].op # "shutdown" /\ live[i] # 0 /\ UNCHANGED <<gen, store, lock>>
      /\ live' = [live EXCEPT ![i] = 0] /\ Lifespan \in Tasks
      /\ live \in [Ids -> 0 .. MaxGen] /\ task \in [Tasks -> Handlers]
      /\ Aclose(t, Live(i), [task[t] EXCEPT !.stale = @ \ {i}])
      /\ Role(t, task[t])
  BY DEF Pop, Running, Tasks, TInv, IInv, TypeOK, TableOK, HandlersOK
<1>2. t # Lifespan BY <1>1 DEF TInv, IInv, HandlerOK
<1>3. task[Lifespan].op # "shutdown" /\ Awake(i) /\ Live(i) \in Objs
  BY <1>1, <1>2, NotShutting, HostedIsOpen
<1>4. PICK f \in Handlers : f = [task[t] EXCEPT !.stale = @ \ {i}] /\ Aclose(t, Live(i), f)
  BY <1>1 DEF Handlers
<1>5. f.pc = "reap" /\ f.op = task[t].op /\ f.mine = task[t].mine /\ f.stale \subseteq task[t].stale
      /\ Aclose(t, Live(i), f)
  BY <1>1, <1>4 DEF Handlers
<1>6. PICK h \in Handlers :
        /\ Becomes(t, h) /\ h.cur = Live(i) /\ h.pc \in {"join", "saving"} /\ h.op = task[t].op
        /\ h.mine = task[t].mine /\ h.stale \subseteq task[t].stale
        /\ obj' = [obj EXCEPT ![Live(i)].phase = "closing"]
  BY <1>3, <1>5, AcloseMoves
<1>7. task'[Lifespan] = task[Lifespan] BY <1>1, <1>2, <1>6 DEF Becomes
<1>8. ~Awake(i)' /\ \A j \in Ids \ {i} : (Awake(j)' <=> Awake(j)) /\ live'[j] = live[j]
  BY <1>1, <1>7 DEF Awake
<1>9. Role(t, h) BY <1>1, <1>6 DEF Role
<1>10. Adopting(h) => Adopting(task[t]) BY <1>1, <1>6 DEF Adopting
<1> QED BY <1>1, <1>3, <1>6, <1>8, <1>9, <1>10, Leaves

LEMMA CloseNextTable == ASSUME TInv, NEW i \in Ids, CloseNext(i) PROVE TableOK'
<1> USE TasksAssumption
<1>1. /\ task[Lifespan].pc = "reap" /\ i \in task[Lifespan].stale /\ UNCHANGED <<live, gen, store, lock>>
      /\ Lifespan \in Tasks /\ task \in [Tasks -> Handlers] /\ Lifespan \notin Reqs
      /\ Aclose(Lifespan, Live(i), [task[Lifespan] EXCEPT !.stale = @ \ {i}])
      /\ Role(Lifespan, task[Lifespan])
  BY DEF CloseNext, Running, Tasks, TInv, IInv, TypeOK, TableOK, HandlersOK
<1>2. task[Lifespan].op = "shutdown" /\ live[i] # 0
  BY <1>1 DEF TInv, IInv, HandlerOK, Hosted, CloseNext, Running, TypeOK
<1>3. Awake(i) /\ Live(i) \in Objs BY <1>1, <1>2, HostedIsOpen DEF Awake
<1>4. PICK f \in Handlers : f = [task[Lifespan] EXCEPT !.stale = @ \ {i}] /\ Aclose(Lifespan, Live(i), f)
  BY <1>1 DEF Handlers
<1>5. f.pc = "reap" /\ f.op = "shutdown" /\ f.stale = task[Lifespan].stale \ {i}
      /\ Aclose(Lifespan, Live(i), f) /\ Lifespan \in Tasks
  BY <1>1, <1>2, <1>4 DEF Handlers
<1>6. PICK h \in Handlers :
        /\ Becomes(Lifespan, h) /\ h.cur = Live(i) /\ h.pc \in {"join", "saving"} /\ h.op = "shutdown"
        /\ h.stale = task[Lifespan].stale \ {i}
        /\ obj' = [obj EXCEPT ![Live(i)].phase = "closing"]
  BY <1>3, <1>5, AcloseMoves
<1>7. task'[Lifespan] = h BY <1>1, <1>6 DEF Becomes
<1>8. ~Awake(i)' /\ \A j \in Ids \ {i} : (Awake(j)' <=> Awake(j)) /\ live'[j] = live[j]
  BY <1>1, <1>2, <1>6, <1>7 DEF Awake
<1>9. Role(Lifespan, h) /\ ~Adopting(h) BY <1>6 DEF Role, Adopting, Makers
<1> QED BY <1>1, <1>2, <1>3, <1>6, <1>8, <1>9, Leaves

LEMMA RefusedTable == ASSUME TInv, NEW t \in Tasks, Refused(t) PROVE TableOK'
<1> USE TasksAssumption
<1>1. Adopting(task[t]) BY DEF Refused, Reaped, Running, Adopting, Makers
<1>2. PICK o \in Objs : o = task[t].mine /\ obj[o].phase = "new" BY <1>1, MineKnown
<1>3. PICK h \in Handlers : h = Resting BY DEF Resting, Handlers
<1>4. h.pc = "rest" /\ h.op = "none" /\ h.stale = {} BY <1>3 DEF Resting
<1>5. /\ Becomes(t, h) /\ obj' = [obj EXCEPT ![o] = Closed] /\ UNCHANGED <<live, gen, store>>
      /\ Release(t) /\ obj \in [Objs -> Objects] /\ task[t].op # "shutdown"
  BY <1>1, <1>2, <1>3 DEF Refused, Finish, TInv, IInv, TypeOK, Adopting, Makers
<1>6. obj'[o].phase = "closed" /\ obj'[o].worker = "dead" /\ \A p \in Objs \ {o} : obj'[p] = obj[p]
  BY <1>5 DEF Closed, Unmade
<1>7. ASSUME NEW u \in Tasks \ {t}
      PROVE  /\ Adopting(task[u]) => task[u].mine # o
             /\ Closing(task[u]) => task[u].cur # o
             /\ lock = u => lock' = u
             /\ Adopting(task[u]) /\ task[u].op # "wake" => ~HasRecord(task[u].mine[1])'
  <2>1. Adopting(task[u]) => task[u].mine # o BY <1>1, <1>2, <1>7 DEF TInv, TableOK, Apart
  <2>2. Closing(task[u]) => task[u].cur # o
    BY <1>2 DEF TInv, TableOK, HandlersOK, Cur
  <2>3. UNCHANGED task[u] BY <1>5 DEF Becomes, TInv, IInv, TypeOK
  <2>4. Adopting(task[u]) /\ task[u].op # "wake" => ~HasRecord(task[u].mine[1])'
    BY <1>5, <2>3, MineKnown DEF HasRecord
  <2> QED BY <1>5, <2>1, <2>2, <2>4 DEF Release
<1>8. Role(t, h) /\ ~Adopting(h) /\ ~Closing(h) BY <1>4 DEF Role, Adopting, Closing, Makers
<1>9. t # Lifespan BY <1>1, MineKnown
<1> QED BY <1>2, <1>4, <1>5, <1>6, <1>7, <1>8, <1>9, Ends

LEMMA SaveClosedTable == ASSUME TInv, NEW t \in Tasks, SaveClosed(t) PROVE TableOK'
<1> USE TasksAssumption
<1>1. /\ TypeOK /\ task[t] \in Handlers /\ obj \in [Objs -> Objects] /\ Closing(task[t]) /\ task[t].pc = "saving"
      /\ Role(t, task[t]) /\ Locked(t, task[t])
  BY DEF SaveClosed, Running, Closing, TInv, IInv, TypeOK, TableOK, HandlersOK
<1>2. PICK o \in Objs : o = task[t].cur /\ obj[o].phase = "closing"
  BY <1>1 DEF Closing, Cur, TInv, TableOK, HandlersOK, IInv, HandlerOK, Fit
<1>3. PICK h \in Handlers : h = [task[t] EXCEPT !.pc = "reap", !.cur = None] BY <1>1 DEF Handlers
<1>4. /\ h.pc = "reap" /\ h.op = task[t].op /\ h.mine = task[t].mine /\ h.stale = task[t].stale
  BY <1>1, <1>3 DEF Handlers
<1>5. /\ Becomes(t, h) /\ obj' = [obj EXCEPT ![o] = [Closed EXCEPT !.watch = obj[o].watch]]
      /\ UNCHANGED <<live, gen, lock>> /\ store' = Saved(o, obj[o].turns)
  BY <1>2, <1>3 DEF SaveClosed
<1>6. obj'[o].phase = "closed" /\ obj'[o].worker = "dead" /\ \A p \in Objs \ {o} : obj'[p] = obj[p]
  BY <1>1, <1>5 DEF Closed, Unmade
<1>7. ASSUME NEW u \in Tasks, Adopting(task[u]), task[u].op # "wake"
      PROVE  \A k \in 1 .. Len(store') : store'[k].id # task[u].mine[1]
  <2>1. o[1] # task[u].mine[1] /\ ~HasRecord(task[u].mine[1]) BY <1>2, <1>7, CreatedAlone, MineKnown
  <2>2. obj[o].turns \in 0 .. MaxTurns BY <1>1 DEF Objects
  <2> QED BY <1>1, <1>5, <2>1, <2>2, SavedIds
<1>8. ASSUME NEW u \in Tasks \ {t}
      PROVE  /\ Adopting(task[u]) => task[u].mine # o
             /\ Closing(task[u]) => task[u].cur # o
             /\ Adopting(task[u]) /\ task[u].op # "wake" => ~HasRecord(task[u].mine[1])'
  <2>1. UNCHANGED task[u] BY <1>5 DEF Becomes, TInv, IInv, TypeOK
  <2>2. Closing(task[u]) => task[u].cur # o BY <1>1, <1>2, <1>8 DEF TInv, TableOK, Apart
  <2>3. Adopting(task[u]) => task[u].mine # o BY <1>2, MineKnown
  <2> QED BY <1>7, <2>1, <2>2, <2>3 DEF HasRecord
<1>9. Adopting(h) => Adopting(task[t]) BY <1>1, <1>4 DEF Adopting
<1>10. Adopting(h) => /\ h.mine # o
                      /\ h.op = "wake" => lock' = t
                      /\ h.op # "wake" => \A k \in 1 .. Len(store') : store'[k].id # h.mine[1]
  BY <1>1, <1>2, <1>4, <1>5, <1>7, <1>9, MineKnown DEF Locked
<1>11. Role(t, h) /\ ~Closing(h) BY <1>1, <1>4 DEF Role, Closing
<1>12. Adopting(h) /\ h.op # "wake" => ~HasRecord(h.mine[1])'
  BY <1>10 DEF HasRecord
<1>13. task'[t] = h BY <1>5 DEF Becomes, TInv, IInv, TypeOK
<1> QED BY <1>2, <1>4, <1>5, <1>6, <1>8, <1>9, <1>10, <1>11, <1>12, <1>13, Ends

\* A step of one object: no handler moves, no object begins or ends.
LEMMA ObjectTable ==
    ASSUME TInv, NEW o \in Objs, Worker(o) \/ Unsubscribe(o) \/ GoIdle(o) \/ Touched(o)
    PROVE  TableOK'
<1>1. /\ TypeOK /\ obj \in [Objs -> Objects] /\ obj[o] \in Objects /\ WorkerOK /\ o[1] \in Ids
  BY DEF TInv, IInv, TypeOK, TableOK, Objs
<1>2. UNCHANGED <<live, gen, task, lock>>
  BY DEF Worker, TakeTurn, Connect, EndTurn, Upkeep, Cancelled, CrewEnds, Unsubscribe, GoIdle, Touched, Alone
<1>3. /\ \A p \in Objs \ {o} : obj'[p] = obj[p]
      /\ obj'[o].phase = obj[o].phase
      /\ obj'[o].worker = "run" => obj[o].worker = "run"
      /\ obj[o].phase = "open" => /\ o[1] \in Crews => obj'[o].worker \in {"run", "dead"}
                                  /\ o[1] \in Chats => obj'[o].worker \in {"wait", "turn", "upkeep"}
  <2>0. /\ obj[o].phase = "open" => /\ o[1] \in Crews => obj[o].worker \in {"run", "dead"}
                                    /\ o[1] \in Chats => obj[o].worker \in {"wait", "turn", "upkeep"}
        /\ o[1] \in Crews \/ o[1] \in Chats
    BY <1>1 DEF WorkerOK, Ids
  <2>1. CASE TakeTurn(o) BY <1>1, <2>0, <2>1 DEF TakeTurn, Works, Alone, Objects
  <2>2. CASE Connect(o) BY <1>1, <2>0, <2>2 DEF Connect, Works, Alone, Objects
  <2>3. CASE EndTurn(o)
    <3>1. PICK next \in {"wait", "upkeep"} :
            obj' = [obj EXCEPT ![o] = [obj[o] EXCEPT !.turns = @ + 1, !.worker = next, !.idle = FALSE]]
      BY <2>3 DEF EndTurn, Alone
    <3> QED BY <1>1, <2>0, <2>3, <3>1 DEF EndTurn, Works, Objects
  <2>4. CASE Upkeep(o) BY <1>1, <2>0, <2>4 DEF Upkeep, Works, Alone, Objects
  <2>5. CASE Cancelled(o) BY <1>1, <2>0, <2>5 DEF Cancelled, Alone, Objects
  <2>6. CASE CrewEnds(o) BY <1>1, <2>0, <2>6 DEF CrewEnds, Works, Alone, Objects
  <2>7. CASE Unsubscribe(o) BY <1>1, <2>0, <2>7 DEF Unsubscribe, Alone, Objects
  <2>8. CASE GoIdle(o) BY <1>1, <2>0, <2>8 DEF GoIdle, Alone, Objects
  <2>9. CASE Touched(o) BY <1>1, <2>0, <2>9 DEF Touched, Alone, Objects
  <2> QED BY <2>1, <2>2, <2>3, <2>4, <2>5, <2>6, <2>7, <2>8, <2>9 DEF Worker
<1>4. ASSUME NEW u \in Tasks, Adopting(task[u]), task[u].op # "wake"
      PROVE  ~HasRecord(task[u].mine[1])'
  <2>1. ~HasRecord(task[u].mine[1]) BY <1>4, MineKnown
  <2>2. CASE UNCHANGED store BY <1>2, <2>1, <2>2 DEF HasRecord
  <2>3. CASE obj[o].phase \in {"open", "closing"} /\ \E n \in 0 .. MaxTurns : store' = Saved(o, n)
    <3>1. o[1] # task[u].mine[1] BY <1>4, <2>3, CreatedAlone
    <3>2. \A k \in 1 .. Len(store') : store'[k].id # task[u].mine[1] BY <1>1, <2>1, <2>3, <3>1, SavedIds
    <3> QED BY <1>2, <3>2 DEF HasRecord
  <2>4. CASE EndTurn(o)
    <3>1. obj[o].turns + 1 \in 0 .. MaxTurns BY <1>1, <2>4, BoundsAssumption DEF EndTurn, Objects
    <3> QED BY <2>3, <2>4, <3>1 DEF EndTurn, Works
  <2>5. CASE Cancelled(o)
    <3>1. obj[o].turns \in 0 .. MaxTurns BY <1>1 DEF Objects
    <3> QED BY <2>2, <2>3, <2>5, <3>1 DEF Cancelled
  <2> QED BY <2>2, <2>4, <2>5 DEF Worker, TakeTurn, Connect, Upkeep, CrewEnds, Unsubscribe, GoIdle, Touched
<1>5. OpenOK' /\ FreshOK' /\ WorkerOK' /\ CrewOK'
  <2>1. \A i \in Ids : Awake(i)' <=> Awake(i) BY <1>2 DEF Awake
  <2> QED BY <1>2, <1>3, <2>1 DEF OpenOK, FreshOK, WorkerOK, CrewOK, TInv, TableOK, Objs
<1>6. Apart' BY <1>2 DEF Apart, TInv, TableOK
<1>7. ASSUME NEW u \in Tasks
      PROVE (Role(u, task[u]) /\ Mine(u, task[u]) /\ Locked(u, task[u]) /\ Cur(task[u]) /\ Stale(task[u]))'
  <2>1. Role(u, task[u]) /\ Mine(u, task[u]) /\ Locked(u, task[u]) /\ Cur(task[u]) /\ Stale(task[u])
    BY DEF TInv, TableOK, HandlersOK
  <2>2. Role(u, task[u])' /\ Locked(u, task[u])' BY <1>2, <2>1 DEF Role, Locked
  <2>3. Mine(u, task[u])'
    <3>1. Adopting(task[u]) => task[u].mine \in Objs BY MineKnown
    <3> QED BY <1>2, <1>3, <1>4, <2>1, <3>1 DEF Mine
  <2>4. Cur(task[u])'
    <3>1. Closing(task[u]) => task[u].cur \in Objs
      BY DEF Closing, TInv, IInv, HandlerOK, Fit
    <3> QED BY <1>2, <1>3, <2>1, <3>1 DEF Cur
  <2>5. Stale(task[u])'
    <3>1. \A j \in Crews : <<j, 1>> \in Objs BY BoundsAssumption DEF Objs, Ids
    <3> QED BY <1>2, <1>3, <2>1, <3>1 DEF Stale
  <2> QED BY <2>2, <2>3, <2>4, <2>5
<1> QED BY <1>5, <1>6, <1>7 DEF TableOK, HandlersOK

LEMMA TickTable == ASSUME TInv, Tick PROVE TableOK'
<1> USE TasksAssumption
<1>1. PICK h \in Handlers : h = [Resting EXCEPT !.pc = "scan", !.op = "reap"] BY DEF Resting, Handlers
<1>2. h.pc = "scan" /\ h.op = "reap" /\ h.stale = {} BY <1>1 DEF Resting
<1>3. /\ Becomes(Reaper, h) /\ task[Reaper].pc = "rest" /\ UNCHANGED <<live, gen, obj, store, lock>>
      /\ Reaper \in Tasks /\ Reaper # Lifespan
  BY <1>1 DEF Tick, Suspended, Tasks
<1>4. task[Reaper].op # "shutdown" BY <1>3 DEF TInv, IInv, HandlerOK, Fit
<1>5. Role(Reaper, h) /\ ~Adopting(h) /\ ~Closing(h) BY <1>2 DEF Role, Adopting, Closing, Makers
<1>6. \A j \in Ids : ~HasRecord(j) => ~HasRecord(j)' BY <1>3 DEF HasRecord
<1> QED BY <1>2, <1>3, <1>4, <1>5, <1>6, Moves

\* The shutdown: the reaper is stopped where it is, and the lifespan takes over
\* the whole table.
LEMMA ShutdownTable == ASSUME TInv, Stop \/ CloseAll \/ Down PROVE TableOK'
<1> USE TasksAssumption
<1>1. /\ TypeOK /\ Reaper \in Tasks /\ Lifespan \in Tasks /\ task \in [Tasks -> Handlers] /\ Reaper # Lifespan
      /\ obj \in [Objs -> Objects] /\ HandlersOK /\ live \in [Ids -> 0 .. MaxGen] /\ Lifespan \notin Reqs
  BY DEF TInv, IInv, TypeOK, Tasks, TableOK
<1>2. CASE Stop
  <2>1. PICK to \in {"join", "ended"} : to = IF task[Reaper].pc = "join" THEN "join" ELSE "ended" OBVIOUS
  <2>2. PICK h \in Handlers : h = [task[Reaper] EXCEPT !.pc = to]
    <3>1. task[Reaper] \in Handlers BY <1>1
    <3>2. [task[Reaper] EXCEPT !.pc = to] \in Handlers BY <3>1 DEF Handlers
    <3> QED BY <3>2
  <2>3. /\ h.pc = to /\ h.op = task[Reaper].op /\ h.mine = task[Reaper].mine /\ h.cur = task[Reaper].cur
        /\ h.stale = task[Reaper].stale
    BY <1>1, <2>2 DEF Handlers
  <2>4. Becomes(Reaper, h) /\ UNCHANGED <<live, gen, store, lock>> BY <1>2, <2>1, <2>2 DEF Stop
  <2>5. \A o \in Objs : obj'[o].phase = obj[o].phase /\ obj'[o].worker = obj[o].worker
    <3>1. CASE task[Reaper].pc = "disconnect"
      <4>1. PICK left \in BOOLEAN : obj' = [obj EXCEPT ![task[Reaper].cur].client = left]
        BY <1>2, <3>1 DEF Stop
      <4> QED BY <1>1, <4>1 DEF Objects
    <3> QED BY <1>2, <3>1 DEF Stop
  <2>6. \A j \in Ids : ~HasRecord(j) => ~HasRecord(j)' BY <2>4 DEF HasRecord
  <2>7. Role(Reaper, h) /\ ~Adopting(h)
    BY <1>1, <2>1, <2>3 DEF HandlersOK, Role, Adopting, Tasks
  <2>8. Closing(h) => Closing(task[Reaper]) BY <2>1, <2>3 DEF Closing
  <2> QED BY <1>1, <2>1, <2>3, <2>4, <2>5, <2>6, <2>7, <2>8, Moves
<1>3. CASE CloseAll
  <2>1. PICK ids \in SUBSET Ids : ids = Hosted BY DEF Hosted
  <2>2. PICK h \in Handlers : h = [Resting EXCEPT !.pc = "reap", !.op = "shutdown", !.stale = ids]
    BY DEF Handlers, Resting
  <2>3. h.pc = "reap" /\ h.op = "shutdown" /\ h.stale = ids BY <2>2 DEF Resting
  <2>4. /\ Becomes(Lifespan, h) /\ UNCHANGED <<live, gen, obj, store, lock>> /\ task[Lifespan].pc = "rest"
    BY <1>3, <2>1, <2>2 DEF CloseAll, Suspended
  <2>5. task'[Lifespan] = h /\ \A u \in Tasks \ {Lifespan} : task'[u] = task[u] BY <1>1, <2>4 DEF Becomes
  <2>6. task[Lifespan].op # "shutdown" BY <1>1, <2>4 DEF HandlersOK, Role
  <2>7. \A i \in Ids : Awake(i)' <=> Awake(i) BY <2>1, <2>3, <2>4, <2>5, <2>6 DEF Awake, Hosted
  <2>8. Role(Lifespan, task[Lifespan])' /\ Locked(Lifespan, task[Lifespan])' /\ Stale(task[Lifespan])'
        /\ ~Adopting(task'[Lifespan]) /\ ~Closing(task'[Lifespan])
    BY <2>3, <2>5 DEF Role, Locked, Stale, Adopting, Closing, Makers
  <2>9. \A j \in Ids : ~HasRecord(j) => ~HasRecord(j)' BY <2>4 DEF HasRecord
  <2> QED BY <1>1, <2>4, <2>5, <2>7, <2>8, <2>9, Quiet
<1>4. CASE Down
  <2>1. PICK h \in Handlers : h = [task[Lifespan] EXCEPT !.pc = "ended"] BY <1>1 DEF Handlers
  <2>2. /\ Becomes(Lifespan, h) /\ UNCHANGED <<gen, obj, store, lock>> /\ live' = [i \in Ids |-> 0]
        /\ task[Lifespan].stale = {} /\ task[Lifespan].op = "shutdown"
    BY <1>4, <2>1 DEF Down, Reaped
  <2>3. h.pc = "ended" /\ h.op = "shutdown" BY <1>1, <2>1, <2>2 DEF Handlers
  <2>4. task'[Lifespan] = h /\ \A u \in Tasks \ {Lifespan} : task'[u] = task[u] BY <1>1, <2>2 DEF Becomes
  <2>5. \A i \in Ids : ~Awake(i) /\ ~Awake(i)' BY <2>2, <2>4 DEF Awake
  <2>6. OpenOK' BY <2>2, <2>5 DEF OpenOK, TInv, TableOK, Objs
  <2>7. FreshOK' /\ WorkerOK' /\ CrewOK' BY <2>2 DEF FreshOK, WorkerOK, CrewOK, TInv, TableOK
  <2>8. ~Adopting(h) /\ ~Closing(h) BY <2>3 DEF Adopting, Closing
  <2>9. Apart' BY <2>4, <2>8 DEF Apart, TInv, TableOK
  <2>10. ASSUME NEW u \in Tasks
         PROVE (Role(u, task[u]) /\ Mine(u, task[u]) /\ Locked(u, task[u]) /\ Cur(task[u]) /\ Stale(task[u]))'
    <3>1. CASE u = Lifespan
      <4>1. Role(u, task[u])' /\ Stale(task[u])' BY <2>3, <2>4, <3>1 DEF Role, Stale, Makers
      <4>2. Mine(u, task[u])' /\ Cur(task[u])' BY <2>4, <2>8, <3>1 DEF Mine, Cur
      <4>3. Locked(u, task[u])' BY <2>3, <2>4, <2>8, <3>1 DEF Locked
      <4> QED BY <4>1, <4>2, <4>3
    <3>2. CASE u # Lifespan
      <4>1. task'[u] = task[u] /\ (Adopting(task[u]) => task[u].mine[1] \in Ids) BY <2>4, <3>2, MineKnown
      <4>2. Role(u, task[u])' /\ Locked(u, task[u])' BY <1>1, <2>2, <4>1 DEF HandlersOK, Role, Locked
      <4>3. Mine(u, task[u])' BY <1>1, <2>2, <4>1 DEF HandlersOK, Mine, HasRecord
      <4>4. Cur(task[u])' /\ Stale(task[u])' BY <1>1, <2>2, <4>1 DEF HandlersOK, Cur, Stale
      <4> QED BY <4>2, <4>3, <4>4
    <3> QED BY <3>1, <3>2
  <2> QED BY <2>6, <2>7, <2>9, <2>10 DEF TableOK, HandlersOK
<1> QED BY <1>2, <1>3, <1>4

LEMMA CrashTable == ASSUME TInv, Crash PROVE TableOK'
<1>1. /\ live' = [i \in Ids |-> 0] /\ task' = [t \in Tasks |-> Resting] /\ Lifespan \in Tasks /\ UNCHANGED gen
      /\ obj' = [o \in Objs |-> IF o[2] > gen[o[1]] THEN Unmade ELSE Closed]
  BY DEF Crash, Tasks
<1>2. OpenOK' /\ FreshOK' /\ WorkerOK' /\ CrewOK'
  BY <1>1 DEF OpenOK, FreshOK, WorkerOK, CrewOK, TInv, TableOK, Awake, Closed, Unmade, Objs
<1>3. HandlersOK'
  BY <1>1 DEF HandlersOK, Role, Mine, Locked, Cur, Stale, Adopting, Closing, Makers, Resting
<1>4. Apart' BY <1>1 DEF Apart, Adopting, Closing, Resting
<1> QED BY <1>2, <1>3, <1>4 DEF TableOK

LEMMA NextTInv == TInv /\ [Next]_vars => TInv'
<1> SUFFICES ASSUME TInv, [Next]_vars PROVE TInv' OBVIOUS
<1>1. IInv' BY NextIInv DEF TInv
<1>2. ASSUME UNCHANGED vars PROVE TableOK'
  BY <1>2 DEF vars, TInv, TableOK, OpenOK, FreshOK, WorkerOK, CrewOK, HandlersOK, Apart,
     Awake, Role, Mine, Locked, Cur, Stale, HasRecord
<1>3. ASSUME NEW t \in Tasks, Handler(t) PROVE TableOK'
  BY <1>3, QuietSteps, ScanTable, WakeTable, SaveClosedTable, PopTable, RefusedTable, AdoptTable DEF Handler
<1>4. ASSUME NEW t \in Reqs, NEW i \in Ids, Post(t, i) \/ Ask(t, i) \/ Forget(t, i) PROVE TableOK'
  BY <1>4, PostTable, AskTable, ForgetTable
<1>5. ASSUME Tick \/ Shutdown \/ Stop \/ Crash PROVE TableOK'
  BY <1>5, TickTable, ShutdownTable, CloseNextTable, CrashTable DEF Shutdown
<1>6. ASSUME Next PROVE TableOK'
  BY <1>3, <1>4, <1>5, <1>6, ObjectTable DEF Next
<1>7. TableOK' BY <1>2, <1>6
<1> QED BY <1>1, <1>7 DEF TInv

LEMMA TableAlways == Spec => []TInv
<1>1. Init => TInv BY InitIInv, InitTable DEF TInv
<1> QED BY <1>1, NextTInv, PTL DEF Spec

-----------------------------------------------------------------------------
(* What follows from it, state by state and step by step.                  *)

\* No session is lost track of: an object that was started and that nobody is
\* closing is the one its id names in the table, whatever requests, reaps,
\* wakes and crashes came in between.
THEOREM OpenHosted == Spec => []OpenIsHosted
<1>1. TInv => OpenIsHosted BY DEF TInv, TableOK, OpenOK, OpenIsHosted
<1> QED BY <1>1, TableAlways, PTL

\* The value an operation may give an entry of the table.
LEMMA Replaced ==
    ASSUME TInv, [Next]_vars, NEW i \in Ids, live[i] # 0
    PROVE  live'[i] \in {0, live[i]}
<1>1. live \in [Ids -> 0 .. MaxGen] BY DEF TInv, IInv, TypeOK
<1>2. ASSUME UNCHANGED live PROVE live'[i] \in {0, live[i]} BY <1>2
<1>3. ASSUME NEW j \in Ids, live' = [live EXCEPT ![j] = 0] PROVE live'[i] \in {0, live[i]} BY <1>1, <1>3
<1>4. ASSUME NEW t \in Tasks, Adopt(t) PROVE live'[i] \in {0, live[i]}
  <2>1. Adopting(task[t]) BY <1>4 DEF Adopt, Reaped, Running, Adopting, Makers
  <2>2. task[t].mine[1] # i BY <2>1, MineKnown
  <2>3. live' = [live EXCEPT ![task[t].mine[1]] = task[t].mine[2]] BY <1>4 DEF Adopt
  <2> QED BY <1>1, <2>2, <2>3
<1>5. ASSUME NEW t \in Tasks, Handler(t) PROVE live'[i] \in {0, live[i]}
  BY <1>2, <1>3, <1>4, <1>5 DEF Handler, LockTaken, LoadFindsLive, LoadFindsNothing, LoadBuilds, Scan, Joined,
     Disconnected, SaveClosed, Pop, PopNothing, ReapEnds, ForgetEnds, CreateGoesOn, Refused, Serve
<1>6. ASSUME NEW t \in Reqs, NEW j \in Ids, Post(t, j) \/ Ask(t, j) \/ Forget(t, j)
      PROVE  live'[i] \in {0, live[i]}
  BY <1>2, <1>3, <1>6 DEF Post, Ask, Forget
<1>7. ASSUME NEW o \in Objs, Worker(o) \/ Unsubscribe(o) \/ GoIdle(o) \/ Touched(o)
      PROVE  live'[i] \in {0, live[i]}
  BY <1>2, <1>7 DEF Worker, TakeTurn, Connect, EndTurn, Upkeep, Cancelled, CrewEnds, Unsubscribe, GoIdle, Touched, Alone
<1>8. ASSUME Tick \/ Shutdown \/ Stop \/ Crash PROVE live'[i] \in {0, live[i]}
  BY <1>2, <1>8 DEF Tick, Shutdown, Stop, Crash, CloseAll, CloseNext, Down
<1> QED BY <1>2, <1>5, <1>6, <1>7, <1>8 DEF Next, vars

\* Two requests for one id wake it once: between the look under the restore
\* lock and the entry in the table nobody else can enter the same id.
THEOREM Replaces == Spec => NeverReplaced
<1>1. TInv /\ [Next]_vars => [\A i \in Ids : live[i] # 0 => live'[i] \in {0, live[i]}]_vars
  BY Replaced
<1> QED BY <1>1, TableAlways, PTL DEF Spec, NeverReplaced

\* A turn is added to a queue by a route's submit only, and the object it is
\* added to is open and has a worker.
LEMMA Accepts ==
    ASSUME TInv, [Next]_vars, NEW o \in Objs, obj'[o].queued > obj[o].queued
    PROVE  live[o[1]] = o[2] /\ obj[o].phase = "open" /\ obj[o].worker # "dead"
<1>1. /\ obj \in [Objs -> Objects] /\ o[1] \in Ids /\ o[2] \in 1 .. MaxGen /\ obj[o].queued \in Nat
      /\ live \in [Ids -> 0 .. MaxGen] /\ task \in [Tasks -> Handlers]
  BY BoundsAssumption DEF TInv, IInv, TypeOK, Objects, Objs
<1>2. ASSUME obj'[o].queued <= obj[o].queued PROVE FALSE
  <2>1. obj'[o].queued \in Nat
    BY NextTInv, BoundsAssumption DEF TInv, IInv, TypeOK, Objects
  <2> QED BY <1>1, <1>2, <2>1
<1>3. ASSUME obj'[o] = obj[o] PROVE FALSE BY <1>1, <1>3
<1>4. ASSUME NEW t \in Tasks, Serve(t) PROVE live[o[1]] = o[2] /\ obj[o].phase = "open" /\ obj[o].worker # "dead"
  <2>1. PICK p \in Objs : p = Live(task[t].arg) /\ live[p[1]] # 0 /\ p[2] = live[p[1]] /\ t \in Tasks
    <3>1. task[t].pc = "serve" BY <1>4 DEF Serve, Running
    <3>2. task[t].arg \in Hosted BY <3>1 DEF TInv, IInv, HandlerOK, Fit
    <3>3. PICK i \in Ids : i = task[t].arg /\ live[i] \in 1 .. MaxGen BY <1>1, <3>2 DEF Hosted
    <3>4. PICK p : p = <<i, live[i]>> OBVIOUS
    <3>5. p \in Objs /\ p[1] = i /\ p[2] = live[i] BY <3>3, <3>4 DEF Objs
    <3>6. live[i] # 0 BY <3>3
    <3> QED BY <3>3, <3>4, <3>5, <3>6 DEF Live
  <2>2. CASE o # p BY <1>1, <1>3, <1>4, <2>1, <2>2 DEF Serve
  <2>3. CASE o = p
    <3>1. o[1] \in Chats
      BY <1>1, <1>2, <1>4, <2>1, <2>3 DEF Serve, Objects
    <3>2. task[t].pc = "serve" /\ task[t].op = "wake" /\ t \in Reqs
      BY <1>4 DEF Serve, Running, TInv, TableOK, HandlersOK, Role, Makers
    <3>3. task[Lifespan].op # "shutdown" BY <3>2, NotShutting
    <3>4. obj[o].phase = "open" BY <2>1, <2>3, <3>3 DEF OpenOK, Awake, TInv, TableOK
    <3> QED BY <2>1, <2>3, <3>1, <3>4 DEF WorkerOK, TInv, TableOK
  <2> QED BY <2>2, <2>3
<1>5. ASSUME NEW i, NEW n, Build(i, n) PROVE FALSE
  <2>1. obj'[o] = obj[o] \/ obj'[o].queued = 0 BY <1>1, <1>5 DEF Build, Built, Unmade
  <2> QED BY <1>1, <1>2, <1>3, <2>1
<1>6. ASSUME NEW p, NEW c, obj' = [obj EXCEPT ![p].client = c] PROVE FALSE
  BY <1>1, <1>2, <1>6 DEF Objects
<1>7. ASSUME NEW t, NEW p, NEW h, Aclose(t, p, h) PROVE FALSE
  <2>1. obj' = [obj EXCEPT ![p].phase = "closing"] BY <1>7 DEF Aclose
  <2> QED BY <1>1, <1>2, <2>1 DEF Objects
<1>8. ASSUME NEW t \in Tasks, LoadBuilds(t) PROVE FALSE BY <1>5, <1>8 DEF LoadBuilds
<1>9. ASSUME NEW t \in Tasks, SaveClosed(t) \/ Refused(t) PROVE FALSE
  <2>1. obj'[o] = obj[o] \/ obj'[o].queued = 0 BY <1>1, <1>9 DEF SaveClosed, Refused, Closed, Unmade
  <2> QED BY <1>1, <1>2, <1>3, <2>1
<1>10. ASSUME NEW t \in Tasks, Adopt(t) PROVE FALSE
  <2>1. PICK p \in Objs : p = task[t].mine
    <3>1. Adopting(task[t]) BY <1>10 DEF Adopt, Reaped, Running, Adopting, Makers
    <3> QED BY <3>1, MineKnown
  <2>2. PICK w \in {"run", "wait"} :
          obj' = [obj EXCEPT ![p] = [obj[p] EXCEPT !.phase = "open", !.idle = FALSE, !.worker = w]]
    BY <1>10, <2>1 DEF Adopt
  <2>3. obj'[o].queued = obj[o].queued BY <1>1, <2>2 DEF Objects
  <2> QED BY <1>1, <1>2, <2>3
<1>11. ASSUME NEW p \in Objs, Worker(p) \/ Unsubscribe(p) \/ GoIdle(p) \/ Touched(p) PROVE FALSE
  <2>0. obj[p] \in Objects BY <1>1
  <2>1. ASSUME NEW r, Alone(p, r), r.queued <= obj[p].queued PROVE FALSE
    BY <1>1, <1>2, <1>3, <2>1 DEF Alone
  <2>2. CASE TakeTurn(p)
    <3>1. PICK r : r = [obj[p] EXCEPT !.queued = @ - 1, !.worker = "turn", !.idle = FALSE] OBVIOUS
    <3>2. r.queued <= obj[p].queued BY <2>0, <3>1, BoundsAssumption DEF Objects
    <3> QED BY <2>1, <2>2, <3>1, <3>2 DEF TakeTurn
  <2>3. CASE EndTurn(p)
    <3>1. PICK n : obj' = [obj EXCEPT ![p] = [obj[p] EXCEPT !.turns = @ + 1, !.worker = n, !.idle = FALSE]]
      BY <2>3 DEF EndTurn, Alone
    <3>2. obj'[o].queued = obj[o].queued BY <1>1, <3>1 DEF Objects
    <3> QED BY <1>1, <1>2, <3>2
  <2>4. ASSUME obj'[p].queued = obj[p].queued, \A q \in Objs \ {p} : obj'[q] = obj[q] PROVE FALSE
    BY <1>1, <1>2, <1>3, <2>4
  <2>5. CASE Connect(p) BY <1>1, <2>0, <2>4, <2>5 DEF Connect, Alone, Objects
  <2>6. CASE Upkeep(p) BY <1>1, <2>0, <2>4, <2>6 DEF Upkeep, Alone, Objects
  <2>7. CASE Cancelled(p) BY <1>1, <2>0, <2>4, <2>7 DEF Cancelled, Alone, Objects
  <2>8. CASE CrewEnds(p) BY <1>1, <2>0, <2>4, <2>8 DEF CrewEnds, Alone, Objects
  <2>9. CASE Unsubscribe(p) BY <1>1, <2>0, <2>4, <2>9 DEF Unsubscribe, Alone, Objects
  <2>10. CASE GoIdle(p) BY <1>1, <2>0, <2>4, <2>10 DEF GoIdle, Alone, Objects
  <2>11. CASE Touched(p) BY <1>1, <2>0, <2>4, <2>11 DEF Touched, Alone, Objects
  <2> QED BY <1>11, <2>2, <2>3, <2>5, <2>6, <2>7, <2>8, <2>9, <2>10, <2>11 DEF Worker
<1>12. ASSUME Crash PROVE FALSE
  <2>1. obj'[o].queued = 0 BY <1>12 DEF Crash, Closed, Unmade
  <2> QED BY <1>1, <1>2, <2>1
<1>13. ASSUME Tick \/ Shutdown \/ Stop PROVE FALSE
  BY <1>3, <1>6, <1>7, <1>13 DEF Tick, Shutdown, Stop, CloseAll, CloseNext, Down
<1>14. ASSUME NEW t \in Reqs, NEW i \in Ids, Post(t, i) \/ Ask(t, i) \/ Forget(t, i) PROVE FALSE
  BY <1>3, <1>5, <1>7, <1>14 DEF Post, Ask, Forget
<1>15. ASSUME NEW t \in Tasks, Handler(t), ~Serve(t) PROVE FALSE
  BY <1>3, <1>6, <1>7, <1>8, <1>9, <1>10, <1>15 DEF Handler, LockTaken, LoadFindsLive, LoadFindsNothing, Scan,
     Joined, Disconnected, Pop, PopNothing, ReapEnds, ForgetEnds, CreateGoesOn
<1> QED BY <1>3, <1>4, <1>11, <1>12, <1>13, <1>14, <1>15 DEF Next, vars

\* A message is accepted only by an object that will work on it: the open one
\* of its id, never one that is being put to sleep.
THEOREM Accepted == Spec => AcceptedIsWorkedOn
<1>1. TInv /\ [Next]_vars
        => [\A o \in Objs : obj'[o].queued > obj[o].queued =>
              live[o[1]] = o[2] /\ obj[o].phase = "open" /\ obj[o].worker # "dead"]_vars
  BY Accepts
<1> QED BY <1>1, TableAlways, PTL DEF Spec, AcceptedIsWorkedOn

\* A crew that is at work is closed by DELETE and by the shutdown, and by no
\* other step: a list of ids to reap may be old, but holds no such crew.
LEMMA BusyKept ==
    ASSUME TInv, [Next]_vars, NEW o \in Objs, Closes(o), obj[o].worker = "run"
    PROVE  ClosedFor(o, {"forget", "shutdown"})
<1>1. /\ obj \in [Objs -> Objects] /\ o[1] \in Ids /\ o[2] \in 1 .. MaxGen /\ task \in [Tasks -> Handlers]
      /\ live \in [Ids -> 0 .. MaxGen] /\ gen \in [Ids -> 0 .. MaxGen]
      /\ obj[o].phase = "open" /\ obj'[o].phase = "closing" /\ o = <<o[1], o[2]>>
  BY DEF TInv, IInv, TypeOK, Objs, Closes
<1>2. o[1] \in Crews /\ live[o[1]] = o[2] /\ gen[o[1]] <= 1
  BY <1>1 DEF TInv, TableOK, WorkerOK, CrewOK, OpenOK, Ids
<1>3. o = <<o[1], 1>> /\ o[2] = 1
  <2>1. ~(o[2] > gen[o[1]]) BY <1>1 DEF FreshOK, TInv, TableOK
  <2>2. o[2] = 1 BY <1>1, <1>2, <2>1
  <2> QED BY <1>1, <2>2
<1>4. ASSUME obj'[o].phase = obj[o].phase \/ obj'[o].phase \in {"new", "open", "closed", "none"} PROVE FALSE
  BY <1>1, <1>4
<1>5. ASSUME NEW i, NEW n, Build(i, n) PROVE FALSE
  BY <1>1, <1>4, <1>5 DEF Build, Built, Unmade
<1>6. ASSUME NEW p, NEW c, obj' = [obj EXCEPT ![p].client = c] PROVE FALSE
  BY <1>1, <1>4, <1>6 DEF Objects
<1>7. ASSUME NEW t \in Tasks, NEW p, NEW h \in Handlers, Aclose(t, p, h)
      PROVE  o = p /\ task'[t].cur = o /\ task'[t].op = h.op
  <2>1. obj' = [obj EXCEPT ![p].phase = "closing"] BY <1>7 DEF Aclose
  <2>2. o = p BY <1>1, <1>4, <2>1 DEF Objects
  <2>3. PICK c \in {"saving", "join"} : Becomes(t, [h EXCEPT !.cur = o, !.pc = c])
    BY <1>7, <2>2 DEF Aclose
  <2>4. task'[t].cur = o /\ task'[t].op = h.op BY <1>1, <2>3 DEF Becomes, Handlers
  <2> QED BY <2>2, <2>4
<1>8. ASSUME NEW t \in Tasks, NEW i \in Ids, Pop(t, i) PROVE FALSE
  <2>1. PICK h \in Handlers : h = [task[t] EXCEPT !.stale = @ \ {i}] BY <1>1 DEF Handlers
  <2>2. Aclose(t, Live(i), h) BY <1>8, <2>1 DEF Pop
  <2>3. o = Live(i) BY <1>7, <2>2
  <2>4. i = o[1] /\ i \in task[t].stale \cap Crews /\ task[t].op # "shutdown"
    BY <1>1, <1>2, <1>8, <2>3 DEF Live, Pop
  <2>5. obj[<<i, 1>>].worker # "run" BY <2>4 DEF TInv, TableOK, HandlersOK, Stale
  <2> QED BY <1>3, <2>4, <2>5
<1>9. ASSUME NEW t \in Reqs, NEW i \in Ids, Forget(t, i) PROVE ClosedFor(o, {"forget", "shutdown"})
  <2>1. PICK h \in Handlers : h = [Resting EXCEPT !.pc = "reap", !.op = "forget", !.arg = i]
    BY DEF Resting, Handlers
  <2>2. h.op = "forget" BY <2>1 DEF Resting
  <2>3. UNCHANGED obj \/ Aclose(t, Live(i), h) BY <1>9, <2>1 DEF Forget
  <2>4. t \in Tasks BY DEF Tasks
  <2> QED BY <1>4, <1>7, <2>2, <2>3, <2>4 DEF ClosedFor
<1>10. ASSUME NEW i \in Ids, CloseNext(i) PROVE ClosedFor(o, {"forget", "shutdown"})
  <2>1. Lifespan \in Tasks BY DEF Tasks
  <2>2. PICK h \in Handlers : h = [task[Lifespan] EXCEPT !.stale = @ \ {i}] BY <1>1, <2>1 DEF Handlers
  <2>3. Aclose(Lifespan, Live(i), h) BY <1>10, <2>2 DEF CloseNext
  <2>4. h.op = "shutdown"
    BY <1>1, <1>10, <2>1, <2>2 DEF CloseNext, Running, TInv, IInv, HandlerOK, Handlers
  <2> QED BY <1>7, <2>1, <2>3, <2>4 DEF ClosedFor
<1>11. ASSUME NEW t \in Tasks, SaveClosed(t) \/ Refused(t) PROVE FALSE
  BY <1>1, <1>4, <1>11 DEF SaveClosed, Refused, Closed, Unmade
<1>12. ASSUME NEW t \in Tasks, Adopt(t) PROVE FALSE
  <2>1. PICK p \in Objs : p = task[t].mine
    <3>1. Adopting(task[t]) BY <1>12 DEF Adopt, Reaped, Running, Adopting, Makers
    <3> QED BY <3>1, MineKnown
  <2>2. PICK w \in {"run", "wait"} :
          obj' = [obj EXCEPT ![p] = [obj[p] EXCEPT !.phase = "open", !.idle = FALSE, !.worker = w]]
    BY <1>12, <2>1 DEF Adopt
  <2> QED BY <1>1, <1>4, <2>2 DEF Objects
<1>13. ASSUME NEW p \in Objs, Worker(p) \/ Unsubscribe(p) \/ GoIdle(p) \/ Touched(p) PROVE FALSE
  <2>0. obj[p] \in Objects BY <1>1
  <2>1. ASSUME obj'[p].phase = obj[p].phase, \A q \in Objs \ {p} : obj'[q] = obj[q] PROVE FALSE
    BY <1>1, <1>4, <2>1
  <2>2. CASE TakeTurn(p) BY <1>1, <2>0, <2>1, <2>2 DEF TakeTurn, Alone, Objects
  <2>3. CASE EndTurn(p)
    <3>1. PICK n : obj' = [obj EXCEPT ![p] = [obj[p] EXCEPT !.turns = @ + 1, !.worker = n, !.idle = FALSE]]
      BY <2>3 DEF EndTurn, Alone
    <3> QED BY <1>1, <2>0, <2>1, <3>1 DEF Objects
  <2>4. CASE Connect(p) BY <1>1, <2>0, <2>1, <2>4 DEF Connect, Alone, Objects
  <2>5. CASE Upkeep(p) BY <1>1, <2>0, <2>1, <2>5 DEF Upkeep, Alone, Objects
  <2>6. CASE Cancelled(p) BY <1>1, <2>0, <2>1, <2>6 DEF Cancelled, Alone, Objects
  <2>7. CASE CrewEnds(p) BY <1>1, <2>0, <2>1, <2>7 DEF CrewEnds, Alone, Objects
  <2>8. CASE Unsubscribe(p) BY <1>1, <2>0, <2>1, <2>8 DEF Unsubscribe, Alone, Objects
  <2>9. CASE GoIdle(p) BY <1>1, <2>0, <2>1, <2>9 DEF GoIdle, Alone, Objects
  <2>10. CASE Touched(p) BY <1>1, <2>0, <2>1, <2>10 DEF Touched, Alone, Objects
  <2> QED BY <1>13, <2>2, <2>3, <2>4, <2>5, <2>6, <2>7, <2>8, <2>9, <2>10 DEF Worker
<1>14. ASSUME Crash PROVE FALSE BY <1>4, <1>14 DEF Crash, Closed, Unmade
<1>15. ASSUME Tick \/ CloseAll \/ Down \/ Stop PROVE FALSE
  <2>1. ASSUME UNCHANGED obj PROVE FALSE BY <1>4, <2>1
  <2>2. ASSUME Stop PROVE FALSE BY <1>6, <2>1, <2>2 DEF Stop
  <2> QED BY <1>15, <2>1, <2>2 DEF Tick, CloseAll, Down
<1>16. ASSUME NEW t \in Reqs, NEW i \in Ids, Post(t, i) \/ Ask(t, i) PROVE FALSE
  BY <1>4, <1>5, <1>16 DEF Post, Ask
<1>17. ASSUME NEW t \in Tasks, Serve(t) PROVE FALSE
  <2>1. PICK p : p = Live(task[t].arg) OBVIOUS
  <2> QED BY <1>1, <1>4, <1>17, <2>1 DEF Serve, Objects
<1>18. ASSUME NEW t \in Tasks, Handler(t) PROVE FALSE
  BY <1>4, <1>5, <1>6, <1>8, <1>11, <1>12, <1>17, <1>18 DEF Handler, LockTaken, LoadFindsLive, LoadFindsNothing,
     LoadBuilds, Scan, Joined, Disconnected, PopNothing, ReapEnds, ForgetEnds, CreateGoesOn
<1> QED BY <1>4, <1>9, <1>10, <1>13, <1>14, <1>15, <1>16, <1>18 DEF Next, Shutdown, vars

\* "Nor is a running crew" reaped, though the list of ids to reap is made before
\* the reap suspends: only DELETE and the shutdown close a crew at work.
THEOREM CrewsKept == Spec => BusyCrewNotReaped
<1>1. TInv /\ [Next]_vars
        => [\A o \in Objs : Closes(o) /\ obj[o].worker = "run" => ClosedFor(o, {"forget", "shutdown"})]_vars
  BY BusyKept
<1> QED BY <1>1, TableAlways, PTL DEF Spec, BusyCrewNotReaped

-----------------------------------------------------------------------------
(* The table implements SessionTable: each step makes an object, enters one, *)
(* closes one, empties the table, or leaves what SessionTable sees alone.    *)

LEMMA TableStarts == Init => Table!TableInit
<1> SUFFICES ASSUME Init PROVE Table!TableInit OBVIOUS
<1>1. Open = {} BY DEF Init, Open, Unmade
<1> QED BY <1>1 DEF Init, Table!TableInit

\* No object begins to run and none stops.
LEMMA TableStays ==
    ASSUME UNCHANGED live, UNCHANGED gen, \A o \in Objs : obj'[o].phase = "open" <=> obj[o].phase = "open"
    PROVE  UNCHANGED Table!tableVars
<1>1. Open' = {o \in Objs : obj'[o].phase = "open"} BY DEF Open
<1>2. Open' = Open BY <1>1 DEF Open
<1> QED BY <1>2 DEF Table!tableVars

\* The factory: nothing runs that was not made before.
LEMMA TableMakes ==
    ASSUME TInv, NEW i \in Ids, NEW n, live[i] = 0, gen[i] < MaxGen, Build(i, n), UNCHANGED live
    PROVE  Table!Make(i)
<1>1. obj \in [Objs -> Objects] /\ gen[i] \in 0 .. MaxGen BY DEF TInv, IInv, TypeOK
<1>2. PICK o \in Objs : o = <<i, gen[i] + 1>> /\ o[2] > gen[o[1]]
  <2>1. gen[i] + 1 \in 1 .. MaxGen BY <1>1, BoundsAssumption
  <2>2. PICK o : o = <<i, gen[i] + 1>> OBVIOUS
  <2>3. o \in Objs /\ o[1] = i /\ o[2] = gen[i] + 1 BY <2>1, <2>2 DEF Objs
  <2> QED BY <1>1, <2>2, <2>3
<1>3. obj[o].phase # "open" BY <1>2 DEF TInv, TableOK, FreshOK
<1>4. obj' = [obj EXCEPT ![o] = Built(n)] /\ gen' = [gen EXCEPT ![i] = @ + 1] BY <1>2 DEF Build
<1>5. obj'[o].phase # "open" /\ \A p \in Objs \ {o} : obj'[p] = obj[p]
  BY <1>1, <1>4 DEF Built, Unmade
<1>6. Open' = {p \in Objs : obj'[p].phase = "open"} BY DEF Open
<1>7. Open' = Open BY <1>3, <1>5, <1>6 DEF Open
<1> QED BY <1>4, <1>7 DEF Table!Make

\* The start of a close: the object no longer runs, whether it leaves the table
\* at once or with the others at the end of the shutdown.
LEMMA TableLeaves ==
    ASSUME TInv, NEW i \in Ids, live[i] # 0, Live(i) \in Objs, live' \in {live, [live EXCEPT ![i] = 0]},
           obj' = [obj EXCEPT ![Live(i)].phase = "closing"], UNCHANGED gen
    PROVE  Table!Leave(i)
<1>1. PICK o \in Objs : o = Live(i) OBVIOUS
<1>2. obj \in [Objs -> Objects] BY DEF TInv, IInv, TypeOK
<1>3. obj'[o].phase = "closing" /\ \A p \in Objs \ {o} : obj'[p] = obj[p]
  BY <1>1, <1>2 DEF Objects
<1>4. Open' = {p \in Objs : obj'[p].phase = "open"} BY DEF Open
<1>5. Open' = Open \ {o} BY <1>3, <1>4 DEF Open
<1> QED BY <1>1, <1>5 DEF Table!Leave, Live

\* adopt(): the object is the newest made for its id, the id names none, and
\* the ceiling was looked at since anything awaited.
LEMMA TableEnters == ASSUME TInv, NEW t \in Tasks, Adopt(t) PROVE \E i \in Ids : Table!Enter(i)
<1>1. Adopting(task[t]) BY DEF Adopt, Reaped, Running, Adopting, Makers
<1>2. PICK o \in Objs : o = task[t].mine /\ o[1] \in Ids /\ o[2] = gen[o[1]] /\ live[o[1]] = 0 /\ o[2] \in 1 .. MaxGen
  BY <1>1, MineKnown
<1>3. PICK i \in Ids : i = o[1] /\ o = <<i, gen[i]>> BY <1>2 DEF Objs
<1>4. obj \in [Objs -> Objects] BY DEF TInv, IInv, TypeOK
<1>5. PICK w \in {"run", "wait"} :
        obj' = [obj EXCEPT ![o] = [obj[o] EXCEPT !.phase = "open", !.idle = FALSE, !.worker = w]]
  BY <1>2 DEF Adopt
<1>6. obj'[o].phase = "open" /\ \A p \in Objs \ {o} : obj'[p] = obj[p]
  BY <1>4, <1>5 DEF Objects
<1>7. Open' = {p \in Objs : obj'[p].phase = "open"} BY DEF Open
<1>8. Open' = Open \cup {o} BY <1>6, <1>7 DEF Open
<1>9. Cardinality({j \in Ids : live[j] # 0}) < MaxSessions
  <2>1. Cardinality(Hosted) \in Nat BY HostedFinite, FS_CardinalityType
  <2>2. ~Full BY DEF Adopt
  <2> QED BY <2>1, <2>2, BoundsAssumption DEF Full, Hosted
<1>10. live' = [live EXCEPT ![i] = gen[i]] /\ UNCHANGED gen BY <1>2, <1>3 DEF Adopt
<1>11. live[i] = 0 /\ gen[i] # 0 BY <1>2, <1>3
<1>12. Open' = Open \cup {<<i, gen[i]>>} BY <1>3, <1>8
<1>13. Cardinality({j \in Ids : live[j] # 0}) = Table!Cardinality({j \in Ids : live[j] # 0})
  BY DEF Cardinality, Table!Cardinality
<1>14. Table!Enter(i) BY ONLY <1>9, <1>10, <1>11, <1>12, <1>13 DEF Table!Enter
<1> QED BY <1>14

\* The end of the process: of a crash at any step, and of the shutdown, which
\* closed every object the table named.
LEMMA TableEmpties == ASSUME TInv, Crash \/ Down PROVE Table!Empty
<1>1. live' = [i \in Ids |-> 0] /\ UNCHANGED gen BY DEF Crash, Down
<1>2. Open' = {p \in Objs : obj'[p].phase = "open"} BY DEF Open
<1>3. CASE Crash
  <2>1. \A p \in Objs : obj'[p].phase # "open" BY <1>3 DEF Crash, Unmade, Closed
  <2> QED BY <1>1, <1>2, <2>1 DEF Table!Empty
<1>4. CASE Down
  <2>1. task[Lifespan].op = "shutdown" /\ task[Lifespan].stale = {} /\ UNCHANGED obj
    BY <1>4 DEF Down, Reaped
  <2>2. \A p \in Objs : ~Awake(p[1]) BY <2>1 DEF Awake
  <2>3. \A p \in Objs : obj[p].phase # "open" BY <2>2 DEF TInv, TableOK, OpenOK
  <2> QED BY <1>1, <1>2, <2>1, <2>3 DEF Table!Empty
<1> QED BY <1>3, <1>4

\* What the steps of handlers do to the objects they close, find and discard.
LEMMA TableHandlers ==
    ASSUME TInv, NEW t \in Tasks, Handler(t)
    PROVE  (\E i \in Ids : Table!Make(i) \/ Table!Enter(i) \/ Table!Leave(i)) \/ UNCHANGED Table!tableVars
<1>1. obj \in [Objs -> Objects] BY DEF TInv, IInv, TypeOK
<1>2. ASSUME UNCHANGED live, UNCHANGED gen, UNCHANGED obj PROVE UNCHANGED Table!tableVars
  BY <1>2, TableStays
<1>3. CASE LoadBuilds(t)
  <2>1. PICK i \in Ids : i = task[t].arg
    BY <1>3 DEF LoadBuilds, Running, TInv, IInv, HandlerOK, Fit
  <2>2. PICK n : n = store[Place(i)].turns OBVIOUS
  <2>3. live[i] = 0 /\ gen[i] < MaxGen /\ Build(i, n) /\ UNCHANGED live BY <1>3, <2>1, <2>2 DEF LoadBuilds
  <2> QED BY <2>3, TableMakes
<1>4. ASSUME NEW i \in Ids, Pop(t, i) PROVE Table!Leave(i)
  <2>1. /\ live[i] # 0 /\ live' = [live EXCEPT ![i] = 0] /\ UNCHANGED gen
        /\ obj' = [obj EXCEPT ![Live(i)].phase = "closing"]
    BY <1>4 DEF Pop, Aclose
  <2>2. Live(i) \in Objs BY <2>1 DEF TInv, IInv, TypeOK, Live, Objs
  <2> QED BY <2>1, <2>2, TableLeaves
<1>5. CASE Adopt(t) BY <1>5, TableEnters
<1>6. ASSUME NEW o \in Objs, obj[o].phase # "open", obj'[o].phase # "open",
             \A p \in Objs \ {o} : obj'[p] = obj[p], UNCHANGED live, UNCHANGED gen
      PROVE  UNCHANGED Table!tableVars
  BY <1>6, TableStays
<1>7. CASE Refused(t)
  <2>1. Adopting(task[t]) BY <1>7 DEF Refused, Reaped, Running, Adopting, Makers
  <2>2. PICK o \in Objs : o = task[t].mine /\ obj[o].phase = "new" BY <2>1, MineKnown
  <2>3. obj' = [obj EXCEPT ![o] = Closed] /\ UNCHANGED live /\ UNCHANGED gen BY <1>7, <2>2 DEF Refused
  <2>4. obj'[o].phase # "open" /\ \A p \in Objs \ {o} : obj'[p] = obj[p] BY <1>1, <2>3 DEF Closed, Unmade
  <2> QED BY <1>6, <2>2, <2>3, <2>4
<1>8. CASE SaveClosed(t) \/ Disconnected(t)
  <2>1. task[t].pc \in {"saving", "disconnect"} BY <1>8 DEF SaveClosed, Disconnected, Running, Suspended
  <2>2. PICK o \in Objs : o = task[t].cur /\ obj[o].phase = "closing"
    BY <2>1 DEF Closing, Cur, TInv, TableOK, HandlersOK, IInv, HandlerOK, Fit
  <2>3. UNCHANGED live /\ UNCHANGED gen BY <1>8 DEF SaveClosed, Disconnected
  <2>4. obj'[o].phase # "open" /\ \A p \in Objs \ {o} : obj'[p] = obj[p]
    <3>1. CASE SaveClosed(t)
      <4>1. obj' = [obj EXCEPT ![o] = [Closed EXCEPT !.watch = obj[o].watch]] BY <2>2, <3>1 DEF SaveClosed
      <4> QED BY <1>1, <4>1 DEF Closed, Unmade
    <3>2. CASE Disconnected(t)
      <4>1. obj' = [obj EXCEPT ![o].client = FALSE] BY <2>2, <3>2 DEF Disconnected
      <4> QED BY <1>1, <2>2, <4>1 DEF Objects
    <3> QED BY <1>8, <3>1, <3>2
  <2> QED BY <1>6, <2>2, <2>3, <2>4
<1>9. CASE Serve(t)
  <2>1. PICK o : o = Live(task[t].arg) OBVIOUS
  <2>2. \A p \in Objs : obj'[p].phase = obj[p].phase BY <1>1, <1>9, <2>1 DEF Serve, Objects
  <2>3. UNCHANGED live /\ UNCHANGED gen BY <1>9 DEF Serve
  <2> QED BY <2>2, <2>3, TableStays
<1>10. CASE Scan(t) \/ Joined(t) \/ LockTaken(t) \/ LoadFindsLive(t) \/ LoadFindsNothing(t) \/ ReapEnds(t)
             \/ ForgetEnds(t) \/ CreateGoesOn(t) \/ \E i \in Ids : PopNothing(t, i)
  BY <1>2, <1>10 DEF Scan, Joined, LockTaken, LoadFindsLive, LoadFindsNothing, ReapEnds, ForgetEnds, CreateGoesOn, PopNothing
<1> QED BY <1>3, <1>4, <1>5, <1>7, <1>8, <1>9, <1>10 DEF Handler

\* The steps of workers and event streams begin and end no object.
LEMMA TableObjects ==
    ASSUME TInv, NEW o \in Objs, Worker(o) \/ Unsubscribe(o) \/ GoIdle(o) \/ Touched(o)
    PROVE  UNCHANGED Table!tableVars
<1>1. obj \in [Objs -> Objects] BY DEF TInv, IInv, TypeOK
<1>2. UNCHANGED live /\ UNCHANGED gen
  BY DEF Worker, TakeTurn, Connect, EndTurn, Upkeep, Cancelled, CrewEnds, Unsubscribe, GoIdle, Touched, Alone
<1>3. ASSUME obj'[o].phase = obj[o].phase, \A q \in Objs \ {o} : obj'[q] = obj[q] PROVE UNCHANGED Table!tableVars
  BY <1>2, <1>3, TableStays
<1>4. obj[o] \in Objects BY <1>1
<1>5. CASE TakeTurn(o) BY <1>1, <1>3, <1>4, <1>5 DEF TakeTurn, Alone, Objects
<1>6. CASE Connect(o) BY <1>1, <1>3, <1>4, <1>6 DEF Connect, Alone, Objects
<1>7. CASE EndTurn(o)
  <2>1. PICK n : obj' = [obj EXCEPT ![o] = [obj[o] EXCEPT !.turns = @ + 1, !.worker = n, !.idle = FALSE]]
    BY <1>7 DEF EndTurn, Alone
  <2> QED BY <1>1, <1>3, <1>4, <2>1 DEF Objects
<1>8. CASE Upkeep(o) BY <1>1, <1>3, <1>4, <1>8 DEF Upkeep, Alone, Objects
<1>9. CASE Cancelled(o) BY <1>1, <1>3, <1>4, <1>9 DEF Cancelled, Alone, Objects
<1>10. CASE CrewEnds(o) BY <1>1, <1>3, <1>4, <1>10 DEF CrewEnds, Alone, Objects
<1>11. CASE Unsubscribe(o) BY <1>1, <1>3, <1>4, <1>11 DEF Unsubscribe, Alone, Objects
<1>12. CASE GoIdle(o) BY <1>1, <1>3, <1>4, <1>12 DEF GoIdle, Alone, Objects
<1>13. CASE Touched(o) BY <1>1, <1>3, <1>4, <1>13 DEF Touched, Alone, Objects
<1> QED BY <1>5, <1>6, <1>7, <1>8, <1>9, <1>10, <1>11, <1>12, <1>13 DEF Worker

LEMMA TableRequests ==
    ASSUME TInv, NEW t \in Reqs, NEW i \in Ids, Post(t, i) \/ Ask(t, i) \/ Forget(t, i)
    PROVE  Table!Make(i) \/ Table!Leave(i) \/ UNCHANGED Table!tableVars
<1>1. live \in [Ids -> 0 .. MaxGen] /\ gen \in [Ids -> 0 .. MaxGen] BY DEF TInv, IInv, TypeOK
<1>2. CASE Post(t, i)
  <2>1. server = "up" /\ gen[i] = 0 /\ Build(i, 0) /\ UNCHANGED live
    BY <1>2 DEF Post, Request
  <2>2. live[i] = 0
    <3>1. task[Lifespan].op # "shutdown" BY <2>1 DEF TInv, IInv, HandlerOK
    <3>2. live[i] # 0 => Awake(i) BY <3>1 DEF Awake
    <3> QED BY <1>1, <2>1, <3>2, HostedIsOpen
  <2> QED BY <2>1, <2>2, TableMakes, BoundsAssumption
<1>3. CASE Ask(t, i) BY <1>3, TableStays DEF Ask
<1>4. CASE Forget(t, i) /\ live[i] # 0
  <2>1. /\ live' = [live EXCEPT ![i] = 0] /\ UNCHANGED gen
        /\ obj' = [obj EXCEPT ![Live(i)].phase = "closing"]
    BY <1>4 DEF Forget, Aclose
  <2>2. Live(i) \in Objs BY <1>1, <1>4 DEF Live, Objs
  <2> QED BY <1>4, <2>1, <2>2, TableLeaves
<1>5. CASE Forget(t, i) /\ live[i] = 0
  <2>1. UNCHANGED live /\ UNCHANGED gen /\ UNCHANGED obj BY <1>1, <1>5 DEF Forget
  <2> QED BY <2>1, TableStays
<1> QED BY <1>2, <1>3, <1>4, <1>5

LEMMA TableShutdown ==
    ASSUME TInv, Tick \/ Shutdown \/ Stop \/ Crash
    PROVE  Table!Empty \/ (\E i \in Ids : Table!Leave(i)) \/ UNCHANGED Table!tableVars
<1>1. obj \in [Objs -> Objects] /\ live \in [Ids -> 0 .. MaxGen] BY DEF TInv, IInv, TypeOK
<1>2. CASE Tick \/ CloseAll BY <1>2, TableStays DEF Tick, CloseAll
<1>3. CASE Stop
  <2>1. \A p \in Objs : obj'[p].phase = obj[p].phase
    <3>1. CASE task[Reaper].pc = "disconnect"
      <4>1. PICK left \in BOOLEAN : obj' = [obj EXCEPT ![task[Reaper].cur].client = left]
        BY <1>3, <3>1 DEF Stop
      <4> QED BY <1>1, <4>1 DEF Objects
    <3> QED BY <1>3, <3>1 DEF Stop
  <2>2. UNCHANGED live /\ UNCHANGED gen BY <1>3 DEF Stop
  <2> QED BY <2>1, <2>2, TableStays
<1>4. ASSUME NEW i \in Ids, CloseNext(i) PROVE Table!Leave(i)
  <2>1. /\ UNCHANGED live /\ UNCHANGED gen /\ task[Lifespan].pc = "reap" /\ i \in task[Lifespan].stale
        /\ obj' = [obj EXCEPT ![Live(i)].phase = "closing"]
    BY <1>4 DEF CloseNext, Aclose, Running
  <2>2. live[i] # 0 BY <2>1 DEF TInv, IInv, HandlerOK, Hosted, TypeOK
  <2>3. Live(i) \in Objs BY <1>1, <2>2 DEF Live, Objs
  <2> QED BY <2>1, <2>2, <2>3, TableLeaves
<1> QED BY <1>2, <1>3, <1>4, TableEmpties DEF Shutdown

\* Whatever handlers await, the table behaves as SessionTable says: an object
\* runs exactly from its entry to the start of its close, its id names it as
\* long, it is the newest of its id, and another is made only when none is named.
THEOREM TableImplements == Spec => TableKept
<1>1. TInv /\ [Next]_vars => [Table!TableNext]_Table!tableVars
  <2> SUFFICES ASSUME TInv, [Next]_vars PROVE Table!TableNext \/ UNCHANGED Table!tableVars OBVIOUS
  <2>1. ASSUME UNCHANGED vars PROVE UNCHANGED Table!tableVars BY <2>1, TableStays DEF vars
  <2> QED BY <2>1, TableHandlers, TableObjects, TableRequests, TableShutdown DEF Next, Table!TableNext
<1> QED BY <1>1, TableStarts, TableAlways, PTL DEF Spec, TableKept, Table!TableSpec
=============================================================================
