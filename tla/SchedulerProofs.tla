--------------------------- MODULE SchedulerProofs ---------------------------
(***************************************************************************)
(* Theorems about Scheduler, for every set of schedules, issues and        *)
(* requests and every bound.                                               *)
(*                                                                         *)
(* The invariant says that the loop runs the one firing that is between    *)
(* two awaits, that a recorder which still listens to its session has its  *)
(* turn in that session's queue, where it is the only one, and that an     *)
(* entry of the history is of a run of its own schedule, followed while    *)
(* the entry says so.  What holds of the tick alone, with no request to    *)
(* fire a schedule at the same time, is a second invariant on top of it.   *)
(***************************************************************************)
EXTENDS Scheduler, FiniteSetTheorems, TLAPS

OnLoop == {"next", "start", "first", "submit", "record"}
LoopOK ==
    /\ \A f \in Firers : fire[f].pc \in OnLoop <=> cpu = f
    /\ server # "up" => \A f \in Firers : fire[f].pc \in {"idle", "ended"}

\* What the place of a firing says of its locals.
FiringOK(h) ==
    /\ h.pc \notin {"idle", "ended", "next"} => h.s \in Scheds
    /\ h.pc \in {"plan", "launch"} => h.s \in Crewed
    /\ h.pc \in {"list", "fetch", "checkout", "close"} => h.s \in Works
    /\ h.pc \in {"create", "first", "submit"} => h.s \in Turns \cup Works
    /\ h.pc # "record" => h.run = 0
    /\ h.pc \in {"start", "plan", "launch", "list"} => h.issue = NoIssue
    /\ h.pc = "fetch" => h.issue # NoIssue

\* A session about to get a prompt has none; a run about to be recorded as
\* submitted has its recorder.
Ready(h) ==
    /\ Live(h.session) /\ sess[h.session].queue = <<>> /\ ~sess[h.session].crew
    /\ sched[h.s].session = h.session
Told(h) ==
    IF h.status = "submitted"
    THEN h.run # 0 /\ Followed(h.run) /\ run[h.run].s = h.s
    ELSE h.run = 0 /\ h.status \in {"skipped", "unrecorded"}
Poised(h) ==
    /\ h.pc \in {"first", "submit"} => Ready(h)
    /\ h.pc = "record" => Told(h)

\* A recorder that listens has its turn in the queue, and a turn that runs has no
\* recorder still waiting for it.
RunOK(r, x, ss) ==
    /\ x.s = NoOne => x = NoRun
    /\ x.s # NoOne => x.session # 0
    /\ x.rec \in {"result", "error"} => x.end = x.rec
    /\ x.rec \in {"wait", "follow"} =>
         /\ x.session # 0 /\ ss[x.session].life = "open"
         /\ \E j \in DOMAIN ss[x.session].queue : ss[x.session].queue[j] = r
    /\ x.rec = "follow" => ss[x.session].active /\ ss[x.session].queue[1] = r

\* A queue holds at most one run, of its own session, not yet ended.
SessionOK(n, z, rr) ==
    /\ \A j, k \in DOMAIN z.queue : z.queue[j] # 0 /\ z.queue[k] # 0 => j = k
    /\ \A j \in DOMAIN z.queue : z.queue[j] # 0 =>
         LET x == rr[z.queue[j]] IN
         /\ x.session = n /\ x.end = "none" /\ x.s # NoOne
         /\ z.active /\ j = 1 => x.rec # "wait"
    /\ z.life # "open" => z.queue = <<>> /\ ~z.active
    /\ z.active => z.queue # <<>>
    /\ z.life = "none" => ~z.crew

EntryOK(e, s, rr) ==
    /\ e.run # 0 => rr[e.run].s = s
    /\ e.status = "submitted" => e.run # 0 /\ rr[e.run].rec \notin {"none", "over"}
    /\ e.status = "done" => e.run # 0 /\ rr[e.run].end = "result"
    /\ e.status = "error" => e.run # 0 /\ rr[e.run].end = "error"
ScheduleOK(s, y, ss, rr) ==
    /\ \A k \in DOMAIN y.runs : EntryOK(y.runs[k], s, rr)
    /\ y.session # 0 => /\ ss[y.session].life # "none"
                        /\ ss[y.session].crew => s \in Crewed

StoreTyped ==
    /\ sched \in [Scheds -> Schedules]
    /\ \A s \in Scheds : Len(sched[s].runs) <= Keep /\ Len(sched[s].worked) <= MaxWorked
    /\ sess \in [1 .. MaxSessions -> Conversations] /\ run \in [Runs -> Submitted]
FiringsTyped ==
    /\ fire \in [Firers -> Firings] /\ item \in [Scheds -> Issues \cup {NoIssue}]
    /\ cpu \in Firers \cup {NoOne} /\ server \in {"up", "stopping", "down"}
    /\ crashes \in 0 .. MaxCrashes

\* The sessions, runs and histories, and the firings.
World ==
    /\ StoreTyped
    /\ \A r \in Runs : RunOK(r, run[r], sess)
    /\ \A n \in 1 .. MaxSessions : SessionOK(n, sess[n], run)
    /\ \A s \in Scheds : ScheduleOK(s, sched[s], sess, run)
Loop ==
    /\ FiringsTyped /\ LoopOK
    /\ \A f \in Firers : FiringOK(fire[f]) /\ Poised(fire[f])
CrewsOK == CrewsRunning <= MaxCrews

IInv == World /\ Loop /\ CrewsOK

-----------------------------------------------------------------------------
(* Sequences.                                                              *)

LEMMA SeqIs ==
    ASSUME NEW T, NEW q \in Seq(T)
    PROVE  /\ Len(q) \in Nat /\ DOMAIN q = 1 .. Len(q) /\ \A j \in DOMAIN q : q[j] \in T
           /\ q = <<>> <=> Len(q) = 0
           /\ \A x : Contains(q, x) <=> \E j \in DOMAIN q : q[j] = x
BY DEF Contains

LEMMA NoneIn == ASSUME NEW q, q = <<>> PROVE DOMAIN q = {}
OBVIOUS

LEMMA AppendIs ==
    ASSUME NEW T, NEW q \in Seq(T), NEW x \in T, NEW a, a = Append(q, x)
    PROVE  /\ a \in Seq(T) /\ Len(a) = Len(q) + 1 /\ DOMAIN a = 1 .. Len(q) + 1 /\ DOMAIN q = 1 .. Len(q)
           /\ a[Len(q) + 1] = x /\ \A j \in DOMAIN q : a[j] = q[j]
OBVIOUS

LEMMA TailIs ==
    ASSUME NEW T, NEW q \in Seq(T), q # <<>>, NEW a, a = Tail(q)
    PROVE  /\ a \in Seq(T) /\ Len(a) = Len(q) - 1 /\ DOMAIN a = 1 .. Len(q) - 1
           /\ DOMAIN q = 1 .. Len(q) /\ Len(q) \in Nat /\ Len(q) > 0 /\ Head(q) = q[1] /\ q[1] \in T
           /\ \A j \in DOMAIN a : a[j] = q[j + 1]
OBVIOUS

\* A list of at most n takes another and forgets its first if it must.
CutOf(T, n, q, x, r) ==
    /\ r \in Seq(T) /\ Len(r) <= n /\ (Len(q) < n => r = Append(q, x))
    /\ DOMAIN r = 1 .. Len(r)
    /\ \A j \in DOMAIN r : r[j] = x \/ \E k \in DOMAIN q : r[j] = q[k]
LEMMA CutIs ==
    ASSUME NEW T, NEW q \in Seq(T), NEW x \in T, NEW n \in Nat, n > 0, Len(q) <= n, NEW a, NEW r,
           a = Append(q, x), r = SubSeq(a, 1 + IF Len(a) > n THEN 1 ELSE 0, Len(a))
    PROVE  CutOf(T, n, q, x, r)
<1>1. /\ a \in Seq(T) /\ Len(a) = Len(q) + 1 /\ DOMAIN a = 1 .. Len(q) + 1 /\ DOMAIN q = 1 .. Len(q)
      /\ a[Len(q) + 1] = x /\ \A j \in DOMAIN q : a[j] = q[j]
  BY AppendIs
<1>2. Len(q) \in Nat OBVIOUS
<1>3. CASE Len(q) < n
  <2>1. r = SubSeq(a, 1, Len(a)) BY <1>1, <1>2, <1>3
  <2>2. r = a BY <1>1, <2>1
  <2>3. \A j \in DOMAIN a : a[j] = x \/ j \in DOMAIN q BY <1>1, <1>2
  <2>4. Len(r) <= n BY <1>1, <1>2, <1>3, <2>2
  <2> QED BY <1>1, <2>2, <2>3, <2>4 DEF CutOf
<1>4. CASE Len(q) = n
  <2>1. r = SubSeq(a, 2, Len(a)) BY <1>1, <1>2, <1>4
  <2>2. r \in Seq(T) /\ Len(r) = n /\ DOMAIN r = 1 .. n /\ \A j \in 1 .. n : r[j] = a[j + 1]
    BY <1>1, <1>2, <1>4, <2>1
  <2>3. ASSUME NEW j \in 1 .. n PROVE r[j] = x \/ \E k \in DOMAIN q : r[j] = q[k]
    <3>1. j = n \/ j + 1 \in DOMAIN q BY <1>1, <1>2, <1>4
    <3> QED BY <1>1, <1>4, <2>2, <3>1
  <2>4. Len(r) <= n /\ ~(Len(q) < n) BY <1>2, <1>4, <2>2
  <2> QED BY <2>2, <2>3, <2>4 DEF CutOf
<1> QED BY <1>2, <1>3, <1>4

LEMMA MapIs ==
    ASSUME NEW T, NEW q \in Seq(T), NEW f, NEW a, a = [k \in DOMAIN q |-> f[q[k]]],
           \A e \in T : f[e] \in T
    PROVE  /\ a \in Seq(T) /\ Len(a) = Len(q) /\ DOMAIN a = DOMAIN q
           /\ \A k \in DOMAIN a : a[k] = f[q[k]] /\ q[k] \in T
<1>1. DOMAIN q = 1 .. Len(q) /\ Len(q) \in Nat /\ \A k \in DOMAIN q : q[k] \in T OBVIOUS
<1>2. a \in [1 .. Len(q) -> T] BY <1>1
<1> QED BY <1>1, <1>2

-----------------------------------------------------------------------------
(* The sessions.                                                           *)

\* What the world says of one schedule, one run and one session.
LEMMA Typed ==
    ASSUME World
    PROVE  /\ \A n \in 1 .. MaxSessions :
                /\ sess[n] \in Conversations /\ sess[n].queue \in Seq(0 .. MaxRuns)
                /\ SessionOK(n, sess[n], run)
           /\ \A r \in Runs : run[r] \in Submitted /\ RunOK(r, run[r], sess)
           /\ \A s \in Scheds : sched[s] \in Schedules /\ sched[s].runs \in Seq(Entries)
                /\ ScheduleOK(s, sched[s], sess, run)
           /\ \A s \in Scheds : \A k \in DOMAIN sched[s].runs : sched[s].runs[k] \in Entries
<1>1. \A s \in Scheds : sched[s].runs \in Seq(Entries) BY DEF World, StoreTyped, Schedules
<1>2. ASSUME NEW s \in Scheds, NEW k \in DOMAIN sched[s].runs PROVE sched[s].runs[k] \in Entries
  BY <1>1, SeqIs
<1> QED BY <1>1, <1>2 DEF World, StoreTyped, Schedules, Conversations

\* A history does not mind what happens to a run without an outcome.
RunGoesOn(x, y) ==
    /\ y.s = x.s /\ (x.end # "none" => y.end = x.end)
    /\ x.rec \notin {"none", "over"} => y.rec \notin {"none", "over"}
SessionGoesOn(x, y) == x.life # "none" => y.life # "none" /\ y.crew = x.crew
LEMMA HistoryKept ==
    ASSUME World, sched' = sched,
           \A p \in Runs : run[p].s # NoOne => RunGoesOn(run[p], run'[p]),
           \A m \in 1 .. MaxSessions : SessionGoesOn(sess[m], sess'[m])
    PROVE  \A s \in Scheds : ScheduleOK(s, sched[s], sess, run)'
<1> SUFFICES ASSUME NEW s \in Scheds PROVE ScheduleOK(s, sched[s], sess, run)' OBVIOUS
<1>1. ScheduleOK(s, sched[s], sess, run) /\ sched[s] \in Schedules BY Typed
<1>2. ASSUME NEW k \in DOMAIN sched[s].runs PROVE EntryOK(sched[s].runs[k], s, run')
  <2> DEFINE x == sched[s].runs[k]
  <2>1. x \in Entries /\ EntryOK(x, s, run) BY <1>1, Typed DEF ScheduleOK
  <2>2. x.run # 0 => x.run \in Runs BY <2>1, BoundsAssumption DEF Entries, Runs
  <2> HIDE DEF x
  <2>3. x.run # 0 => RunGoesOn(run[x.run], run'[x.run])
    BY <2>1, <2>2, NamesAssumption DEF EntryOK
  <2>4. EntryOK(x, s, run') BY <2>1, <2>2, <2>3 DEF EntryOK, RunGoesOn
  <2> QED BY <2>4 DEF x
<1>3. sched[s].session # 0 => sched[s].session \in 1 .. MaxSessions
  BY <1>1, BoundsAssumption DEF Schedules
<1> QED BY <1>1, <1>2, <1>3 DEF ScheduleOK, SessionGoesOn

LEMMA TurnsTail ==
    ASSUME NEW q \in Seq(0 .. MaxRuns), q # <<>>, NEW a, a = Tail(q)
    PROVE  /\ a \in Seq(0 .. MaxRuns) /\ DOMAIN a = 1 .. Len(q) - 1
           /\ DOMAIN q = 1 .. Len(q) /\ Len(q) \in Nat /\ Len(q) > 0 /\ Head(q) = q[1] /\ q[1] \in 0 .. MaxRuns
           /\ \A j \in DOMAIN a : j + 1 \in DOMAIN q /\ j + 1 # 1 /\ a[j] = q[j + 1]
           /\ \A j \in DOMAIN q : j # 1 => j - 1 \in DOMAIN a /\ a[j - 1] = q[j]
           /\ \A j, k \in DOMAIN a : j + 1 = k + 1 => j = k
<1>1. PICK T : T = 0 .. MaxRuns OBVIOUS
<1>2. q \in Seq(T) BY <1>1
<1>3. /\ a \in Seq(T) /\ DOMAIN a = 1 .. Len(q) - 1
      /\ DOMAIN q = 1 .. Len(q) /\ Len(q) \in Nat /\ Len(q) > 0 /\ Head(q) = q[1] /\ q[1] \in T
      /\ \A j \in DOMAIN a : a[j] = q[j + 1]
  BY <1>2, TailIs
<1>4. ASSUME NEW j \in DOMAIN a PROVE j + 1 \in DOMAIN q /\ j + 1 # 1
  BY <1>3
<1>5. ASSUME NEW j \in DOMAIN q, j # 1 PROVE j - 1 \in DOMAIN a /\ a[j - 1] = q[j]
  <2>1. j - 1 \in DOMAIN a /\ (j - 1) + 1 = j BY <1>3, <1>5
  <2> QED BY <1>3, <2>1
<1>6. \A j, k \in DOMAIN a : j + 1 = k + 1 => j = k BY <1>3
<1> QED BY <1>1, <1>3, <1>4, <1>5, <1>6

LEMMA TurnEnds ==
    ASSUME World, NEW n \in 1 .. MaxSessions, NEW e \in {"result", "error"}, EndTurn(n, e)
    PROVE  World'
<1> DEFINE q == sess[n].queue
           t == Tail(q)
<1>1. /\ sess[n] \in Conversations /\ q \in Seq(0 .. MaxRuns) /\ SessionOK(n, sess[n], run)
      /\ sess[n].active /\ sess[n].life = "open"
  BY Typed DEF EndTurn, Live
<1>2. q # <<>> BY <1>1 DEF SessionOK
<1>3. /\ t \in Seq(0 .. MaxRuns) /\ DOMAIN t = 1 .. Len(q) - 1
      /\ DOMAIN q = 1 .. Len(q) /\ Len(q) \in Nat /\ Len(q) > 0 /\ Head(q) = q[1] /\ q[1] \in 0 .. MaxRuns
      /\ \A j \in DOMAIN t : j + 1 \in DOMAIN q /\ j + 1 # 1 /\ t[j] = q[j + 1]
      /\ \A j \in DOMAIN q : j # 1 => j - 1 \in DOMAIN t /\ t[j - 1] = q[j]
      /\ \A j, k \in DOMAIN t : j + 1 = k + 1 => j = k
  <2>1. q \in Seq(0 .. MaxRuns) /\ q # <<>> /\ t = Tail(q) BY <1>1, <1>2
  <2> HIDE DEF q, t
  <2> QED BY <2>1, TurnsTail
<1>4. sess' = [sess EXCEPT ![n] = [@ EXCEPT !.active = FALSE, !.queue = t]] /\ sched' = sched
  BY <1>1 DEF EndTurn, Conversations
<1>5. \A p \in Runs : run'[p] = [run[p] EXCEPT !.end = IF p = q[1] THEN e ELSE @,
                                               !.rec = IF @ = "follow" /\ run[p].session = n THEN e ELSE @]
  BY <1>3 DEF EndTurn
<1>6. DOMAIN run' = Runs /\ run' = [p \in Runs |-> run'[p]] BY DEF EndTurn
<1> HIDE DEF t
<1>7. /\ sess'[n].queue = t /\ sess'[n].active = FALSE /\ sess'[n].life = "open" /\ sess'[n].crew = sess[n].crew
      /\ \A m \in 1 .. MaxSessions : m # n => sess'[m] = sess[m]
  BY <1>1, <1>4 DEF World, StoreTyped, Conversations
<1>8. ASSUME NEW p \in Runs
      PROVE  /\ run'[p].s = run[p].s /\ run'[p].session = run[p].session /\ run'[p] \in Submitted
             /\ run'[p].end = IF p = q[1] THEN e ELSE run[p].end
             /\ run'[p].rec = IF run[p].rec = "follow" /\ run[p].session = n THEN e ELSE run[p].rec
             /\ p # q[1] /\ ~(run[p].rec = "follow" /\ run[p].session = n) => run'[p] = run[p]
  <2>1. run[p] \in Submitted BY Typed
  <2>2. run'[p] = [run[p] EXCEPT !.end = IF p = q[1] THEN e ELSE @,
                                 !.rec = IF @ = "follow" /\ run[p].session = n THEN e ELSE @]
    BY <1>5
  <2> HIDE DEF q
  <2>3. p # q[1] /\ ~(run[p].rec = "follow" /\ run[p].session = n) => run'[p] = run[p]
    <3> SUFFICES ASSUME p # q[1], ~(run[p].rec = "follow" /\ run[p].session = n) PROVE run'[p] = run[p]
      OBVIOUS
    <3>1. run'[p] = [run[p] EXCEPT !.end = @, !.rec = @] BY <2>2
    <3>2. [run[p] EXCEPT !.end = @, !.rec = @] = run[p] BY <2>1 DEF Submitted
    <3> QED BY <3>1, <3>2
  <2>4. /\ run'[p].s = run[p].s /\ run'[p].session = run[p].session
        /\ run'[p].end = IF p = q[1] THEN e ELSE run[p].end
        /\ run'[p].rec = IF run[p].rec = "follow" /\ run[p].session = n THEN e ELSE run[p].rec
    BY <2>1, <2>2 DEF Submitted
  <2>5. run'[p] \in Submitted BY <2>1, <2>2 DEF Submitted
  <2> QED BY <2>3, <2>4, <2>5
<1>9. ASSUME NEW p \in Runs, run[p].rec = "follow", run[p].session = n PROVE p = q[1]
  BY <1>9, Typed DEF RunOK
<1>10. ASSUME NEW p \in Runs, p = q[1] PROVE run[p].end = "none" /\ run[p].s # NoOne /\ run[p].session = n
         /\ run[p].rec # "wait"
  <2>1. 1 \in DOMAIN q /\ p # 0 BY <1>3 DEF Runs
  <2> QED BY <1>1, <1>10, <2>1 DEF SessionOK
<1>11. StoreTyped'
  <2>1. sess'[n] \in Conversations BY <1>1, <1>3, <1>4 DEF World, StoreTyped, Conversations
  <2>2. sess' \in [1 .. MaxSessions -> Conversations] BY <1>4, <2>1 DEF World, StoreTyped
  <2> QED BY <1>4, <1>6, <1>8, <2>2 DEF World, StoreTyped
<1>12. ASSUME NEW p \in Runs PROVE RunOK(p, run[p], sess)'
  <2>1. RunOK(p, run[p], sess) BY Typed
  <2>2. CASE p = q[1]
    <3>0. /\ run[p].session = n /\ run[p].end = "none" /\ run[p].rec # "wait" /\ run'[p].end = e
          /\ run'[p].rec = IF run[p].rec = "follow" /\ run[p].session = n THEN e ELSE run[p].rec
      BY <1>8, <1>10, <2>2
    <3>1. run'[p].rec \notin {"wait", "follow"}
      BY <3>0
    <3>2. run'[p].rec \in {"result", "error"} => run'[p].end = run'[p].rec
      BY <2>1, <3>0 DEF RunOK
    <3>3. run'[p].s # NoOne /\ run'[p].session = n /\ n # 0 BY <1>8, <1>10, <2>2
    <3> HIDE DEF q
    <3> QED BY <3>1, <3>2, <3>3 DEF RunOK
  <2>3. CASE p # q[1]
    <3>1. run'[p] = run[p] BY <1>8, <1>9, <2>3
    <3>2. CASE run[p].session # n
      <4>1. run[p].session # 0 /\ run[p].session \in 0 .. MaxSessions => sess'[run[p].session] = sess[run[p].session]
        BY <1>7, <3>2, BoundsAssumption
      <4>2. run[p].session \in 0 .. MaxSessions BY Typed DEF Submitted
      <4> QED BY <2>1, <3>1, <4>1, <4>2 DEF RunOK
    <3>3. CASE run[p].session = n
      <4>1. run[p].rec # "follow" BY <1>9, <2>3, <3>3
      <4>2. ASSUME run[p].rec = "wait" PROVE \E j \in DOMAIN t : t[j] = p
        <5>1. PICK j \in DOMAIN q : q[j] = p BY <2>1, <3>3, <4>2 DEF RunOK
        <5>2. j # 1 BY <2>3, <5>1
        <5>3. j - 1 \in DOMAIN t /\ t[j - 1] = q[j] BY <1>3, <5>2
        <5> QED BY <5>1, <5>3
      <4> QED BY <1>7, <2>1, <3>1, <3>3, <4>1, <4>2 DEF RunOK
    <3> QED BY <3>2, <3>3
  <2> QED BY <2>2, <2>3
<1>13. ASSUME NEW m \in 1 .. MaxSessions PROVE SessionOK(m, sess[m], run)'
  <2>1. SessionOK(m, sess[m], run) /\ sess[m].queue \in Seq(0 .. MaxRuns) BY Typed
  <2>2. ASSUME NEW j \in DOMAIN sess[m].queue PROVE sess[m].queue[j] # 0 => sess[m].queue[j] \in Runs
    BY <2>1, BoundsAssumption DEF Runs
  <2>3. CASE m # n
    <3>1. ASSUME NEW j \in DOMAIN sess[m].queue, sess[m].queue[j] # 0
          PROVE  run'[sess[m].queue[j]] = run[sess[m].queue[j]]
      <4>1. run[sess[m].queue[j]].session = m BY <2>1, <3>1 DEF SessionOK
      <4> QED BY <1>8, <1>10, <2>2, <2>3, <3>1, <4>1
    <3> QED BY <1>7, <2>1, <2>3, <3>1 DEF SessionOK
  <2>4. CASE m = n
    <3>1. ASSUME NEW j \in DOMAIN t, NEW k \in DOMAIN t, t[j] # 0, t[k] # 0 PROVE j = k
      <4>1. j + 1 \in DOMAIN q /\ q[j + 1] # 0 BY <1>3, <3>1
      <4>0. k + 1 \in DOMAIN q /\ q[k + 1] # 0 BY <1>3, <3>1
      <4>2. j + 1 = k + 1 BY <1>1, <4>0, <4>1 DEF SessionOK
      <4> QED BY <1>3, <4>2
    <3>2. ASSUME NEW j \in DOMAIN t, t[j] # 0
          PROVE  run'[t[j]].session = n /\ run'[t[j]].end = "none" /\ run'[t[j]].s # NoOne
      <4>1. j + 1 \in DOMAIN q /\ 1 \in DOMAIN q /\ q[j + 1] = t[j] /\ j + 1 # 1 BY <1>3
      <4>2. q[1] = 0 BY <1>1, <3>2, <4>1 DEF SessionOK
      <4>3. t[j] \in Runs BY <2>2, <2>4, <3>2, <4>1
      <4>4. run'[t[j]].session = run[t[j]].session /\ run'[t[j]].s = run[t[j]].s /\ run'[t[j]].end = run[t[j]].end
        BY <1>8, <3>2, <4>2, <4>3
      <4> QED BY <1>1, <3>2, <4>1, <4>4 DEF SessionOK
    <3> QED BY <1>7, <2>4, <3>1, <3>2 DEF SessionOK
  <2> QED BY <2>3, <2>4
<1>14. \A s \in Scheds : ScheduleOK(s, sched[s], sess, run)'
  <2>1. ASSUME NEW p \in Runs, run[p].s # NoOne PROVE RunGoesOn(run[p], run'[p])
    BY <1>8, <1>10 DEF RunGoesOn
  <2>2. ASSUME NEW m \in 1 .. MaxSessions PROVE SessionGoesOn(sess[m], sess'[m])
    BY <1>1, <1>7 DEF SessionGoesOn
  <2> HIDE DEF q
  <2> QED BY <1>4, <2>1, <2>2, HistoryKept
<1> QED BY <1>11, <1>12, <1>13, <1>14 DEF World

LEMMA TurnIsTaken ==
    ASSUME World, NEW n \in 1 .. MaxSessions, TakeTurn(n)
    PROVE  World'
<1> DEFINE q == sess[n].queue
           echoed(p) == run[p].rec = "wait" /\ run[p].session = n /\ q[1] # 0 /\ run[p].s = run[q[1]].s
<1>1. /\ sess[n] \in Conversations /\ q \in Seq(0 .. MaxRuns) /\ SessionOK(n, sess[n], run)
      /\ ~sess[n].active /\ sess[n].life = "open" /\ q # <<>>
  BY Typed DEF TakeTurn, Busy, Live
<1>2. Head(q) = q[1] /\ 1 \in DOMAIN q /\ q[1] \in 0 .. MaxRuns
  <2> DEFINE a == Tail(q)
  <2>1. q \in Seq(0 .. MaxRuns) /\ q # <<>> /\ a = Tail(q) BY <1>1
  <2> HIDE DEF q, a
  <2> QED BY <2>1, TurnsTail
<1>3. sess' = [sess EXCEPT ![n].active = TRUE] /\ sched' = sched BY DEF TakeTurn, Elsewhere
<1>4. run' = [p \in Runs |-> IF echoed(p) THEN [run[p] EXCEPT !.rec = "follow"] ELSE run[p]]
  BY <1>2 DEF TakeTurn
<1>5. /\ sess'[n].queue = q /\ sess'[n].active = TRUE /\ sess'[n].life = "open" /\ sess'[n].crew = sess[n].crew
      /\ \A m \in 1 .. MaxSessions : m # n => sess'[m] = sess[m]
  BY <1>1, <1>3 DEF World, StoreTyped, Conversations
<1>6. ASSUME NEW p \in Runs, echoed(p) PROVE p = q[1]
  <2>1. PICK j \in DOMAIN q : q[j] = p BY <1>6, Typed DEF RunOK
  <2>2. q[j] # 0 /\ q[1] # 0 BY <1>6, <2>1 DEF Runs
  <2> QED BY <1>1, <1>2, <2>1, <2>2 DEF SessionOK
<1>7. ASSUME NEW p \in Runs
      PROVE  /\ run'[p].s = run[p].s /\ run'[p].session = run[p].session /\ run'[p] \in Submitted
             /\ run'[p].end = run[p].end
             /\ run'[p].rec = IF echoed(p) THEN "follow" ELSE run[p].rec
             /\ ~echoed(p) => run'[p] = run[p]
  <2>1. run[p] \in Submitted BY Typed
  <2>2. run'[p] = IF echoed(p) THEN [run[p] EXCEPT !.rec = "follow"] ELSE run[p] BY <1>4
  <2> HIDE DEF echoed
  <2> QED BY <2>1, <2>2 DEF Submitted
<1>8. ASSUME NEW p \in Runs, p = q[1] PROVE run'[p].rec # "wait"
  <2>1. q[1] # 0 BY <1>8 DEF Runs
  <2>2. run[p].session = n BY <1>1, <1>2, <1>8, <2>1 DEF SessionOK
  <2> QED BY <1>7, <1>8, <2>1, <2>2
<1>9. StoreTyped'
  <2>1. sess'[n] \in Conversations BY <1>1, <1>3 DEF World, StoreTyped, Conversations
  <2>2. sess' \in [1 .. MaxSessions -> Conversations] BY <1>3, <2>1 DEF World, StoreTyped
  <2>3. DOMAIN run' = Runs /\ run' = [p \in Runs |-> run'[p]] BY <1>4
  <2> QED BY <1>3, <1>7, <2>2, <2>3 DEF World, StoreTyped
<1>10. ASSUME NEW p \in Runs PROVE RunOK(p, run[p], sess)'
  <2>1. RunOK(p, run[p], sess) /\ run[p].session \in 0 .. MaxSessions BY Typed DEF Submitted
  <2>2. CASE echoed(p)
    <3>1. run'[p].s # NoOne
      <4>1. run[p] # NoRun BY <2>2 DEF NoRun
      <4> QED BY <1>7, <2>1, <4>1 DEF RunOK
    <3>2. run'[p].rec = "follow" /\ run'[p].session = n /\ n # 0 BY <1>7, <2>2
    <3>3. p = q[1] BY <1>6, <2>2
    <3> HIDE DEF echoed
    <3> QED BY <1>2, <1>5, <3>1, <3>2, <3>3 DEF RunOK
  <2>3. CASE ~echoed(p)
    <3>1. run'[p] = run[p] BY <1>7, <2>3
    <3>2. CASE run[p].session = n
      BY <1>5, <2>1, <3>1, <3>2 DEF RunOK
    <3>3. CASE run[p].session # n
      <4>1. run[p].session # 0 => sess'[run[p].session] = sess[run[p].session]
        BY <1>5, <2>1, <3>3, BoundsAssumption
      <4> QED BY <2>1, <3>1, <4>1 DEF RunOK
    <3> QED BY <3>2, <3>3
  <2> QED BY <2>2, <2>3
<1>11. ASSUME NEW m \in 1 .. MaxSessions PROVE SessionOK(m, sess[m], run)'
  <2>1. SessionOK(m, sess[m], run) /\ sess[m].queue \in Seq(0 .. MaxRuns) BY Typed
  <2>2. ASSUME NEW j \in DOMAIN sess[m].queue PROVE sess[m].queue[j] # 0 => sess[m].queue[j] \in Runs
    BY <2>1, BoundsAssumption DEF Runs
  <2>3. \A p \in Runs : /\ run'[p].s = run[p].s /\ run'[p].session = run[p].session /\ run'[p].end = run[p].end
                        /\ run[p].rec # "wait" => run'[p].rec # "wait"
    BY <1>7
  <2>4. CASE m # n
    BY <1>5, <2>1, <2>2, <2>3, <2>4 DEF SessionOK
  <2>5. CASE m = n
    <3>1. ASSUME NEW j \in DOMAIN q, q[j] # 0
          PROVE  /\ run'[q[j]].session = n /\ run'[q[j]].end = "none" /\ run'[q[j]].s # NoOne
                 /\ j = 1 => run'[q[j]].rec # "wait"
      <4>1. q[j] \in Runs BY <2>2, <2>5, <3>1
      <4>2. run[q[j]].session = n /\ run[q[j]].end = "none" /\ run[q[j]].s # NoOne
        BY <1>1, <3>1 DEF SessionOK
      <4>3. j = 1 => run'[q[j]].rec # "wait" BY <1>8, <4>1
      <4> QED BY <2>3, <4>1, <4>2, <4>3
    <3>2. \A j, k \in DOMAIN q : q[j] # 0 /\ q[k] # 0 => j = k BY <1>1 DEF SessionOK
    <3> QED BY <1>1, <1>5, <2>5, <3>1, <3>2 DEF SessionOK
  <2> QED BY <2>4, <2>5
<1>12. \A s \in Scheds : ScheduleOK(s, sched[s], sess, run)'
  <2>1. ASSUME NEW p \in Runs, run[p].s # NoOne PROVE RunGoesOn(run[p], run'[p])
    BY <1>7 DEF RunGoesOn
  <2>2. ASSUME NEW m \in 1 .. MaxSessions PROVE SessionGoesOn(sess[m], sess'[m])
    BY <1>1, <1>5 DEF SessionGoesOn
  <2> HIDE DEF q, echoed
  <2> QED BY <1>3, <2>1, <2>2, HistoryKept
<1> QED BY <1>9, <1>10, <1>11, <1>12 DEF World

LEMMA UserTurns ==
    ASSUME World, NEW n \in 1 .. MaxSessions, UserTurn(n)
    PROVE  World'
<1> DEFINE q == sess[n].queue
           a == Append(q, 0)
<1>1. /\ sess[n] \in Conversations /\ q \in Seq(0 .. MaxRuns) /\ SessionOK(n, sess[n], run)
      /\ sess[n].life = "open"
  BY Typed DEF UserTurn, Live
<1>2. /\ a \in Seq(0 .. MaxRuns) /\ Len(q) \in Nat /\ DOMAIN a = 1 .. Len(q) + 1 /\ DOMAIN q = 1 .. Len(q)
      /\ a[Len(q) + 1] = 0 /\ (\A j \in DOMAIN q : a[j] = q[j])
      /\ (q # <<>> => 1 \in DOMAIN q) /\ a # <<>>
  <2>1. q \in Seq(0 .. MaxRuns) /\ a = Append(q, 0) /\ 0 \in 0 .. MaxRuns BY <1>1, BoundsAssumption
  <2> HIDE DEF q, a
  <2>2. PICK T : T = 0 .. MaxRuns OBVIOUS
  <2>3. q \in Seq(T) /\ 0 \in T BY <2>1, <2>2
  <2>4. a \in Seq(T) /\ Len(q) \in Nat /\ DOMAIN a = 1 .. Len(q) + 1 /\ DOMAIN q = 1 .. Len(q)
        /\ a[Len(q) + 1] = 0 /\ (\A j \in DOMAIN q : a[j] = q[j]) /\ (q # <<>> => Len(q) # 0) /\ a # <<>>
    BY <2>1, <2>3
  <2> QED BY <2>2, <2>4
<1>3. sess' = [sess EXCEPT ![n].queue = a] /\ sched' = sched /\ run' = run BY DEF UserTurn, Elsewhere
<1> HIDE DEF a
<1>4. /\ sess'[n].queue = a /\ sess'[n].active = sess[n].active /\ sess'[n].life = "open"
      /\ sess'[n].crew = sess[n].crew
      /\ \A m \in 1 .. MaxSessions : m # n => sess'[m] = sess[m]
  BY <1>1, <1>3 DEF World, StoreTyped, Conversations
<1>5. StoreTyped'
  <2>1. sess'[n] \in Conversations BY <1>1, <1>2, <1>3 DEF World, StoreTyped, Conversations
  <2>2. sess' \in [1 .. MaxSessions -> Conversations] BY <1>3, <2>1 DEF World, StoreTyped
  <2> QED BY <1>3, <2>2 DEF World, StoreTyped
<1>6. ASSUME NEW p \in Runs PROVE RunOK(p, run[p], sess)'
  <2>1. RunOK(p, run[p], sess) /\ run[p].session \in 0 .. MaxSessions BY Typed DEF Submitted
  <2>2. CASE run[p].session = n
    <3>1. sess[n].active => a[1] = q[1] BY <1>1, <1>2 DEF SessionOK
    <3>2. \A j \in DOMAIN q : j \in DOMAIN a BY <1>2
    <3> QED BY <1>2, <1>3, <1>4, <2>1, <2>2, <3>1, <3>2 DEF RunOK
  <2>3. CASE run[p].session # n
    <3>1. run[p].session # 0 => sess'[run[p].session] = sess[run[p].session]
      BY <1>4, <2>1, <2>3, BoundsAssumption
    <3> QED BY <1>3, <2>1, <3>1 DEF RunOK
  <2> QED BY <2>2, <2>3
<1>7. ASSUME NEW m \in 1 .. MaxSessions PROVE SessionOK(m, sess[m], run)'
  <2>1. SessionOK(m, sess[m], run) BY Typed
  <2>2. CASE m # n BY <1>3, <1>4, <2>1, <2>2 DEF SessionOK
  <2>3. CASE m = n
    <3>1. \A j \in DOMAIN a : a[j] # 0 => j \in DOMAIN q /\ a[j] = q[j] BY <1>2
    <3> QED BY <1>2, <1>3, <1>4, <2>1, <2>3, <3>1 DEF SessionOK
  <2> QED BY <2>2, <2>3
<1>8. \A s \in Scheds : ScheduleOK(s, sched[s], sess, run)'
  <2>1. ASSUME NEW p \in Runs, run[p].s # NoOne PROVE RunGoesOn(run[p], run'[p])
    BY <1>3 DEF RunGoesOn
  <2>2. ASSUME NEW m \in 1 .. MaxSessions PROVE SessionGoesOn(sess[m], sess'[m])
    BY <1>1, <1>4 DEF SessionGoesOn
  <2> HIDE DEF q
  <2> QED BY <1>3, <2>1, <2>2, HistoryKept
<1> QED BY <1>5, <1>6, <1>7, <1>8 DEF World

\* Sessions are closed, and who listens to them is cut off.
Cut(x, y) == y = x \/ (x.rec # "none" /\ \E v \in {"deaf", "over"} : y = [x EXCEPT !.rec = v])
Closed(C) ==
    /\ \A m \in C : sess[m].life = "open"
    /\ sess' = [m \in 1 .. MaxSessions |->
                   IF m \in C THEN [sess[m] EXCEPT !.life = "closed", !.queue = <<>>, !.active = FALSE]
                              ELSE sess[m]]
CutOff(C) ==
    /\ run' = [p \in Runs |-> run'[p]]
    /\ \A p \in Runs : /\ Cut(run[p], run'[p])
                       /\ run[p].session \in C => run'[p].rec \notin {"wait", "follow"}
LEMMA Closing ==
    ASSUME World, NEW C \in SUBSET (1 .. MaxSessions), Closed(C), CutOff(C)
    PROVE  /\ sess' \in [1 .. MaxSessions -> Conversations] /\ run' \in [Runs -> Submitted]
           /\ \A p \in Runs : RunOK(p, run[p], sess)'
           /\ \A m \in 1 .. MaxSessions : SessionOK(m, sess[m], run)' /\ SessionGoesOn(sess[m], sess'[m])
<1>1. ASSUME NEW m \in 1 .. MaxSessions
      PROVE  /\ sess'[m] \in Conversations /\ SessionGoesOn(sess[m], sess'[m])
             /\ sess'[m].crew = sess[m].crew
             /\ m \in C => sess'[m].life = "closed" /\ sess'[m].queue = <<>> /\ sess'[m].active = FALSE
             /\ m \notin C => sess'[m] = sess[m]
  <2>1. sess[m] \in Conversations BY Typed
  <2>2. <<>> \in Seq(0 .. MaxRuns) OBVIOUS
  <2>3. sess'[m] = IF m \in C THEN [sess[m] EXCEPT !.life = "closed", !.queue = <<>>, !.active = FALSE]
                              ELSE sess[m]
    BY DEF Closed
  <2>4. CASE m \in C
    <3>1. sess[m].life = "open" BY <2>4 DEF Closed
    <3>2. sess'[m] = [sess[m] EXCEPT !.life = "closed", !.queue = <<>>, !.active = FALSE] BY <2>3, <2>4
    <3>3. sess'[m] \in Conversations BY <2>1, <2>2, <3>2 DEF Conversations
    <3>4. /\ sess'[m].life = "closed" /\ sess'[m].queue = <<>> /\ sess'[m].active = FALSE
          /\ sess'[m].crew = sess[m].crew
      BY <2>1, <3>2 DEF Conversations
    <3> QED BY <2>4, <3>3, <3>4 DEF SessionGoesOn
  <2> QED BY <2>1, <2>3, <2>4 DEF SessionGoesOn
<1>2. ASSUME NEW p \in Runs
      PROVE  /\ run'[p] \in Submitted
             /\ run'[p].s = run[p].s /\ run'[p].session = run[p].session /\ run'[p].end = run[p].end
             /\ run'[p] = run[p] \/ (run[p].rec # "none" /\ run'[p].rec \in {"deaf", "over"})
  <2>1. run[p] \in Submitted /\ Cut(run[p], run'[p]) BY Typed DEF CutOff
  <2> QED BY <2>1 DEF Submitted, Cut
<1>3. ASSUME NEW p \in Runs PROVE RunOK(p, run[p], sess)'
  <2>1. RunOK(p, run[p], sess) /\ run[p].session \in 0 .. MaxSessions BY Typed DEF Submitted
  <2>2. CASE run'[p] = run[p]
    <3>1. run[p].rec \in {"wait", "follow"} => sess'[run[p].session] = sess[run[p].session]
      <4>1. run[p].rec \in {"wait", "follow"} => run[p].session \in 1 .. MaxSessions /\ run[p].session \notin C
        BY <2>1, <2>2, BoundsAssumption DEF RunOK, CutOff
      <4> QED BY <1>1, <4>1
    <3> QED BY <2>1, <2>2, <3>1 DEF RunOK
  <2>3. CASE run[p].rec # "none" /\ run'[p].rec \in {"deaf", "over"}
    <3>1. run[p] # NoRun BY <2>3 DEF NoRun
    <3> QED BY <1>2, <2>1, <2>3, <3>1 DEF RunOK
  <2> QED BY <1>2, <2>2, <2>3
<1>4. ASSUME NEW m \in 1 .. MaxSessions PROVE SessionOK(m, sess[m], run)'
  <2>1. SessionOK(m, sess[m], run) /\ sess[m].queue \in Seq(0 .. MaxRuns) BY Typed
  <2>2. ASSUME NEW j \in DOMAIN sess[m].queue PROVE sess[m].queue[j] # 0 => sess[m].queue[j] \in Runs
    BY <2>1, BoundsAssumption DEF Runs
  <2>3. CASE m \in C
    <3>1. DOMAIN sess'[m].queue = {} BY <1>1, <2>3, NoneIn
    <3> QED BY <1>1, <2>3, <3>1 DEF SessionOK
  <2>4. CASE m \notin C
    <3>1. \A p \in Runs : /\ run'[p].s = run[p].s /\ run'[p].session = run[p].session /\ run'[p].end = run[p].end
                          /\ run[p].rec # "wait" => run'[p].rec # "wait"
      BY <1>2
    <3>2. sess'[m] = sess[m] BY <1>1, <2>4
    <3> QED BY <2>1, <2>2, <3>1, <3>2 DEF SessionOK
  <2> QED BY <2>3, <2>4
<1>5. sess' \in [1 .. MaxSessions -> Conversations] BY <1>1 DEF Closed
<1>6. run' \in [Runs -> Submitted] BY <1>2 DEF CutOff
<1> QED BY <1>1, <1>3, <1>4, <1>5, <1>6

LEMMA SessionShuts ==
    ASSUME World, NEW n \in 0 .. MaxSessions, Shuts(n), sched' = sched
    PROVE  World'
<1>1. CASE ~Live(n)
  <2>1. sess' = sess /\ run' = run BY <1>1 DEF Shuts
  <2> QED BY <2>1 DEF World, StoreTyped
<1>2. CASE Live(n)
  <2>1. n \in 1 .. MaxSessions /\ sess[n].life = "open" BY <1>2, BoundsAssumption DEF Live
  <2>2. sess' = Shut(n) /\ run' = Deafened(n) BY <1>2 DEF Shuts
  <2>3. ASSUME NEW p \in Runs
        PROVE  /\ Cut(run[p], run'[p])
               /\ run[p].session = n => run'[p].rec \notin {"wait", "follow"}
               /\ RunGoesOn(run[p], run'[p])
    <3>1. run[p] \in Submitted BY Typed
    <3>2. run'[p] = IF run[p].session = n /\ run[p].rec \in {"wait", "follow"}
                    THEN [run[p] EXCEPT !.rec = "deaf"] ELSE run[p]
      BY <2>2 DEF Deafened
    <3> QED BY <3>1, <3>2 DEF Submitted, Cut, RunGoesOn
  <2>4. run' = [p \in Runs |-> run'[p]] BY <2>2 DEF Deafened
  <2>5. sess' = [m \in 1 .. MaxSessions |->
                   IF m \in {n} THEN [sess[m] EXCEPT !.life = "closed", !.queue = <<>>, !.active = FALSE]
                                ELSE sess[m]]
    BY <2>1, <2>2 DEF Shut, World, StoreTyped
  <2>6. /\ sess' \in [1 .. MaxSessions -> Conversations] /\ run' \in [Runs -> Submitted]
        /\ \A p \in Runs : RunOK(p, run[p], sess)'
        /\ \A m \in 1 .. MaxSessions : SessionOK(m, sess[m], run)' /\ SessionGoesOn(sess[m], sess'[m])
    <3>1. PICK C : C = {n} OBVIOUS
    <3>2. C \in SUBSET (1 .. MaxSessions) /\ Closed(C) BY <2>1, <2>5, <3>1 DEF Closed
    <3>3. CutOff(C) BY <2>3, <2>4, <3>1 DEF CutOff
    <3> QED BY <3>2, <3>3, Closing
  <2>7. \A s \in Scheds : ScheduleOK(s, sched[s], sess, run)' BY <2>3, <2>6, HistoryKept
  <2> QED BY <2>6, <2>7 DEF World, StoreTyped
<1> QED BY <1>1, <1>2

LEMMA SessionWakes ==
    ASSUME World, NEW n \in 1 .. MaxSessions, Wake(n)
    PROVE  World'
<1>1. /\ sess[n] \in Conversations /\ SessionOK(n, sess[n], run) /\ sess[n].life = "closed"
      /\ sess' = [sess EXCEPT ![n].life = "open"] /\ sched' = sched /\ run' = run
  BY Typed DEF Wake, Elsewhere
<1>2. /\ sess'[n] \in Conversations /\ sess'[n].queue = <<>> /\ ~sess'[n].active
      /\ sess'[n].life = "open" /\ sess'[n].crew = sess[n].crew
      /\ \A m \in 1 .. MaxSessions : m # n => sess'[m] = sess[m]
  BY <1>1 DEF World, StoreTyped, Conversations, SessionOK
<1>3. StoreTyped' BY <1>1, <1>2 DEF World, StoreTyped
<1>4. ASSUME NEW p \in Runs PROVE RunOK(p, run[p], sess)'
  <2>1. RunOK(p, run[p], sess) /\ run[p].session \in 0 .. MaxSessions BY Typed DEF Submitted
  <2>2. run[p].rec \in {"wait", "follow"} => run[p].session \in 1 .. MaxSessions /\ run[p].session # n
    BY <1>1, <2>1, BoundsAssumption DEF RunOK
  <2>3. run[p].rec \in {"wait", "follow"} => sess'[run[p].session] = sess[run[p].session] BY <1>2, <2>2
  <2> QED BY <1>1, <2>1, <2>3 DEF RunOK
<1>5. ASSUME NEW m \in 1 .. MaxSessions PROVE SessionOK(m, sess[m], run)'
  <2>1. SessionOK(m, sess[m], run) BY Typed
  <2>2. CASE m # n BY <1>1, <1>2, <2>1, <2>2 DEF SessionOK
  <2>3. CASE m = n
    <3>1. DOMAIN sess'[m].queue = {} BY <1>2, <2>3, NoneIn
    <3> QED BY <1>2, <2>3, <3>1 DEF SessionOK
  <2> QED BY <2>2, <2>3
<1>6. \A s \in Scheds : ScheduleOK(s, sched[s], sess, run)'
  <2>1. ASSUME NEW p \in Runs, run[p].s # NoOne PROVE RunGoesOn(run[p], run'[p])
    BY <1>1 DEF RunGoesOn
  <2>2. ASSUME NEW m \in 1 .. MaxSessions PROVE SessionGoesOn(sess[m], sess'[m])
    BY <1>2 DEF SessionGoesOn
  <2> QED BY <1>1, <2>1, <2>2, HistoryKept
<1> QED BY <1>3, <1>4, <1>5, <1>6 DEF World

-----------------------------------------------------------------------------
(* The schedules.                                                          *)

\* A schedule is changed; its session is the one it had.
Fits(s, y) ==
    /\ y \in Schedules /\ Len(y.runs) <= Keep /\ Len(y.worked) <= MaxWorked
    /\ y.session = sched[s].session
    /\ \A k \in DOMAIN y.runs : EntryOK(y.runs[k], s, run)
LEMMA Edited ==
    ASSUME World, NEW s \in Scheds, NEW y, Fits(s, y), sched' = [sched EXCEPT ![s] = y],
           sess' = sess, run' = run
    PROVE  World'
<1>1. StoreTyped' BY DEF World, StoreTyped, Fits
<1>2. ASSUME NEW q \in Scheds PROVE ScheduleOK(q, sched[q], sess, run)'
  <2>1. sched'[q] = IF q = s THEN y ELSE sched[q] BY DEF World, StoreTyped
  <2>2. ScheduleOK(q, sched[q], sess, run) BY Typed
  <2> QED BY <2>1, <2>2 DEF ScheduleOK, Fits
<1> QED BY <1>1, <1>2 DEF World

\* The routes that leave the history alone.
LEMMA RouteKeeps ==
    ASSUME World, NEW s \in Scheds, Route(s)
    PROVE  World'
<1>1. sched[s] \in Schedules /\ Len(sched[s].runs) <= Keep /\ Len(sched[s].worked) <= MaxWorked
      /\ ScheduleOK(s, sched[s], sess, run)
  BY Typed DEF World, StoreTyped
<1>2. sess' = sess BY DEF Route, Create, Enable, Respec, Delete, SlotComes, Edit, Elsewhere
<1>3. CASE run' = run
  <2>1. ASSUME NEW y, sched' = [sched EXCEPT ![s] = y], y \in Schedules, y.runs = sched[s].runs,
               y.worked = sched[s].worked, y.session = sched[s].session
        PROVE  World'
    <3>1. Fits(s, y) BY <1>1, <2>1 DEF Fits, ScheduleOK
    <3> QED BY <1>2, <1>3, <2>1, <3>1, Edited
  <2>2. CASE Create(s)
    <3>1. PICK on \in BOOLEAN : Edit(s, [sched[s] EXCEPT !.life = "kept", !.enabled = on])
      BY <2>2 DEF Create
    <3> DEFINE y == [sched[s] EXCEPT !.life = "kept", !.enabled = on]
    <3>2. /\ y \in Schedules /\ y.runs = sched[s].runs
          /\ y.worked = sched[s].worked /\ y.session = sched[s].session
      BY <1>1 DEF Schedules
    <3>3. sched' = [sched EXCEPT ![s] = y] BY <3>1 DEF Edit
    <3> HIDE DEF y
    <3> QED BY <2>1, <3>2, <3>3
  <2>3. CASE \E on \in BOOLEAN : Enable(s, on)
    <3>1. PICK on \in BOOLEAN : Edit(s, [sched[s] EXCEPT !.enabled = on]) BY <2>3 DEF Enable
    <3> DEFINE y == [sched[s] EXCEPT !.enabled = on]
    <3>2. /\ y \in Schedules /\ y.runs = sched[s].runs
          /\ y.worked = sched[s].worked /\ y.session = sched[s].session
      BY <1>1 DEF Schedules
    <3>3. sched' = [sched EXCEPT ![s] = y] BY <3>1 DEF Edit
    <3> HIDE DEF y
    <3> QED BY <2>1, <3>2, <3>3
  <2>4. ASSUME NEW due \in BOOLEAN, sched' = [sched EXCEPT ![s].due = due] PROVE World'
    <3> DEFINE y == [sched[s] EXCEPT !.due = due]
    <3>1. /\ y \in Schedules /\ y.runs = sched[s].runs
          /\ y.worked = sched[s].worked /\ y.session = sched[s].session
      BY <1>1 DEF Schedules
    <3>2. sched' = [sched EXCEPT ![s] = y] BY <2>4
    <3> HIDE DEF y
    <3> QED BY <2>1, <3>1, <3>2
  <2>5. Respec(s) => sched' = [sched EXCEPT ![s].due = FALSE] BY DEF Respec, Edit
  <2>6. SlotComes(s) => sched' = [sched EXCEPT ![s].due = TRUE] BY DEF SlotComes
  <2>7. CASE Delete(s)
    <3> DEFINE y == [sched[s] EXCEPT !.life = "gone"]
    <3>1. /\ y \in Schedules /\ y.runs = sched[s].runs
          /\ y.worked = sched[s].worked /\ y.session = sched[s].session
      BY <1>1 DEF Schedules
    <3>2. sched' = [sched EXCEPT ![s] = y] BY <2>7 DEF Delete, Edit
    <3> HIDE DEF y
    <3> QED BY <2>1, <3>1, <3>2
  <2> QED BY <2>2, <2>3, <2>4, <2>5, <2>6, <2>7 DEF Route
<1>4. CASE Delete(s)
  <2>1. sched' = [sched EXCEPT ![s] = [sched[s] EXCEPT !.life = "gone"]]
        /\ run' = [r \in Runs |-> IF run[r].s = s THEN [run[r] EXCEPT !.file = FALSE] ELSE run[r]]
    BY <1>4 DEF Delete, Edit
  <2>2. ASSUME NEW p \in Runs
        PROVE  /\ run'[p] \in Submitted /\ run'[p].s = run[p].s /\ run'[p].session = run[p].session
               /\ run'[p].end = run[p].end /\ run'[p].rec = run[p].rec
               /\ run[p].s = NoOne => run'[p] = run[p]
    BY <2>1, Typed, NamesAssumption DEF Submitted
  <2>3. ASSUME NEW q \in Scheds
        PROVE  /\ sched'[q] \in Schedules /\ sched'[q].runs = sched[q].runs
               /\ sched'[q].worked = sched[q].worked /\ sched'[q].session = sched[q].session
    <3>0. DOMAIN sched = Scheds BY DEF World, StoreTyped
    <3>1. sched[q] \in Schedules BY Typed
    <3>2. CASE q = s
      <4>1. sched'[q] = [sched[q] EXCEPT !.life = "gone"] BY <2>1, <3>0, <3>2
      <4> QED BY <3>1, <4>1 DEF Schedules
    <3>3. CASE q # s
      <4>1. sched'[q] = sched[q] BY <2>1, <3>0, <3>3
      <4> QED BY <3>1, <4>1
    <3> QED BY <3>2, <3>3
  <2>4. StoreTyped'
    <3>1. sched' \in [Scheds -> Schedules] BY <2>1, <2>3 DEF World, StoreTyped
    <3>2. run' \in [Runs -> Submitted] BY <2>1, <2>2
    <3> QED BY <1>2, <2>3, <3>1, <3>2 DEF World, StoreTyped
  <2>5. ASSUME NEW p \in Runs PROVE RunOK(p, run[p], sess)'
    <3>1. RunOK(p, run[p], sess) BY Typed
    <3> QED BY <1>2, <2>2, <3>1 DEF RunOK
  <2>6. ASSUME NEW m \in 1 .. MaxSessions PROVE SessionOK(m, sess[m], run)'
    <3>1. SessionOK(m, sess[m], run) /\ sess[m].queue \in Seq(0 .. MaxRuns) BY Typed
    <3>2. ASSUME NEW j \in DOMAIN sess[m].queue PROVE sess[m].queue[j] # 0 => sess[m].queue[j] \in Runs
      BY <3>1, BoundsAssumption DEF Runs
    <3> QED BY <1>2, <2>2, <3>1, <3>2 DEF SessionOK
  <2>7. ASSUME NEW q \in Scheds PROVE ScheduleOK(q, sched[q], sess, run)'
    <3>1. ScheduleOK(q, sched[q], sess, run) BY Typed
    <3>2. ASSUME NEW k \in DOMAIN sched[q].runs PROVE EntryOK(sched[q].runs[k], q, run')
      <4> DEFINE x == sched[q].runs[k]
      <4>1. x \in Entries /\ EntryOK(x, q, run) BY <3>1, Typed DEF ScheduleOK
      <4>2. x.run # 0 => x.run \in Runs BY <4>1, BoundsAssumption DEF Entries, Runs
      <4> HIDE DEF x
      <4>3. EntryOK(x, q, run') BY <2>2, <4>1, <4>2 DEF EntryOK
      <4> QED BY <4>3 DEF x
    <3> QED BY <1>2, <2>3, <3>1, <3>2 DEF ScheduleOK
  <2> QED BY <2>4, <2>5, <2>6, <2>7 DEF World
<1>5. run' = run \/ Delete(s) BY DEF Route, Create, Enable, Respec, SlotComes
<1> QED BY <1>3, <1>4, <1>5

\* The issue that is marked, and the history, never outgrow their limits.
LEMMA MarkedIs ==
    ASSUME World, NEW s \in Scheds, NEW i \in Issues
    PROVE  Marked(s, i) \in Seq(Issues) /\ Len(Marked(s, i)) <= MaxWorked
<1> DEFINE q == sched[s].worked
           a == Append(q, i)
           r == SubSeq(a, 1 + IF Len(a) > MaxWorked THEN 1 ELSE 0, Len(a))
<1>1. q \in Seq(Issues) /\ Len(q) <= MaxWorked BY Typed DEF World, StoreTyped, Schedules
<1>2. MaxWorked \in Nat /\ MaxWorked > 0 BY BoundsAssumption
<1>3. a = Append(q, i) /\ r = SubSeq(a, 1 + IF Len(a) > MaxWorked THEN 1 ELSE 0, Len(a)) OBVIOUS
<1>4. Marked(s, i) = IF Contains(q, i) THEN q ELSE r BY DEF Marked
<1> HIDE DEF q, a, r
<1>5. CutOf(Issues, MaxWorked, q, i, r) BY <1>1, <1>2, <1>3, CutIs
<1> QED BY <1>1, <1>4, <1>5 DEF CutOf

LEMMA ClosedIssue ==
    ASSUME World, NEW s \in Scheds, NEW i \in Issues, sess' = sess, run' = run,
           sched' = [sched EXCEPT ![s].worked = Marked(s, i)]
    PROVE  World'
<1> DEFINE y == [sched[s] EXCEPT !.worked = Marked(s, i)]
<1>1. sched[s] \in Schedules /\ Len(sched[s].runs) <= Keep /\ ScheduleOK(s, sched[s], sess, run)
  BY Typed DEF World, StoreTyped
<1>2. Marked(s, i) \in Seq(Issues) /\ Len(Marked(s, i)) <= MaxWorked BY MarkedIs
<1>3. /\ y \in Schedules /\ y.runs = sched[s].runs /\ y.session = sched[s].session
      /\ y.worked = Marked(s, i)
  BY <1>1, <1>2 DEF Schedules
<1>4. sched' = [sched EXCEPT ![s] = y] OBVIOUS
<1> HIDE DEF y
<1>5. Fits(s, y) BY <1>1, <1>2, <1>3 DEF Fits, ScheduleOK
<1> QED BY <1>4, <1>5, Edited

LEMMA HistoryIsCut ==
    ASSUME NEW q \in Seq(Entries), NEW x \in Entries, Len(q) <= Keep, NEW a, NEW r,
           a = Append(q, x), r = SubSeq(a, 1 + IF Len(a) > Keep THEN 1 ELSE 0, Len(a))
    PROVE  CutOf(Entries, Keep, q, x, r)
<1>1. Keep \in Nat /\ Keep > 0 BY BoundsAssumption
<1> QED BY <1>1, CutIs

\* The entry of a firing that tells of its own run.
LEMMA RecordKeeps ==
    ASSUME World, Loop, NEW f \in Firers, Record(f)
    PROVE  World'
<1> DEFINE s == fire[f].s
           x == [run |-> fire[f].run, status |-> fire[f].status, item |-> item[s]]
           q == sched[s].runs
           a == Append(q, x)
           r == SubSeq(a, 1 + IF Len(a) > Keep THEN 1 ELSE 0, Len(a))
           w == Worked(f)
           y == [sched[s] EXCEPT !.worked = w, !.runs = r, !.due = FALSE]
<1>1. fire[f].pc = "record" /\ fire[f] \in Firings /\ s \in Scheds /\ Told(fire[f])
  BY DEF Record, Advanced, At, Loop, FiringOK, FiringsTyped, Poised
<1>2. x \in Entries /\ item[s] \in Issues \cup {NoIssue}
  BY <1>1 DEF Entries, Firings, Told, Loop, FiringsTyped
<1>3. EntryOK(x, s, run) BY <1>1 DEF EntryOK, Told, Followed
<1>4. sched[s] \in Schedules /\ q \in Seq(Entries) /\ Len(q) <= Keep /\ ScheduleOK(s, sched[s], sess, run)
      /\ Len(sched[s].worked) <= MaxWorked
  BY <1>1, Typed DEF World, StoreTyped
<1>5. w \in Seq(Issues) /\ Len(w) <= MaxWorked
  <2>1. CASE item[s] # NoIssue /\ fire[f].status # "skipped"
    <3>1. w = Marked(s, item[s]) BY <2>1 DEF Worked
    <3> QED BY <1>1, <1>2, <2>1, <3>1, MarkedIs
  <2>2. CASE ~(item[s] # NoIssue /\ fire[f].status # "skipped")
    <3>1. w = sched[s].worked BY <2>2 DEF Worked
    <3> QED BY <1>4, <3>1 DEF Schedules
  <2> QED BY <2>1, <2>2
<1>6. sched' = [sched EXCEPT ![s] = y] /\ sess' = sess /\ run' = run
  BY DEF Record, Advanced
<1>7. CutOf(Entries, Keep, q, x, r)
  <2>2. a = Append(q, x) /\ r = SubSeq(a, 1 + IF Len(a) > Keep THEN 1 ELSE 0, Len(a)) OBVIOUS
  <2>3. q \in Seq(Entries) /\ x \in Entries /\ Len(q) <= Keep BY <1>2, <1>4
  <2> HIDE DEF q, x, a, r
  <2> QED BY <2>2, <2>3, HistoryIsCut
<1> HIDE DEF x, q, a, r, w
<1>8. /\ y \in Schedules /\ y.runs = r /\ y.session = sched[s].session /\ y.worked = w
  BY <1>4, <1>5, <1>7 DEF Schedules, CutOf
<1> HIDE DEF y
<1>9. \A k \in DOMAIN r : EntryOK(r[k], s, run)
  <2>1. \A k \in DOMAIN q : EntryOK(q[k], s, run) BY <1>4 DEF ScheduleOK, q
  <2> QED BY <1>3, <1>7, <2>1 DEF CutOf
<1>10. Fits(s, y) BY <1>5, <1>7, <1>8, <1>9 DEF Fits, CutOf
<1> QED BY <1>1, <1>6, <1>10, Edited

\* A recorder writes the outcome and is over.
LEMMA Finished ==
    ASSUME World, NEW r \in Runs, NEW status \in {"done", "error", "timeout", "interrupted"},
           Followed(r), Finish(r, status),
           status = "done" => run[r].end = "result", status = "error" => run[r].end = "error"
    PROVE  World'
<1> DEFINE s == run[r].s
           q == sched[s].runs
           f == [e \in Entries |-> IF e.run = r THEN [e EXCEPT !.status = status] ELSE e]
           a == [k \in DOMAIN q |-> f[q[k]]]
           y == [sched[s] EXCEPT !.runs = a]
<1>1. run[r] \in Submitted /\ RunOK(r, run[r], sess) /\ run[r].rec \notin {"none", "over"}
  BY Typed DEF Followed
<1>2. s \in Scheds
  <2>1. run[r] # NoRun BY <1>1 DEF NoRun
  <2> QED BY <1>1, <2>1 DEF RunOK, Submitted
<1>3. sched[s] \in Schedules /\ q \in Seq(Entries) /\ Len(q) <= Keep /\ ScheduleOK(s, sched[s], sess, run)
      /\ Len(sched[s].worked) <= MaxWorked /\ \A k \in DOMAIN q : q[k] \in Entries
  BY <1>2, Typed DEF World, StoreTyped
<1>4. \A e \in Entries : f[e] \in Entries /\ f[e].run = e.run
        /\ f[e].status = IF e.run = r THEN status ELSE e.status
  BY DEF Entries
<1>5. a \in Seq(Entries) /\ Len(a) = Len(q) /\ DOMAIN a = DOMAIN q
      /\ \A k \in DOMAIN a : a[k] = f[q[k]] /\ q[k] \in Entries
  <2>1. q \in Seq(Entries) /\ a = [k \in DOMAIN q |-> f[q[k]]] /\ \A e \in Entries : f[e] \in Entries
    BY <1>3, <1>4
  <2> HIDE DEF q, f, a
  <2> QED BY <2>1, MapIs
<1>6. sched' = [sched EXCEPT ![s] = y]
  <2>1. ASSUME NEW k \in DOMAIN q
        PROVE  (IF q[k].run = r THEN [q[k] EXCEPT !.status = status] ELSE q[k]) = f[q[k]]
    BY <1>3
  <2>2. sched' = [sched EXCEPT ![s].runs =
                   [k \in DOMAIN q |-> IF q[k].run = r THEN [q[k] EXCEPT !.status = status] ELSE q[k]]]
    BY DEF Finish, Updated
  <2>3. a = [k \in DOMAIN q |-> IF q[k].run = r THEN [q[k] EXCEPT !.status = status] ELSE q[k]]
    BY <2>1
  <2> HIDE DEF a, f, q
  <2> QED BY <2>2, <2>3
<1>7. run' = [run EXCEPT ![r] = [@ EXCEPT !.rec = "over", !.file = TRUE]] /\ sess' = sess
  BY <1>1 DEF Finish, Submitted
<1>8. ASSUME NEW p \in Runs
      PROVE  /\ run'[p] \in Submitted /\ run'[p].s = run[p].s /\ run'[p].session = run[p].session
             /\ run'[p].end = run[p].end /\ run'[p].rec = IF p = r THEN "over" ELSE run[p].rec
             /\ p # r => run'[p] = run[p]
  BY <1>7, Typed DEF World, StoreTyped, Submitted
<1> HIDE DEF f, a
<1>9. /\ y \in Schedules /\ y.runs = a /\ y.session = sched[s].session /\ y.worked = sched[s].worked
  BY <1>3, <1>5 DEF Schedules
<1> HIDE DEF y
<1>10. ASSUME NEW z \in Scheds, NEW e \in Entries, EntryOK(e, z, run), z = s => e.run # r
       PROVE  EntryOK(e, z, run')
  <2>1. e.run # 0 => e.run \in Runs BY BoundsAssumption DEF Entries, Runs
  <2>2. e.run # r BY <1>10 DEF EntryOK, Runs
  <2> QED BY <1>8, <1>10, <2>1, <2>2 DEF EntryOK
<1>11. ASSUME NEW k \in DOMAIN a PROVE EntryOK(a[k], s, run')
  <2> DEFINE e == q[k]
  <2>1. e \in Entries /\ EntryOK(e, s, run) /\ a[k] = f[e] BY <1>3, <1>5 DEF ScheduleOK
  <2>2. a[k].run = e.run /\ a[k].status = IF e.run = r THEN status ELSE e.status BY <1>4, <2>1
  <2>3. CASE e.run = r
    <3>1. r # 0 BY BoundsAssumption DEF Runs
    <3>2. run'[r].s = s /\ run'[r].end = run[r].end BY <1>8
    <3> HIDE DEF e, s
    <3> QED BY <2>2, <2>3, <3>1, <3>2 DEF EntryOK
  <2>4. CASE e.run # r
    <3>1. EntryOK(e, s, run') BY <1>2, <1>10, <2>1, <2>4
    <3> HIDE DEF e, s
    <3> QED BY <2>2, <2>4, <3>1 DEF EntryOK
  <2> QED BY <2>3, <2>4
<1>12. StoreTyped'
  <2>1. sched' \in [Scheds -> Schedules] BY <1>6, <1>9 DEF World, StoreTyped
  <2>2. run' \in [Runs -> Submitted] BY <1>7, <1>8 DEF World, StoreTyped
  <2>3. ASSUME NEW z \in Scheds PROVE Len(sched'[z].runs) <= Keep /\ Len(sched'[z].worked) <= MaxWorked
    BY <1>3, <1>5, <1>6, <1>9 DEF World, StoreTyped
  <2> QED BY <1>7, <2>1, <2>2, <2>3 DEF World, StoreTyped
<1>13. ASSUME NEW p \in Runs PROVE RunOK(p, run[p], sess)'
  <2>1. RunOK(p, run[p], sess) BY Typed
  <2>2. CASE p = r
    <3>1. run[p].s # NoOne /\ run'[p].rec = "over" BY <1>2, <1>8, <2>2, NamesAssumption
    <3> QED BY <1>8, <2>1, <3>1 DEF RunOK
  <2>3. CASE p # r BY <1>7, <1>8, <2>1, <2>3 DEF RunOK
  <2> QED BY <2>2, <2>3
<1>14. ASSUME NEW m \in 1 .. MaxSessions PROVE SessionOK(m, sess[m], run)'
  <2>1. SessionOK(m, sess[m], run) /\ sess[m].queue \in Seq(0 .. MaxRuns) BY Typed
  <2>2. ASSUME NEW j \in DOMAIN sess[m].queue PROVE sess[m].queue[j] # 0 => sess[m].queue[j] \in Runs
    BY <2>1, BoundsAssumption DEF Runs
  <2>3. \A p \in Runs : /\ run'[p].s = run[p].s /\ run'[p].session = run[p].session /\ run'[p].end = run[p].end
                        /\ run[p].rec # "wait" => run'[p].rec # "wait"
    BY <1>8
  <2> QED BY <1>7, <2>1, <2>2, <2>3 DEF SessionOK
<1>15. ASSUME NEW z \in Scheds PROVE ScheduleOK(z, sched[z], sess, run)'
  <2>1. ScheduleOK(z, sched[z], sess, run) /\ sched'[z] = IF z = s THEN y ELSE sched[z]
    BY <1>6, Typed DEF World, StoreTyped
  <2>2. CASE z = s BY <1>7, <1>9, <1>11, <2>1, <2>2 DEF ScheduleOK
  <2>3. CASE z # s
    <3>1. ASSUME NEW k \in DOMAIN sched[z].runs PROVE EntryOK(sched[z].runs[k], z, run')
      <4> DEFINE e == sched[z].runs[k]
      <4>1. e \in Entries /\ EntryOK(e, z, run) BY <2>1, Typed DEF ScheduleOK
      <4> HIDE DEF e
      <4>2. EntryOK(e, z, run') BY <1>10, <2>3, <4>1
      <4> QED BY <4>2 DEF e
    <3> QED BY <1>7, <2>1, <2>3, <3>1 DEF ScheduleOK
  <2> QED BY <2>2, <2>3
<1> QED BY <1>12, <1>13, <1>14, <1>15 DEF World

-----------------------------------------------------------------------------
(* What a firing does to the sessions.                                     *)

LEMMA SessionIsCreated ==
    ASSUME World, NEW n \in NewSession, NEW s \in Scheds,
           sess' = [sess EXCEPT ![n].life = "open"], run' = run,
           sched' = [sched EXCEPT ![s].session = n]
    PROVE  World'
<1>1. n \in 1 .. MaxSessions /\ sess[n] \in Conversations /\ SessionOK(n, sess[n], run) /\ sess[n].life = "none"
      /\ ~sess[n].crew
  BY Typed DEF NewSession, SessionOK
<1>2. /\ sess'[n] \in Conversations /\ sess'[n].queue = <<>> /\ ~sess'[n].active
      /\ sess'[n].life = "open" /\ ~sess'[n].crew
      /\ \A m \in 1 .. MaxSessions : m # n => sess'[m] = sess[m]
  BY <1>1 DEF World, StoreTyped, Conversations, SessionOK
<1>3. sched[s] \in Schedules /\ \A q \in Scheds : q # s => sched'[q] = sched[q] BY Typed DEF World, StoreTyped
<1>4. /\ sched'[s] \in Schedules /\ sched'[s].runs = sched[s].runs /\ sched'[s].session = n
      /\ sched'[s].worked = sched[s].worked
  <2>1. sched'[s] = [sched[s] EXCEPT !.session = n] BY DEF World, StoreTyped
  <2>2. n \in 0 .. MaxSessions BY <1>1
  <2> QED BY <1>3, <2>1, <2>2 DEF Schedules
<1>5. StoreTyped' BY <1>2, <1>3, <1>4 DEF World, StoreTyped
<1>6. ASSUME NEW p \in Runs PROVE RunOK(p, run[p], sess)'
  <2>1. RunOK(p, run[p], sess) /\ run[p].session \in 0 .. MaxSessions BY Typed DEF Submitted
  <2>2. run[p].rec \in {"wait", "follow"} => run[p].session \in 1 .. MaxSessions /\ run[p].session # n
    BY <1>1, <2>1, BoundsAssumption DEF RunOK
  <2>3. run[p].rec \in {"wait", "follow"} => sess'[run[p].session] = sess[run[p].session] BY <1>2, <2>2
  <2> QED BY <2>1, <2>3 DEF RunOK
<1>7. ASSUME NEW m \in 1 .. MaxSessions PROVE SessionOK(m, sess[m], run)'
  <2>1. SessionOK(m, sess[m], run) BY Typed
  <2>2. CASE m # n BY <1>2, <2>1, <2>2 DEF SessionOK
  <2>3. CASE m = n
    <3>1. DOMAIN sess'[m].queue = {} BY <1>2, <2>3, NoneIn
    <3> QED BY <1>2, <2>3, <3>1 DEF SessionOK
  <2> QED BY <2>2, <2>3
<1>8. ASSUME NEW q \in Scheds PROVE ScheduleOK(q, sched[q], sess, run)'
  <2>1. ScheduleOK(q, sched[q], sess, run) /\ sched[q].session \in 0 .. MaxSessions BY Typed DEF Schedules
  <2>2. CASE q = s BY <1>2, <1>4, <2>1, <2>2 DEF ScheduleOK
  <2>3. CASE q # s
    <3>1. sched[q].session # 0 => sched[q].session \in 1 .. MaxSessions /\ sched[q].session # n
      BY <1>1, <2>1, BoundsAssumption DEF ScheduleOK
    <3> QED BY <1>2, <1>3, <2>1, <2>3, <3>1 DEF ScheduleOK
  <2> QED BY <2>2, <2>3
<1> QED BY <1>5, <1>6, <1>7, <1>8 DEF World

\* A run is made, and its turn is the only one of its session.
Given(n, z, r, x) ==
    /\ z \in Conversations /\ z.queue = <<r>> /\ z.life = "open" /\ ~z.active
    /\ x \in Submitted /\ x.s \in Scheds /\ x.session = n /\ x.end = "none" /\ x.rec \in {"none", "wait"}
    /\ run[r].s = NoOne /\ sess[n].queue = <<>>
    /\ sess' = [sess EXCEPT ![n] = z] /\ run' = [run EXCEPT ![r] = x]
LEMMA TurnIsGiven ==
    ASSUME World, NEW n \in 1 .. MaxSessions, NEW r \in Runs, NEW z, NEW x, Given(n, z, r, x)
    PROVE  /\ sess' \in [1 .. MaxSessions -> Conversations] /\ run' \in [Runs -> Submitted]
           /\ \A p \in Runs : RunOK(p, run[p], sess)' /\ (run[p].s # NoOne => RunGoesOn(run[p], run'[p]))
           /\ \A m \in 1 .. MaxSessions : SessionOK(m, sess[m], run)'
<1>1. /\ sess'[n] = z /\ \A m \in 1 .. MaxSessions : m # n => sess'[m] = sess[m]
  BY DEF Given, World, StoreTyped
<1>2. run'[r] = x /\ \A p \in Runs : p # r => run'[p] = run[p] BY DEF Given, World, StoreTyped
<1>3. sess' \in [1 .. MaxSessions -> Conversations] /\ run' \in [Runs -> Submitted]
  BY DEF Given, World, StoreTyped
<1>4. DOMAIN z.queue = {1} /\ z.queue[1] = r /\ z.queue # <<>>
  <2>1. z.queue = <<r>> BY DEF Given
  <2> QED BY <2>1
<1>5. n # 0 /\ r # 0 BY DEF Runs
<1>6. ASSUME NEW p \in Runs PROVE RunOK(p, run[p], sess)'
  <2>1. RunOK(p, run[p], sess) /\ run[p].session \in 0 .. MaxSessions BY Typed DEF Submitted
  <2>2. CASE p = r
    <3>1. x.s # NoOne BY NamesAssumption DEF Given
    <3>2. 1 \in DOMAIN z.queue BY <1>4
    <3> QED BY <1>1, <1>2, <1>4, <1>5, <2>2, <3>1, <3>2 DEF RunOK, Given
  <2>3. CASE p # r
    <3>1. DOMAIN sess[n].queue = {} BY NoneIn DEF Given
    <3>2. run[p].rec \in {"wait", "follow"} => run[p].session \in 1 .. MaxSessions /\ run[p].session # n
      BY <2>1, <3>1, BoundsAssumption DEF RunOK
    <3>3. run[p].rec \in {"wait", "follow"} => sess'[run[p].session] = sess[run[p].session] BY <1>1, <3>2
    <3> QED BY <1>2, <2>1, <2>3, <3>3 DEF RunOK
  <2> QED BY <2>2, <2>3
<1>7. ASSUME NEW m \in 1 .. MaxSessions PROVE SessionOK(m, sess[m], run)'
  <2>1. SessionOK(m, sess[m], run) /\ sess[m].queue \in Seq(0 .. MaxRuns) BY Typed
  <2>2. CASE m # n
    <3>1. ASSUME NEW j \in DOMAIN sess[m].queue, sess[m].queue[j] # 0
          PROVE  run'[sess[m].queue[j]] = run[sess[m].queue[j]]
      <4>1. sess[m].queue[j] \in Runs BY <2>1, <3>1, BoundsAssumption DEF Runs
      <4>2. sess[m].queue[j] # r BY <2>1, <3>1 DEF SessionOK, Given
      <4> QED BY <1>2, <4>1, <4>2
    <3> QED BY <1>1, <2>1, <2>2, <3>1 DEF SessionOK
  <2>3. CASE m = n
    <3>1. x.s # NoOne /\ x.session = n /\ x.end = "none" /\ ~z.active /\ z.life = "open"
      BY NamesAssumption DEF Given
    <3> QED BY <1>1, <1>2, <1>4, <2>3, <3>1 DEF SessionOK
  <2> QED BY <2>2, <2>3
<1>8. ASSUME NEW p \in Runs, run[p].s # NoOne PROVE RunGoesOn(run[p], run'[p])
  <2>1. p # r BY <1>8 DEF Given
  <2> QED BY <1>2, <2>1 DEF RunGoesOn
<1> QED BY <1>3, <1>6, <1>7, <1>8

RunOf(h, n, rec) == [NoRun EXCEPT !.s = h.s, !.issue = h.issue, !.session = n, !.rec = rec]
MadeOf(x, h, n, rec) ==
    x \in Submitted /\ x.s = h.s /\ x.session = n /\ x.end = "none" /\ x.rec = rec /\ x.issue = h.issue
LEMMA RunIsMade ==
    ASSUME Loop, NEW f \in Firers, NEW r \in Runs, NEW n \in 1 .. MaxSessions,
           NEW rec \in {"none", "wait"}, fire[f].s \in Scheds,
           NEW x, x = RunOf(fire[f], n, rec)
    PROVE  MadeOf(x, fire[f], n, rec)
<1>1. fire[f].issue \in Issues \cup {NoIssue} BY DEF Loop, FiringsTyped, Firings
<1>2. x = [s |-> fire[f].s, issue |-> fire[f].issue, session |-> n, end |-> "none", rec |-> rec,
           file |-> FALSE]
  BY DEF NoRun, RunOf
<1>3. n \in 0 .. MaxSessions OBVIOUS
<1>4. x \in Submitted BY <1>1, <1>2, <1>3 DEF Submitted
<1> QED BY <1>2, <1>4 DEF MadeOf

\* The turn a firing submits, and the run it makes.
Submits(f, n, r, z, x) ==
    /\ n \in 1 .. MaxSessions /\ n = fire[f].session /\ r \in Runs /\ Given(n, z, r, x)
    /\ MadeOf(x, fire[f], n, x.rec) /\ z.crew = sess[n].crew /\ sched' = sched
LEMMA SubmitGives ==
    ASSUME World, Loop, NEW f \in Firers, Submit(f)
    PROVE  \E n, r, z, x : Submits(f, n, r, z, x)
<1> DEFINE n == fire[f].session
<1>1. PICK r \in NewRun, followed \in BOOLEAN :
        /\ fire[f].pc \in {"submit", "first"} /\ Made(f, r, n, IF followed THEN "wait" ELSE "none")
        /\ sess' = [sess EXCEPT ![n].queue = Append(@, r)] /\ sched' = sched
  BY DEF Submit, At
<1>2. r \in Runs /\ run[r].s = NoOne BY DEF NewRun
<1>3. fire[f].s \in Scheds /\ Ready(fire[f]) BY <1>1 DEF Loop, FiringOK, Poised
<1>4. n \in 1 .. MaxSessions /\ sess[n] \in Conversations /\ sess[n].queue = <<>> /\ sess[n].life = "open"
      /\ SessionOK(n, sess[n], run)
  <2>1. n \in 0 .. MaxSessions BY DEF Loop, FiringsTyped, Firings
  <2>2. n \in 1 .. MaxSessions BY <1>3, <2>1, BoundsAssumption DEF Ready, Live
  <2> QED BY <1>3, <2>2, Typed DEF Ready, Live
<1> DEFINE rec == IF followed THEN "wait" ELSE "none"
           x == [NoRun EXCEPT !.s = fire[f].s, !.issue = fire[f].issue, !.session = n, !.rec = rec]
           z == [sess[n] EXCEPT !.queue = <<r>>]
<1>5. run' = [run EXCEPT ![r] = x] BY <1>1 DEF Made
<1>6. sess' = [sess EXCEPT ![n] = z]
  <2>1. Append(<<>>, r) = <<r>> OBVIOUS
  <2> QED BY <1>1, <1>4, <2>1
<1>7. MadeOf(x, fire[f], n, rec) /\ x.rec = rec
  <2>1. rec \in {"none", "wait"} /\ x = RunOf(fire[f], n, rec) BY DEF RunOf
  <2> HIDE DEF rec, x, n
  <2>2. MadeOf(x, fire[f], n, rec) BY <1>2, <1>3, <1>4, <2>1, RunIsMade
  <2> QED BY <2>2 DEF MadeOf
<1>8. /\ z \in Conversations /\ z.queue = <<r>> /\ z.life = "open" /\ ~z.active /\ z.crew = sess[n].crew
  <2>1. <<r>> \in Seq(0 .. MaxRuns)
    <3>1. r \in 0 .. MaxRuns BY <1>2, BoundsAssumption DEF Runs
    <3> QED BY <3>1
  <2>2. ~sess[n].active BY <1>4 DEF SessionOK
  <2> QED BY <1>4, <2>1, <2>2 DEF Conversations
<1>9. rec \in {"none", "wait"} OBVIOUS
<1> HIDE DEF x, z, rec
<1>10. Given(n, z, r, x) BY <1>2, <1>3, <1>4, <1>5, <1>6, <1>7, <1>8, <1>9 DEF Given, MadeOf
<1>11. Submits(f, n, r, z, x) BY <1>1, <1>2, <1>4, <1>7, <1>8, <1>10 DEF Submits
<1> QED BY <1>11

LEMMA SubmitKeeps ==
    ASSUME World, Loop, NEW f \in Firers, Submit(f)
    PROVE  World'
<1>1. PICK n, r, z, x : Submits(f, n, r, z, x) BY SubmitGives
<1>2. n \in 1 .. MaxSessions /\ r \in Runs /\ Given(n, z, r, x) /\ sched' = sched /\ z.crew = sess[n].crew
  BY <1>1 DEF Submits
<1>3. /\ sess' \in [1 .. MaxSessions -> Conversations] /\ run' \in [Runs -> Submitted]
      /\ \A p \in Runs : RunOK(p, run[p], sess)' /\ (run[p].s # NoOne => RunGoesOn(run[p], run'[p]))
      /\ \A m \in 1 .. MaxSessions : SessionOK(m, sess[m], run)'
  BY <1>2, TurnIsGiven
<1>4. ASSUME NEW m \in 1 .. MaxSessions PROVE SessionGoesOn(sess[m], sess'[m])
  BY <1>2 DEF Given, SessionGoesOn, World, StoreTyped
<1>5. \A s \in Scheds : ScheduleOK(s, sched[s], sess, run)' BY <1>2, <1>3, <1>4, HistoryKept
<1> QED BY <1>2, <1>3, <1>5 DEF World, StoreTyped

Launches(f, n, r, z, x) ==
    Given(n, z, r, x) /\ MadeOf(x, fire[f], n, "wait") /\ z.life = "open"
LEMMA LaunchGives ==
    ASSUME World, Loop, NEW f \in Firers, NEW n \in NewSession, NEW r \in NewRun,
           fire[f].s \in Crewed, Made(f, r, n, "wait"),
           sess' = [sess EXCEPT ![n] = [NoSession EXCEPT !.life = "open", !.crew = TRUE, !.queue = <<r>>]],
           sched' = [sched EXCEPT ![fire[f].s].session = n]
    PROVE  \E z, x : Launches(f, n, r, z, x)
<1> DEFINE s == fire[f].s
           x == [NoRun EXCEPT !.s = s, !.issue = fire[f].issue, !.session = n, !.rec = "wait"]
           z == [NoSession EXCEPT !.life = "open", !.crew = TRUE, !.queue = <<r>>]
<1>1. n \in 1 .. MaxSessions /\ sess[n] \in Conversations /\ SessionOK(n, sess[n], run) /\ sess[n].life = "none"
      /\ sess[n].queue = <<>> /\ r \in Runs /\ run[r].s = NoOne /\ s \in Scheds
  BY Typed DEF NewSession, NewRun, SessionOK, Scheds
<1>2. run' = [run EXCEPT ![r] = x] BY DEF Made
<1>3. MadeOf(x, fire[f], n, "wait")
  <2>1. x = RunOf(fire[f], n, "wait") BY DEF RunOf
  <2> HIDE DEF x
  <2>2. "wait" \in {"none", "wait"} OBVIOUS
  <2> QED BY <1>1, <2>1, <2>2, RunIsMade
<1>4. /\ z \in Conversations /\ z.queue = <<r>> /\ z.life = "open" /\ ~z.active
  <2>1. <<r>> \in Seq(0 .. MaxRuns)
    <3>1. r \in 0 .. MaxRuns BY <1>1, BoundsAssumption DEF Runs
    <3> QED BY <3>1
  <2> QED BY <2>1 DEF Conversations, NoSession
<1>5. sess' = [sess EXCEPT ![n] = z] OBVIOUS
<1> HIDE DEF x, z
<1>6. Given(n, z, r, x) BY <1>1, <1>2, <1>3, <1>4, <1>5 DEF Given, MadeOf
<1>7. Launches(f, n, r, z, x) BY <1>3, <1>4, <1>6 DEF Launches
<1> QED BY <1>7

LEMMA LaunchKeeps ==
    ASSUME World, Loop, NEW f \in Firers, NEW n \in NewSession, NEW r \in NewRun,
           fire[f].s \in Crewed, Made(f, r, n, "wait"),
           sess' = [sess EXCEPT ![n] = [NoSession EXCEPT !.life = "open", !.crew = TRUE, !.queue = <<r>>]],
           sched' = [sched EXCEPT ![fire[f].s].session = n]
    PROVE  World'
<1> DEFINE s == fire[f].s
<1>1. n \in 1 .. MaxSessions /\ sess[n] \in Conversations /\ sess[n].life = "none"
      /\ r \in Runs /\ s \in Scheds
  BY Typed DEF NewSession, NewRun, Scheds
<1>2. PICK z, x : Launches(f, n, r, z, x) BY LaunchGives
<1>4. z.life = "open" BY <1>2 DEF Launches
<1>5. sess' = [sess EXCEPT ![n] = z] BY <1>2 DEF Launches, Given
<1>6. Given(n, z, r, x) BY <1>2 DEF Launches
<1>7. /\ sess' \in [1 .. MaxSessions -> Conversations] /\ run' \in [Runs -> Submitted]
      /\ \A p \in Runs : RunOK(p, run[p], sess)' /\ (run[p].s # NoOne => RunGoesOn(run[p], run'[p]))
      /\ \A m \in 1 .. MaxSessions : SessionOK(m, sess[m], run)'
  BY <1>1, <1>6, TurnIsGiven
<1>8. sched[s] \in Schedules /\ \A q \in Scheds : q # s => sched'[q] = sched[q]
  BY <1>1, Typed DEF World, StoreTyped
<1>9. /\ sched'[s] \in Schedules /\ sched'[s].runs = sched[s].runs /\ sched'[s].session = n
      /\ sched'[s].worked = sched[s].worked
  <2>1. sched'[s] = [sched[s] EXCEPT !.session = n] BY <1>1 DEF World, StoreTyped
  <2>2. n \in 0 .. MaxSessions BY <1>1
  <2> QED BY <1>8, <2>1, <2>2 DEF Schedules
<1>10. sched' \in [Scheds -> Schedules] BY <1>1, <1>8, <1>9 DEF World, StoreTyped
<1>11. ASSUME NEW q \in Scheds PROVE ScheduleOK(q, sched[q], sess, run)'
  <2>1. ScheduleOK(q, sched[q], sess, run) /\ sched[q].session \in 0 .. MaxSessions BY Typed DEF Schedules
  <2>2. sess'[n] = z /\ \A m \in 1 .. MaxSessions : m # n => sess'[m] = sess[m]
    BY <1>1, <1>5 DEF World, StoreTyped
  <2>3. sched'[q].runs = sched[q].runs BY <1>8, <1>9
  <2>4. ASSUME NEW k \in DOMAIN sched[q].runs PROVE EntryOK(sched[q].runs[k], q, run')
    <3> DEFINE e == sched[q].runs[k]
    <3>1. e \in Entries /\ EntryOK(e, q, run) BY <2>1, Typed DEF ScheduleOK
    <3>2. e.run # 0 => e.run \in Runs BY <3>1, BoundsAssumption DEF Entries, Runs
    <3> HIDE DEF e
    <3>3. e.run # 0 => RunGoesOn(run[e.run], run'[e.run])
      BY <1>7, <3>1, <3>2, NamesAssumption DEF EntryOK
    <3>4. EntryOK(e, q, run') BY <3>1, <3>2, <3>3 DEF EntryOK, RunGoesOn
    <3> QED BY <3>4 DEF e
  <2>5. CASE q = s
    <3>1. z.life # "none" /\ q \in Crewed BY <1>4, <2>5
    <3> QED BY <1>9, <2>2, <2>3, <2>4, <2>5, <3>1 DEF ScheduleOK
  <2>6. CASE q # s
    <3>1. sched[q].session # 0 => sched[q].session \in 1 .. MaxSessions /\ sched[q].session # n
      BY <1>1, <2>1, BoundsAssumption DEF ScheduleOK
    <3> QED BY <1>8, <2>1, <2>2, <2>3, <2>4, <2>6, <3>1 DEF ScheduleOK
  <2> QED BY <2>5, <2>6
<1>12. ASSUME NEW q \in Scheds PROVE Len(sched'[q].runs) <= Keep /\ Len(sched'[q].worked) <= MaxWorked
  BY <1>8, <1>9 DEF World, StoreTyped
<1> QED BY <1>7, <1>10, <1>11, <1>12 DEF World, StoreTyped

-----------------------------------------------------------------------------
(* The lifespan.                                                           *)

\* A new process closes the entries that say `submitted'.
LEMMA HistoryLoaded ==
    ASSUME World, Loads,
           \A p \in Runs : run[p].s # NoOne =>
             run'[p].s = run[p].s /\ (run[p].end # "none" => run'[p].end = run[p].end),
           \A m \in 1 .. MaxSessions : SessionGoesOn(sess[m], sess'[m])
    PROVE  /\ sched' \in [Scheds -> Schedules]
           /\ \A s \in Scheds : Len(sched'[s].runs) <= Keep /\ Len(sched'[s].worked) <= MaxWorked
           /\ \A s \in Scheds : ScheduleOK(s, sched[s], sess, run)'
<1> DEFINE f == [e \in Entries |-> IF e.status = "submitted" THEN [e EXCEPT !.status = "interrupted"] ELSE e]
<1>1. \A e \in Entries : f[e] \in Entries /\ f[e].run = e.run
        /\ f[e].status = IF e.status = "submitted" THEN "interrupted" ELSE e.status
  BY DEF Entries
<1>2. ASSUME NEW s \in Scheds
      PROVE  /\ sched'[s] \in Schedules /\ Len(sched'[s].runs) <= Keep /\ Len(sched'[s].worked) <= MaxWorked
             /\ ScheduleOK(s, sched[s], sess, run)'
  <2> DEFINE q == sched[s].runs
             a == [k \in DOMAIN q |-> f[q[k]]]
  <2>1. sched[s] \in Schedules /\ q \in Seq(Entries) /\ Len(q) <= Keep /\ ScheduleOK(s, sched[s], sess, run)
        /\ Len(sched[s].worked) <= MaxWorked /\ \A k \in DOMAIN q : q[k] \in Entries
    BY Typed DEF World, StoreTyped
  <2>2. a \in Seq(Entries) /\ Len(a) = Len(q) /\ DOMAIN a = DOMAIN q
        /\ \A k \in DOMAIN a : a[k] = f[q[k]] /\ q[k] \in Entries
    <3>1. q \in Seq(Entries) /\ a = [k \in DOMAIN q |-> f[q[k]]] /\ \A e \in Entries : f[e] \in Entries
      BY <1>1, <2>1
    <3> HIDE DEF q, f, a
    <3> QED BY <3>1, MapIs
  <2>3. sched'[s] = [sched[s] EXCEPT !.runs = a]
    <3>1. ASSUME NEW k \in DOMAIN q
          PROVE  (IF q[k].status = "submitted" THEN [q[k] EXCEPT !.status = "interrupted"] ELSE q[k]) = f[q[k]]
      BY <2>1
    <3>2. sched'[s] = [sched[s] EXCEPT !.runs =
                        [k \in DOMAIN q |-> IF q[k].status = "submitted"
                                            THEN [q[k] EXCEPT !.status = "interrupted"] ELSE q[k]]]
      BY DEF Loads
    <3>3. a = [k \in DOMAIN q |-> IF q[k].status = "submitted"
                                  THEN [q[k] EXCEPT !.status = "interrupted"] ELSE q[k]]
      BY <3>1
    <3> HIDE DEF a, f, q
    <3> QED BY <3>2, <3>3
  <2> HIDE DEF a, f
  <2>4. /\ sched'[s] \in Schedules /\ sched'[s].runs = a /\ sched'[s].session = sched[s].session
        /\ sched'[s].worked = sched[s].worked
    BY <2>1, <2>2, <2>3 DEF Schedules
  <2>5. ASSUME NEW k \in DOMAIN a PROVE EntryOK(a[k], s, run')
    <3> DEFINE e == q[k]
    <3>1. e \in Entries /\ EntryOK(e, s, run) /\ a[k] = f[e] BY <2>1, <2>2 DEF ScheduleOK
    <3>2. a[k].run = e.run /\ a[k].status = IF e.status = "submitted" THEN "interrupted" ELSE e.status
      BY <1>1, <3>1
    <3>3. e.run # 0 => e.run \in Runs BY <3>1, BoundsAssumption DEF Entries, Runs
    <3> HIDE DEF e
    <3>4. e.run # 0 => run'[e.run].s = s /\ (run[e.run].end # "none" => run'[e.run].end = run[e.run].end)
      BY <3>1, <3>3, NamesAssumption DEF EntryOK
    <3> QED BY <3>1, <3>2, <3>4 DEF EntryOK
  <2>6. sched[s].session # 0 => sched[s].session \in 1 .. MaxSessions BY <2>1, BoundsAssumption DEF Schedules
  <2>7. ScheduleOK(s, sched[s], sess, run)' BY <2>1, <2>4, <2>5, <2>6 DEF ScheduleOK, SessionGoesOn
  <2> QED BY <2>1, <2>2, <2>4, <2>7
<1>3. sched' \in [Scheds -> Schedules]
  <2>1. sched' = [s \in Scheds |-> sched'[s]] BY DEF Loads
  <2> QED BY <1>2, <2>1
<1> QED BY <1>2, <1>3

LEMMA AllShut ==
    ASSUME World, sess' = AllClosed, run' = [p \in Runs |-> run'[p]],
           \A p \in Runs : Cut(run[p], run'[p]) /\ run'[p].rec \notin {"wait", "follow"}
    PROVE  /\ sess' \in [1 .. MaxSessions -> Conversations] /\ run' \in [Runs -> Submitted]
           /\ \A p \in Runs : RunOK(p, run[p], sess)'
           /\ \A m \in 1 .. MaxSessions : SessionOK(m, sess[m], run)' /\ SessionGoesOn(sess[m], sess'[m])
<1>1. PICK C : C = {m \in 1 .. MaxSessions : sess[m].life = "open"} OBVIOUS
<1>2. Closed(C)
  <2>1. ASSUME NEW m \in 1 .. MaxSessions
        PROVE  (IF Live(m) THEN Shut(m)[m] ELSE sess[m])
               = (IF m \in C THEN [sess[m] EXCEPT !.life = "closed", !.queue = <<>>, !.active = FALSE]
                             ELSE sess[m])
    BY <1>1 DEF Live, Shut, World, StoreTyped
  <2> QED BY <1>1, <2>1 DEF Closed, AllClosed
<1>3. CutOff(C) BY DEF CutOff
<1> QED BY <1>1, <1>2, <1>3, Closing

LEMMA ServerKeeps ==
    ASSUME World, Loop, Stop \/ Down \/ Restart \/ Crash
    PROVE  World'
<1>1. CASE Stop BY <1>1 DEF Stop, World, StoreTyped
<1>2. CASE Down
  <2>1. sess' = AllClosed /\ run' = run /\ sched' = sched /\ \A p \in Runs : ~Followed(p) BY <1>2 DEF Down
  <2>2. ASSUME NEW p \in Runs
        PROVE  Cut(run[p], run'[p]) /\ run'[p].rec \notin {"wait", "follow"} /\ RunGoesOn(run[p], run'[p])
    BY <2>1 DEF Cut, Followed, RunGoesOn
  <2>3. run' = [p \in Runs |-> run'[p]] BY <2>1 DEF World, StoreTyped
  <2>4. /\ sess' \in [1 .. MaxSessions -> Conversations] /\ run' \in [Runs -> Submitted]
        /\ \A p \in Runs : RunOK(p, run[p], sess)'
        /\ \A m \in 1 .. MaxSessions : SessionOK(m, sess[m], run)' /\ SessionGoesOn(sess[m], sess'[m])
    BY <2>1, <2>2, <2>3, AllShut
  <2>5. \A s \in Scheds : ScheduleOK(s, sched[s], sess, run)' BY <2>1, <2>2, <2>4, HistoryKept
  <2> QED BY <2>1, <2>4, <2>5 DEF World, StoreTyped
<1>3. CASE Restart
  <2>1. Loads /\ sess' = sess /\ run' = run BY <1>3 DEF Restart
  <2>2. \A m \in 1 .. MaxSessions : SessionGoesOn(sess[m], sess'[m]) BY <2>1 DEF SessionGoesOn
  <2>3. \A p \in Runs : run[p].s # NoOne =>
          run'[p].s = run[p].s /\ (run[p].end # "none" => run'[p].end = run[p].end)
    BY <2>1
  <2>4. /\ sched' \in [Scheds -> Schedules]
        /\ \A s \in Scheds : Len(sched'[s].runs) <= Keep /\ Len(sched'[s].worked) <= MaxWorked
        /\ \A s \in Scheds : ScheduleOK(s, sched[s], sess, run)'
    BY <2>1, <2>2, <2>3, HistoryLoaded
  <2> QED BY <2>1, <2>4 DEF World, StoreTyped
<1>4. CASE Crash
  <2>1. Loads /\ sess' = AllClosed
        /\ run' = [r \in Runs |-> IF Followed(r) THEN [run[r] EXCEPT !.rec = "over"] ELSE run[r]]
    BY <1>4 DEF Crash
  <2>2. ASSUME NEW p \in Runs
        PROVE  /\ Cut(run[p], run'[p]) /\ run'[p].rec \notin {"wait", "follow"}
               /\ run'[p].s = run[p].s /\ run'[p].end = run[p].end
    <3>1. run'[p] = IF run[p].rec \notin {"none", "over"} THEN [run[p] EXCEPT !.rec = "over"] ELSE run[p]
      BY <2>1 DEF Followed
    <3>2. run[p] \in Submitted BY Typed
    <3> QED BY <3>1, <3>2 DEF Cut, Submitted
  <2>3. run' = [p \in Runs |-> run'[p]] BY <2>1
  <2>4. /\ sess' \in [1 .. MaxSessions -> Conversations] /\ run' \in [Runs -> Submitted]
        /\ \A p \in Runs : RunOK(p, run[p], sess)'
        /\ \A m \in 1 .. MaxSessions : SessionOK(m, sess[m], run)' /\ SessionGoesOn(sess[m], sess'[m])
    <3>1. \A p \in Runs : Cut(run[p], run'[p]) /\ run'[p].rec \notin {"wait", "follow"} BY <2>2
    <3>2. sess' = AllClosed BY <2>1
    <3> QED BY <2>3, <3>1, <3>2, AllShut
  <2>5. /\ sched' \in [Scheds -> Schedules]
        /\ \A s \in Scheds : Len(sched'[s].runs) <= Keep /\ Len(sched'[s].worked) <= MaxWorked
        /\ \A s \in Scheds : ScheduleOK(s, sched[s], sess, run)'
    BY <2>1, <2>2, <2>4, HistoryLoaded
  <2> QED BY <2>4, <2>5 DEF World, StoreTyped
<1> QED BY <1>1, <1>2, <1>3, <1>4

-----------------------------------------------------------------------------
(* Every step keeps the world.                                             *)

LEMMA FiringKeepsWorld ==
    ASSUME World, Loop, NEW f \in Firers, Firing(f)
    PROVE  World'
<1>1. ASSUME sched' = sched, sess' = sess, run' = run PROVE World' BY <1>1 DEF World, StoreTyped
<1>2. CASE \/ NotStarted(f) \/ StartTurn(f) \/ StartWork(f) \/ (\E i \in Issues : Pick(f, i)) \/ Fetched(f)
           \/ OldClosed(f) \/ StartCrew(f) \/ Planned(f)
  BY <1>1, <1>2 DEF NotStarted, StartTurn, StartWork, Pick, Fetched, OldClosed, StartCrew, Planned
<1>3. fire[f] \in Firings /\ FiringOK(fire[f]) BY DEF Loop, FiringsTyped
<1>4. CASE IssueClosed(f)
  <2>1. fire[f].pc = "fetch" BY <1>4 DEF IssueClosed, At
  <2>2. fire[f].s \in Scheds /\ fire[f].issue \in Issues BY <1>3, <2>1 DEF FiringOK, Firings
  <2> QED BY <1>4, <2>2, ClosedIssue DEF IssueClosed
<1>5. CASE Prepared(f)
  <2>1. fire[f].session \in 0 .. MaxSessions BY <1>3 DEF Firings
  <2> QED BY <1>5, <2>1, SessionShuts DEF Prepared
<1>6. CASE Created(f)
  <2>1. fire[f].s \in Scheds BY <1>3, <1>6 DEF Created, At, FiringOK
  <2>2. PICK n \in NewSession :
          /\ sess' = [sess EXCEPT ![n].life = "open"] /\ run' = run
          /\ sched' = [sched EXCEPT ![fire[f].s].session = n]
    BY <1>6 DEF Created
  <2> QED BY <2>1, <2>2, SessionIsCreated
<1>7. CASE Submit(f) BY <1>7, SubmitKeeps
<1>8. CASE Launched(f)
  <2>1. PICK n \in NewSession, r \in NewRun :
          /\ At(f, {"launch"}) /\ Made(f, r, n, "wait")
          /\ sess' = [sess EXCEPT ![n] = [NoSession EXCEPT !.life = "open", !.crew = TRUE,
                                                           !.queue = <<r>>]]
          /\ sched' = [sched EXCEPT ![fire[f].s].session = n]
    BY <1>8 DEF Launched
  <2>2. fire[f].s \in Crewed BY <1>3, <2>1 DEF At, FiringOK
  <2> QED BY <2>1, <2>2, LaunchKeeps
<1>9. CASE Record(f) BY <1>9, RecordKeeps
<1> QED BY <1>2, <1>4, <1>5, <1>6, <1>7, <1>8, <1>9 DEF Firing

LEMMA WorldStep ==
    ASSUME World, Loop, Next
    PROVE  World'
<1>1. CASE TickStep \/ \E f \in Runners, s \in Scheds : RunNow(f, s)
  <2>1. sched' = sched /\ sess' = sess /\ run' = run
    BY <1>1 DEF TickStep, TickWakes, TickNext, TickEnds, RunNow
  <2> QED BY <2>1 DEF World, StoreTyped
<1>2. CASE Stop \/ Down \/ Restart \/ Crash BY <1>2, ServerKeeps
<1>3. ASSUME NEW f \in Firers, Firing(f) PROVE World' BY <1>3, FiringKeepsWorld
<1>4. ASSUME NEW r \in Runs, Recorder(r) PROVE World'
  <2>1. RunOK(r, run[r], sess) BY Typed
  <2>2. CASE RecorderEnds(r)
    <3>1. CASE run[r].rec = "result" /\ Finish(r, "done")
      <4>1. Followed(r) /\ run[r].end = "result" BY <2>1, <3>1 DEF Followed, RunOK
      <4> QED BY <3>1, <4>1, Finished
    <3>2. CASE run[r].rec = "error" /\ Finish(r, "error")
      <4>1. Followed(r) /\ run[r].end = "error" BY <2>1, <3>2 DEF Followed, RunOK
      <4> QED BY <3>2, <4>1, Finished
    <3> QED BY <2>2, <3>1, <3>2 DEF RecorderEnds
  <2>3. CASE TimesOut(r) BY <2>3, Finished DEF TimesOut
  <2>4. CASE Interrupted(r) BY <2>4, Finished DEF Interrupted
  <2> QED BY <1>4, <2>2, <2>3, <2>4 DEF Recorder
<1>5. ASSUME NEW n \in 1 .. MaxSessions, Session(n) PROVE World'
  <2>1. CASE TakeTurn(n) BY <2>1, TurnIsTaken
  <2>2. CASE \E e \in {"result", "error"} : EndTurn(n, e) BY <2>2, TurnEnds
  <2>3. CASE UserTurn(n) BY <2>3, UserTurns
  <2>4. CASE Close(n)
    <3>1. n \in 0 .. MaxSessions OBVIOUS
    <3> QED BY <2>4, <3>1, SessionShuts DEF Close
  <2>5. CASE Wake(n) BY <2>5, SessionWakes
  <2> QED BY <1>5, <2>1, <2>2, <2>3, <2>4, <2>5 DEF Session
<1>6. ASSUME NEW s \in Scheds, Route(s) PROVE World' BY <1>6, RouteKeeps
<1> QED BY <1>1, <1>2, <1>3, <1>4, <1>5, <1>6 DEF Next

-----------------------------------------------------------------------------
(* The firings.                                                            *)

LEMMA NotOnLoop ==
    ASSUME Loop, cpu = NoOne, NEW f \in Firers
    PROVE  fire[f].pc \notin OnLoop
BY NamesAssumption DEF Loop, LoopOK

\* Firing f goes to h; nobody else was on the loop.
Moves(f, h) ==
    /\ fire' = [fire EXCEPT ![f] = h] /\ cpu' = IF h.pc \in OnLoop THEN f ELSE NoOne
    /\ h \in Firings /\ FiringOK(h) /\ Poised(h)'
    /\ cpu \in {f, NoOne} /\ server = "up" /\ server' = server /\ crashes' = crashes
    /\ item' \in [Scheds -> Issues \cup {NoIssue}]
LEMMA LoopMoves ==
    ASSUME Loop, NEW f \in Firers, NEW h, Moves(f, h)
    PROVE  Loop'
<1>1. FiringsTyped' BY DEF Loop, FiringsTyped, Moves
<1>2. ASSUME NEW g \in Firers PROVE fire'[g] = IF g = f THEN h ELSE fire[g]
  BY DEF Loop, FiringsTyped, Moves
<1>3. ASSUME NEW g \in Firers, g # f PROVE fire[g].pc \notin OnLoop /\ FiringOK(fire[g])
  BY <1>3, NamesAssumption DEF Loop, LoopOK, Moves
<1>4. ASSUME NEW g \in Firers PROVE fire'[g].pc \in OnLoop <=> cpu' = g
  BY <1>2, <1>3, NamesAssumption DEF Moves
<1>5. LoopOK' BY <1>4 DEF LoopOK, Moves
<1>6. ASSUME NEW g \in Firers PROVE FiringOK(fire[g])' /\ Poised(fire[g])'
  <2>1. CASE g = f
    <3>1. fire'[g] = h /\ FiringOK(h) /\ Poised(h)' BY <1>2, <2>1 DEF Moves
    <3> QED BY <3>1 DEF FiringOK, Poised, Ready, Told, Live, Followed
  <2>2. CASE g # f
    <3>1. fire'[g] = fire[g] BY <1>2, <2>2
    <3> QED BY <1>3, <2>2, <3>1 DEF FiringOK, Poised, OnLoop
  <2> QED BY <2>1, <2>2
<1> QED BY <1>1, <1>5, <1>6 DEF Loop

LEMMA LoopWaits ==
    ASSUME Loop, cpu = NoOne, UNCHANGED <<fire, item, cpu, server, crashes>>
    PROVE  Loop'
<1>1. ASSUME NEW f \in Firers PROVE FiringOK(fire[f])' /\ Poised(fire[f])'
  <2>1. fire[f].pc \notin OnLoop /\ FiringOK(fire[f]) BY NotOnLoop DEF Loop
  <2> QED BY <2>1 DEF FiringOK, Poised, OnLoop
<1> QED BY <1>1 DEF Loop, FiringsTyped, LoopOK

LEMMA TickMoves ==
    ASSUME Loop, NEW f \in Firers,
           TickStep \/ \E s \in Scheds : RunNow(f, s)
    PROVE  Loop'
<1> USE DEF OnLoop
<1>1. NoOne \notin Firers /\ Tick \in Firers /\ Idle \in Firings /\ Due \in SUBSET Scheds
      /\ \A g \in Firers : fire[g] \in Firings
  <2>1. 0 \in 0 .. MaxSessions /\ 0 \in 0 .. MaxRuns BY BoundsAssumption
  <2> QED BY <2>1, NamesAssumption DEF Firers, Idle, Firings, Due, Loop, FiringsTyped
<1>2. item \in [Scheds -> Issues \cup {NoIssue}] BY DEF Loop, FiringsTyped
<1>3. CASE TickWakes
  <2>0. PICK h : h = [Idle EXCEPT !.pc = "next", !.list = Due] OBVIOUS
  <2>1. h \in Firings /\ h.pc = "next" /\ h.run = 0 BY <2>0, <1>1 DEF Firings, Idle
  <2>2. fire' = [fire EXCEPT ![Tick] = h] /\ cpu' = Tick /\ cpu = NoOne /\ server = "up"
        /\ UNCHANGED <<item, server, crashes>>
    BY <2>0, <1>3 DEF TickWakes, Goes
  <2>3. Moves(Tick, h) BY <1>2, <2>1, <2>2 DEF Moves, FiringOK, Poised
  <2> QED BY <1>1, <2>3, LoopMoves
<1>4. CASE \E s \in Scheds : TickNext(s)
  <2>1. PICK s \in Scheds : TickNext(s) BY <1>4
  <2>0. PICK h : h = [Idle EXCEPT !.pc = "start", !.s = s, !.list = fire[Tick].list \ {s}] OBVIOUS
  <2>2. h \in Firings /\ h.pc = "start" /\ h.run = 0 /\ h.s = s /\ h.issue = NoIssue
    BY <2>0, <1>1 DEF Firings, Idle
  <2>3. fire' = [fire EXCEPT ![Tick] = h] /\ cpu' = Tick /\ cpu = Tick /\ fire[Tick].pc = "next"
        /\ UNCHANGED <<item, server, crashes>>
    BY <2>0, <2>1 DEF TickNext, Goes, At
  <2>4. server = "up" BY <1>1, <2>3 DEF Loop, LoopOK
  <2>5. Moves(Tick, h) BY <1>2, <2>2, <2>3, <2>4 DEF Moves, FiringOK, Poised
  <2> QED BY <1>1, <2>5, LoopMoves
<1>5. CASE TickEnds
  <2>1. fire' = [fire EXCEPT ![Tick] = Idle] /\ cpu' = NoOne /\ cpu = Tick /\ fire[Tick].pc = "next"
        /\ UNCHANGED <<item, server, crashes>>
    BY <1>5 DEF TickEnds, Awaits, At
  <2>2. server = "up" BY <1>1, <2>1 DEF Loop, LoopOK
  <2>3. Idle.pc = "idle" /\ Idle.run = 0 BY DEF Idle
  <2>4. Moves(Tick, Idle) BY <1>1, <1>2, <2>1, <2>2, <2>3 DEF Moves, FiringOK, Poised
  <2> QED BY <1>1, <2>4, LoopMoves
<1>6. CASE \E s \in Scheds : RunNow(f, s)
  <2>1. PICK s \in Scheds : RunNow(f, s) BY <1>6
  <2>0. PICK h : h = [Idle EXCEPT !.pc = "start", !.s = s] OBVIOUS
  <2>2. h \in Firings /\ h.pc = "start" /\ h.run = 0 /\ h.s = s /\ h.issue = NoIssue
    BY <2>0, <1>1 DEF Firings, Idle
  <2>3. fire' = [fire EXCEPT ![f] = h] /\ cpu' = f /\ cpu = NoOne /\ server = "up"
        /\ UNCHANGED <<item, server, crashes>>
    BY <2>0, <2>1 DEF RunNow, Goes
  <2>4. Moves(f, h) BY <1>2, <2>2, <2>3 DEF Moves, FiringOK, Poised
  <2> QED BY <2>4, LoopMoves
<1> QED BY <1>3, <1>4, <1>5, <1>6 DEF TickStep

\* A firing that is under way was let in by a server that is up, and nobody else
\* is on the loop with it.
LEMMA UnderWay ==
    ASSUME Loop, NEW f \in Firers, NEW pcs, At(f, pcs), pcs \cap {"idle", "ended"} = {}
    PROVE  /\ server = "up" /\ cpu \in {f, NoOne} /\ fire[f].pc \in pcs
           /\ fire[f] \in Firings /\ FiringOK(fire[f]) /\ Poised(fire[f])
           /\ item \in [Scheds -> Issues \cup {NoIssue}]
<1>1. fire[f].pc \notin {"idle", "ended"} BY DEF At
<1> QED BY <1>1 DEF At, Loop, LoopOK, FiringsTyped

\* What every case of _start does to the firing alone.
LEMMA StartMoves ==
    ASSUME World, Loop, NEW f \in Firers,
           \/ NotStarted(f) \/ StartTurn(f) \/ StartWork(f) \/ (\E i \in Issues : Pick(f, i)) \/ Fetched(f)
           \/ OldClosed(f) \/ StartCrew(f) \/ Planned(f)
    PROVE  Loop'
<1> USE DEF OnLoop
<1>1. UNCHANGED <<sched, item, sess, run, server, crashes>>
  BY DEF NotStarted, StartTurn, StartWork, Pick, Fetched, OldClosed, StartCrew, Planned
<1>2. CASE NotStarted(f)
  <2>1. PICK pcs : At(f, pcs) /\ pcs \cap {"idle", "ended", "record", "next"} = {} BY <1>2 DEF NotStarted
  <2>2. /\ server = "up" /\ cpu \in {f, NoOne} /\ fire[f].pc \notin {"idle", "ended", "record", "next"}
        /\ fire[f] \in Firings /\ FiringOK(fire[f])
        /\ item \in [Scheds -> Issues \cup {NoIssue}]
    BY <2>1, UnderWay
  <2>0. PICK h : h = [fire[f] EXCEPT !.pc = "record", !.status = "skipped"] OBVIOUS
  <2>3. h \in Firings /\ h.pc = "record" /\ h.status = "skipped" /\ h.s = fire[f].s /\ h.run = fire[f].run
    BY <2>0, <2>2 DEF Firings
  <2>4. fire' = [fire EXCEPT ![f] = h] /\ cpu' = f BY <2>0, <1>2 DEF NotStarted, Goes
  <2>5. Moves(f, h) BY <1>1, <2>2, <2>3, <2>4 DEF Moves, FiringOK, Poised, Told
  <2> QED BY <2>5, LoopMoves
<1>3. CASE StartTurn(f)
  <2> DEFINE n == sched[fire[f].s].session
  <2>1. At(f, {"start"}) /\ fire[f].s \in Turns /\ ~Busy(n) BY <1>3 DEF StartTurn
  <2>2. /\ server = "up" /\ cpu \in {f, NoOne} /\ fire[f].pc = "start"
        /\ fire[f] \in Firings /\ FiringOK(fire[f])
        /\ item \in [Scheds -> Issues \cup {NoIssue}]
    BY <2>1, UnderWay
  <2>3. n \in 0 .. MaxSessions /\ fire[f].s \in Scheds /\ ScheduleOK(fire[f].s, sched[fire[f].s], sess, run)
    BY <2>1, Typed DEF Scheds, Schedules
  <2>4. CASE Live(n)
    <3>0. PICK h : h = [fire[f] EXCEPT !.pc = "submit", !.session = n] OBVIOUS
    <3>1. h \in Firings /\ h.pc = "submit" /\ h.session = n /\ h.s = fire[f].s /\ h.run = 0
      BY <3>0, <2>2, <2>3 DEF Firings, FiringOK
    <3>2. fire' = [fire EXCEPT ![f] = h] /\ cpu' = f BY <3>0, <1>3, <2>4 DEF StartTurn, Goes
    <3>3. sess[n].queue = <<>> /\ ~sess[n].crew /\ n # 0 /\ sess[n].life = "open"
      BY <2>1, <2>3, <2>4, NamesAssumption DEF Busy, Live, ScheduleOK
    <3>4. Ready(h)' BY <1>1, <3>1, <3>3 DEF Ready, Live
    <3>5. Moves(f, h) BY <1>1, <2>1, <2>2, <2>3, <3>1, <3>2, <3>4 DEF Moves, FiringOK, Poised
    <3> QED BY <3>5, LoopMoves
  <2>5. CASE ~Live(n)
    <3>0. PICK h : h = [fire[f] EXCEPT !.pc = "create"] OBVIOUS
    <3>1. h \in Firings /\ h.pc = "create" /\ h.s = fire[f].s /\ h.run = 0
      BY <3>0, <2>2 DEF Firings, FiringOK
    <3>2. fire' = [fire EXCEPT ![f] = h] /\ cpu' = NoOne BY <3>0, <1>3, <2>5 DEF StartTurn, Awaits
    <3>3. Moves(f, h) BY <1>1, <2>1, <2>2, <2>3, <3>1, <3>2 DEF Moves, FiringOK, Poised
    <3> QED BY <3>3, LoopMoves
  <2> QED BY <2>4, <2>5
<1>4. CASE StartWork(f)
  <2> DEFINE n == sched[fire[f].s].session
             m == IF Live(n) THEN n ELSE 0
  <2>0. PICK h : h = [fire[f] EXCEPT !.pc = "list", !.session = m] OBVIOUS
  <2>1. At(f, {"start"}) /\ fire[f].s \in Works BY <1>4 DEF StartWork
  <2>2. /\ server = "up" /\ cpu \in {f, NoOne} /\ fire[f].pc = "start"
        /\ fire[f] \in Firings /\ FiringOK(fire[f])
        /\ item \in [Scheds -> Issues \cup {NoIssue}]
    BY <2>1, UnderWay
  <2>3. m \in 0 .. MaxSessions /\ fire[f].s \in Scheds
    BY <2>1, Typed, BoundsAssumption DEF Scheds, Schedules
  <2>4. fire' = [fire EXCEPT ![f] = h] /\ cpu' = NoOne BY <2>0, <1>4 DEF StartWork, Awaits
  <2> HIDE DEF m
  <2>5. h \in Firings /\ h.pc = "list" /\ h.s = fire[f].s /\ h.run = 0 /\ h.issue = NoIssue
    BY <2>0, <2>2, <2>3 DEF Firings, FiringOK
  <2>6. Moves(f, h) BY <1>1, <2>1, <2>2, <2>3, <2>4, <2>5 DEF Moves, FiringOK, Poised
  <2> QED BY <2>6, LoopMoves
<1>5. CASE \E i \in Issues : Pick(f, i)
  <2>1. PICK i \in Issues : Pick(f, i) BY <1>5
  <2>2. At(f, {"list"}) BY <2>1 DEF Pick
  <2>3. /\ server = "up" /\ cpu \in {f, NoOne} /\ fire[f].pc = "list"
        /\ fire[f] \in Firings /\ FiringOK(fire[f])
        /\ item \in [Scheds -> Issues \cup {NoIssue}]
    BY <2>2, UnderWay
  <2>0. PICK h : h = [fire[f] EXCEPT !.pc = "fetch", !.issue = i] OBVIOUS
  <2>4. h \in Firings /\ h.pc = "fetch" /\ h.s = fire[f].s /\ h.run = 0 /\ h.issue = i
    BY <2>0, <2>3 DEF Firings, FiringOK
  <2>5. fire' = [fire EXCEPT ![f] = h] /\ cpu' = NoOne BY <2>0, <2>1 DEF Pick, Awaits
  <2>6. Moves(f, h) BY <1>1, <2>3, <2>4, <2>5, NamesAssumption DEF Moves, FiringOK, Poised
  <2> QED BY <2>6, LoopMoves
<1>6. CASE Fetched(f) \/ OldClosed(f)
  <2>1. At(f, {"fetch", "close"}) BY <1>6 DEF Fetched, OldClosed, At
  <2>2. /\ server = "up" /\ cpu \in {f, NoOne} /\ fire[f].pc \in {"fetch", "close"}
        /\ fire[f] \in Firings /\ FiringOK(fire[f])
        /\ item \in [Scheds -> Issues \cup {NoIssue}]
    BY <2>1, UnderWay
  <2>3. PICK h : /\ fire' = [fire EXCEPT ![f] = h] /\ cpu' = NoOne
                 /\ \/ h = [fire[f] EXCEPT !.pc = "checkout"]
                    \/ h = [fire[f] EXCEPT !.pc = "create", !.session = 0]
    BY <1>6 DEF Fetched, OldClosed, Awaits
  <2>4. 0 \in 0 .. MaxSessions BY BoundsAssumption
  <2>5. h \in Firings /\ h.pc \in {"checkout", "create"} /\ h.s = fire[f].s /\ h.run = 0
    BY <2>2, <2>3, <2>4 DEF Firings, FiringOK
  <2>6. Moves(f, h) BY <1>1, <2>2, <2>3, <2>5 DEF Moves, FiringOK, Poised
  <2> QED BY <2>6, LoopMoves
<1>7. CASE StartCrew(f) \/ Planned(f)
  <2>1. At(f, {"start", "plan"}) /\ (fire[f].pc = "start" => fire[f].s \in Crewed)
    BY <1>7 DEF StartCrew, Planned, At
  <2>2. /\ server = "up" /\ cpu \in {f, NoOne} /\ fire[f].pc \in {"start", "plan"}
        /\ fire[f] \in Firings /\ FiringOK(fire[f])
        /\ item \in [Scheds -> Issues \cup {NoIssue}]
    BY <2>1, UnderWay
  <2>3. PICK h : /\ fire' = [fire EXCEPT ![f] = h] /\ cpu' = NoOne
                 /\ \E pc \in {"plan", "launch"} : h = [fire[f] EXCEPT !.pc = pc]
    BY <1>7 DEF StartCrew, Planned, Awaits
  <2>4. /\ h \in Firings /\ h.pc \in {"plan", "launch"} /\ h.s = fire[f].s /\ h.run = 0
        /\ h.issue = NoIssue
    BY <2>2, <2>3 DEF Firings, FiringOK
  <2>5. h.s \in Crewed /\ h.s \in Scheds BY <2>1, <2>2, <2>4 DEF FiringOK, Scheds
  <2>6. Moves(f, h) BY <1>1, <2>2, <2>3, <2>4, <2>5 DEF Moves, FiringOK, Poised
  <2> QED BY <2>6, LoopMoves
<1> QED BY <1>2, <1>3, <1>4, <1>5, <1>6, <1>7

\* What the rest of _start does to it: the sessions and histories change too.
LEMMA WorkMoves ==
    ASSUME World, Loop, NEW f \in Firers, IssueClosed(f) \/ Prepared(f)
    PROVE  Loop'
<1> USE DEF OnLoop
<1>1. At(f, {"fetch", "checkout"}) BY DEF IssueClosed, Prepared, At
<1>2. /\ server = "up" /\ cpu \in {f, NoOne} /\ fire[f].pc \in {"fetch", "checkout"}
      /\ fire[f] \in Firings /\ FiringOK(fire[f])
      /\ item \in [Scheds -> Issues \cup {NoIssue}]
  BY <1>1, UnderWay
<1>3. fire[f].s \in Works /\ fire[f].s \in Scheds BY <1>2 DEF FiringOK
<1>4. CASE IssueClosed(f)
  <2>0. PICK h : h = [fire[f] EXCEPT !.pc = "record", !.status = "skipped"] OBVIOUS
  <2>1. h \in Firings /\ h.pc = "record" /\ h.status = "skipped" /\ h.s = fire[f].s /\ h.run = 0
    BY <1>2, <2>0 DEF Firings, FiringOK
  <2>2. fire' = [fire EXCEPT ![f] = h] /\ cpu' = f /\ UNCHANGED <<item, server, crashes>>
    BY <1>4, <2>0 DEF IssueClosed, Goes
  <2>3. Moves(f, h) BY <1>2, <1>3, <2>1, <2>2 DEF Moves, FiringOK, Poised, Told
  <2> QED BY <2>3, LoopMoves
<1>5. CASE Prepared(f)
  <2>0. PICK h : h = [fire[f] EXCEPT !.pc = IF fire[f].session # 0 THEN "close" ELSE "create"] OBVIOUS
  <2>1. h \in Firings /\ h.pc \in {"close", "create"} /\ h.s = fire[f].s /\ h.run = 0
    BY <1>2, <2>0 DEF Firings, FiringOK
  <2>2. fire' = [fire EXCEPT ![f] = h] /\ cpu' = NoOne /\ UNCHANGED <<server, crashes>>
        /\ item' = [item EXCEPT ![fire[f].s] = fire[f].issue]
    BY <1>5, <2>0 DEF Prepared, Awaits
  <2>3. item' \in [Scheds -> Issues \cup {NoIssue}] BY <1>2, <1>3, <2>2 DEF Firings
  <2>4. Moves(f, h) BY <1>2, <1>3, <2>1, <2>2, <2>3 DEF Moves, FiringOK, Poised
  <2> QED BY <2>4, LoopMoves
<1> QED BY <1>4, <1>5

LEMMA CreatedMoves ==
    ASSUME World, Loop, NEW f \in Firers, Created(f)
    PROVE  Loop'
<1> USE DEF OnLoop
<1>1. PICK n \in NewSession :
        /\ At(f, {"create"}) /\ Goes(f, [fire[f] EXCEPT !.pc = "first", !.session = n])
        /\ sess' = [sess EXCEPT ![n].life = "open"]
        /\ sched' = [sched EXCEPT ![fire[f].s].session = n]
        /\ UNCHANGED <<item, run, server, crashes>>
  BY DEF Created
<1>2. /\ server = "up" /\ cpu \in {f, NoOne} /\ fire[f].pc = "create"
      /\ fire[f] \in Firings /\ FiringOK(fire[f])
      /\ item \in [Scheds -> Issues \cup {NoIssue}]
  BY <1>1, UnderWay
<1>3. n \in 1 .. MaxSessions /\ n \in 0 .. MaxSessions /\ n # 0 /\ sess[n] \in Conversations
      /\ sess[n].queue = <<>> /\ ~sess[n].crew
  BY Typed DEF NewSession, SessionOK
<1>4. sess'[n].life = "open" /\ sess'[n].queue = <<>> /\ ~sess'[n].crew
  BY <1>1, <1>3 DEF World, StoreTyped, Conversations
<1>5. fire[f].s \in Scheds /\ fire[f].s \in Turns \cup Works BY <1>2 DEF FiringOK
<1>6. sched'[fire[f].s].session = n BY <1>1, <1>5, Typed DEF World, StoreTyped, Schedules
<1>7. PICK h : h = [fire[f] EXCEPT !.pc = "first", !.session = n] OBVIOUS
<1>8. h \in Firings /\ h.pc = "first" /\ h.s = fire[f].s /\ h.run = 0 /\ h.session = n
  BY <1>2, <1>3, <1>7 DEF Firings, FiringOK
<1>9. fire' = [fire EXCEPT ![f] = h] /\ cpu' = f BY <1>1, <1>7 DEF Goes
<1>10. Ready(h)' BY <1>3, <1>4, <1>6, <1>8 DEF Ready, Live
<1>11. Moves(f, h) BY <1>1, <1>2, <1>5, <1>8, <1>9, <1>10 DEF Moves, FiringOK, Poised
<1> QED BY <1>11, LoopMoves

LEMMA SubmitMoves ==
    ASSUME World, Loop, NEW f \in Firers, Submit(f)
    PROVE  Loop'
<1> USE DEF OnLoop
<1>1. PICK r \in NewRun, followed \in BOOLEAN :
        /\ At(f, {"submit", "first"})
        /\ Made(f, r, fire[f].session, IF followed THEN "wait" ELSE "none")
        /\ Goes(f, [fire[f] EXCEPT !.pc = "record", !.run = IF followed THEN r ELSE 0,
                                   !.status = IF followed THEN "submitted" ELSE "unrecorded"])
        /\ UNCHANGED <<item, server, crashes>>
  BY DEF Submit
<1>2. /\ server = "up" /\ cpu \in {f, NoOne} /\ fire[f].pc \in {"submit", "first"}
      /\ fire[f] \in Firings /\ FiringOK(fire[f])
      /\ item \in [Scheds -> Issues \cup {NoIssue}]
  BY <1>1, UnderWay
<1>3. r \in Runs /\ r \in 0 .. MaxRuns /\ r # 0 /\ 0 \in 0 .. MaxRuns
  BY BoundsAssumption DEF NewRun, Runs
<1>4. PICK h : h = [fire[f] EXCEPT !.pc = "record", !.run = IF followed THEN r ELSE 0,
                                   !.status = IF followed THEN "submitted" ELSE "unrecorded"]
  OBVIOUS
<1>5. /\ h \in Firings /\ h.pc = "record" /\ h.s = fire[f].s
      /\ h.run = IF followed THEN r ELSE 0
      /\ h.status = IF followed THEN "submitted" ELSE "unrecorded"
  BY <1>2, <1>3, <1>4 DEF Firings
<1>6. fire' = [fire EXCEPT ![f] = h] /\ cpu' = f BY <1>1, <1>4 DEF Goes
<1>7. followed => run'[r].s = fire[f].s /\ run'[r].rec = "wait"
  <2>1. run' = [run EXCEPT ![r] = [NoRun EXCEPT !.s = fire[f].s, !.issue = fire[f].issue,
                      !.session = fire[f].session, !.rec = IF followed THEN "wait" ELSE "none"]]
    BY <1>1 DEF Made
  <2> QED BY <1>3, <2>1 DEF World, StoreTyped, NoRun
<1>8. Told(h)' BY <1>3, <1>5, <1>7 DEF Told, Followed
<1>9. fire[f].s \in Scheds BY <1>2 DEF FiringOK
<1>10. Moves(f, h) BY <1>1, <1>2, <1>5, <1>6, <1>8, <1>9 DEF Moves, FiringOK, Poised
<1> QED BY <1>10, LoopMoves

LEMMA LaunchedMoves ==
    ASSUME World, Loop, NEW f \in Firers, Launched(f)
    PROVE  Loop'
<1> USE DEF OnLoop
<1>1. PICK n \in NewSession, r \in NewRun :
        /\ At(f, {"launch"}) /\ Made(f, r, n, "wait")
        /\ Goes(f, [fire[f] EXCEPT !.pc = "record", !.run = r, !.status = "submitted"])
        /\ UNCHANGED <<item, server, crashes>>
  BY DEF Launched
<1>2. /\ server = "up" /\ cpu \in {f, NoOne} /\ fire[f].pc = "launch"
      /\ fire[f] \in Firings /\ FiringOK(fire[f])
      /\ item \in [Scheds -> Issues \cup {NoIssue}]
  BY <1>1, UnderWay
<1>3. r \in Runs /\ r \in 0 .. MaxRuns /\ r # 0 BY BoundsAssumption DEF NewRun, Runs
<1>4. PICK h : h = [fire[f] EXCEPT !.pc = "record", !.run = r, !.status = "submitted"] OBVIOUS
<1>5. h \in Firings /\ h.pc = "record" /\ h.s = fire[f].s /\ h.run = r /\ h.status = "submitted"
  BY <1>2, <1>3, <1>4 DEF Firings
<1>6. fire' = [fire EXCEPT ![f] = h] /\ cpu' = f BY <1>1, <1>4 DEF Goes
<1>7. run'[r].s = fire[f].s /\ run'[r].rec = "wait"
  BY <1>1, <1>3 DEF Made, World, StoreTyped, NoRun
<1>8. Told(h)' BY <1>3, <1>5, <1>7 DEF Told, Followed
<1>9. fire[f].s \in Scheds BY <1>2 DEF FiringOK
<1>10. Moves(f, h) BY <1>1, <1>2, <1>5, <1>6, <1>8, <1>9 DEF Moves, FiringOK, Poised
<1> QED BY <1>10, LoopMoves

LEMMA RecordMoves ==
    ASSUME World, Loop, NEW f \in Firers, Record(f)
    PROVE  Loop'
<1> USE DEF OnLoop
<1>1. At(f, {"record"}) /\ item' = [item EXCEPT ![fire[f].s] = NoIssue] /\ UNCHANGED <<server, crashes>>
      /\ IF f = Tick THEN Goes(f, [Idle EXCEPT !.pc = "next", !.list = fire[f].list]) ELSE Awaits(f, Idle)
  BY DEF Record, Advanced
<1>2. /\ server = "up" /\ cpu \in {f, NoOne} /\ fire[f].pc = "record"
      /\ fire[f] \in Firings /\ FiringOK(fire[f])
      /\ item \in [Scheds -> Issues \cup {NoIssue}]
  BY <1>1, UnderWay
<1>3. item' \in [Scheds -> Issues \cup {NoIssue}] BY <1>1, <1>2
<1>4. PICK h : h = IF f = Tick THEN [Idle EXCEPT !.pc = "next", !.list = fire[f].list] ELSE Idle OBVIOUS
<1>5. Idle \in Firings
  <2>1. 0 \in 0 .. MaxSessions /\ 0 \in 0 .. MaxRuns BY BoundsAssumption
  <2> QED BY <2>1 DEF Idle, Firings
<1>6. h \in Firings /\ h.pc = (IF f = Tick THEN "next" ELSE "idle") /\ h.run = 0
  <2>1. CASE f = Tick BY <1>2, <1>4, <1>5, <2>1 DEF Idle, Firings
  <2>2. CASE f # Tick BY <1>4, <1>5, <2>2 DEF Idle
  <2> QED BY <2>1, <2>2
<1>7. fire' = [fire EXCEPT ![f] = h] /\ cpu' = IF f = Tick THEN f ELSE NoOne
  BY <1>1, <1>4 DEF Goes, Awaits
<1>8. Moves(f, h) BY <1>1, <1>2, <1>3, <1>6, <1>7 DEF Moves, FiringOK, Poised
<1> QED BY <1>8, LoopMoves

LEMMA ServerMoves ==
    ASSUME Loop, Stop \/ Down \/ Restart \/ Crash
    PROVE  Loop'
<1> USE DEF OnLoop
<1>1. Tick \in Firers /\ Idle \in Firings /\ NoOne \notin Firers
      /\ Idle.pc = "idle" /\ Idle.run = 0
  <2>1. 0 \in 0 .. MaxSessions /\ 0 \in 0 .. MaxRuns BY BoundsAssumption
  <2> QED BY <2>1, NamesAssumption DEF Firers, Idle, Firings
<1>2. CASE Stop
  <2>0. PICK h : h = [Idle EXCEPT !.pc = "ended"] OBVIOUS
  <2>1. h \in Firings /\ h.pc = "ended" /\ h.run = 0 BY <1>1, <2>0 DEF Firings, Idle
  <2>2. /\ fire' = [fire EXCEPT ![Tick] = h] /\ cpu = NoOne /\ cpu' = NoOne /\ server' = "stopping"
        /\ UNCHANGED <<item, crashes>> /\ \A f \in Runners : fire[f].pc = "idle"
    BY <1>2, <2>0 DEF Stop
  <2>3. ASSUME NEW f \in Firers
        PROVE  /\ fire'[f] = IF f = Tick THEN h ELSE fire[f]
               /\ fire'[f].pc \in {"idle", "ended"} /\ FiringOK(fire'[f])
    <3>1. fire'[f] = IF f = Tick THEN h ELSE fire[f] BY <2>2 DEF Loop, FiringsTyped
    <3>2. FiringOK(h) BY <2>1 DEF FiringOK
    <3>3. f # Tick => fire[f].pc = "idle" BY <2>2 DEF Firers
    <3>4. FiringOK(fire[f]) BY DEF Loop
    <3> QED BY <2>1, <3>1, <3>2, <3>3, <3>4
  <2>4. FiringsTyped' BY <2>1, <2>2 DEF Loop, FiringsTyped
  <2>5. LoopOK' BY <1>1, <2>2, <2>3 DEF LoopOK
  <2>6. ASSUME NEW f \in Firers PROVE FiringOK(fire[f])' /\ Poised(fire[f])'
    BY <2>3 DEF FiringOK, Poised
  <2> QED BY <2>4, <2>5, <2>6 DEF Loop
<1>3. CASE Down
  <2>1. UNCHANGED <<fire, item, cpu, crashes>> /\ server = "stopping" /\ server' = "down" BY <1>3 DEF Down
  <2>2. ASSUME NEW f \in Firers PROVE fire[f].pc \in {"idle", "ended"} /\ FiringOK(fire[f])
    BY <2>1 DEF Loop, LoopOK
  <2>3. ASSUME NEW f \in Firers PROVE FiringOK(fire[f])' /\ Poised(fire[f])'
    BY <2>1, <2>2 DEF FiringOK, Poised
  <2> QED BY <2>1, <2>2, <2>3 DEF Loop, FiringsTyped, LoopOK
<1>4. CASE Restart \/ Crash
  <2>1. fire' = [f \in Firers |-> Idle] /\ item' = [s \in Scheds |-> NoIssue] /\ cpu' = NoOne
        /\ server' = "up" /\ crashes' \in 0 .. MaxCrashes
    <3>1. fire' = [f \in Firers |-> Idle] /\ item' = [s \in Scheds |-> NoIssue] /\ cpu' = NoOne
          /\ server' = "up"
      BY <1>4 DEF Restart, Crash, Loads
    <3>2. crashes \in 0 .. MaxCrashes BY DEF Loop, FiringsTyped
    <3>3. crashes' = crashes \/ (crashes < MaxCrashes /\ crashes' = crashes + 1)
      BY <1>4 DEF Restart, Crash
    <3>4. crashes' \in 0 .. MaxCrashes BY <3>2, <3>3, BoundsAssumption
    <3> QED BY <3>1, <3>4
  <2>2. ASSUME NEW f \in Firers PROVE FiringOK(fire[f])' /\ Poised(fire[f])'
    BY <1>1, <2>1 DEF FiringOK, Poised
  <2> QED BY <1>1, <2>1, <2>2 DEF Loop, FiringsTyped, LoopOK
<1> QED BY <1>2, <1>3, <1>4

LEMMA LoopStep ==
    ASSUME World, Loop, Next
    PROVE  Loop'
<1>1. CASE TickStep \/ \E f \in Runners, s \in Scheds : RunNow(f, s)
  <2>1. Tick \in Firers /\ Runners \subseteq Firers BY DEF Firers
  <2> QED BY <1>1, <2>1, TickMoves
<1>2. CASE Stop \/ Down \/ Restart \/ Crash BY <1>2, ServerMoves
<1>3. ASSUME NEW f \in Firers, Firing(f) PROVE Loop'
  BY <1>3, StartMoves, WorkMoves, CreatedMoves, SubmitMoves, LaunchedMoves, RecordMoves DEF Firing
<1>4. ASSUME NEW r \in Runs, Recorder(r) PROVE Loop'
  BY <1>4, LoopWaits DEF Recorder, RecorderEnds, TimesOut, Interrupted, Finish
<1>5. ASSUME NEW n \in 1 .. MaxSessions, Session(n) PROVE Loop'
  BY <1>5, LoopWaits DEF Session, TakeTurn, EndTurn, UserTurn, Close, Wake, Elsewhere
<1>6. ASSUME NEW s \in Scheds, Route(s) PROVE Loop'
  BY <1>6, LoopWaits DEF Route, Create, Enable, Respec, Delete, SlotComes, Edit, Elsewhere
<1> QED BY <1>1, <1>2, <1>3, <1>4, <1>5, <1>6 DEF Next

-----------------------------------------------------------------------------
(* The crews.                                                              *)

Up == {n \in 1 .. MaxSessions : sess[n].crew /\ Busy(n)}
Launching == {f \in Firers : fire[f].pc = "launch"}

LEMMA CrewsFinite ==
    /\ IsFiniteSet(Up) /\ IsFiniteSet(Launching) /\ IsFiniteSet(Up') /\ IsFiniteSet(Launching')
    /\ Cardinality(Up) \in Nat /\ Cardinality(Launching) \in Nat
    /\ CrewsRunning = Cardinality(Up) + Cardinality(Launching)
    /\ CrewsRunning' = Cardinality(Up') + Cardinality(Launching')
<1>1. IsFiniteSet(1 .. MaxSessions) BY FS_Interval, BoundsAssumption
<1>2. IsFiniteSet(Firers)
  <2>1. IsFiniteSet({Tick}) BY FS_Singleton
  <2> QED BY <2>1, NamesAssumption, FS_Union DEF Firers
<1>3. Up \subseteq 1 .. MaxSessions /\ Up' \subseteq 1 .. MaxSessions BY DEF Up
<1>4. Launching \subseteq Firers /\ Launching' \subseteq Firers BY DEF Launching
<1>5. /\ IsFiniteSet(Up) /\ IsFiniteSet(Launching) /\ IsFiniteSet(Up') /\ IsFiniteSet(Launching')
  BY <1>1, <1>2, <1>3, <1>4, FS_Subset
<1>6. Cardinality(Up) \in Nat /\ Cardinality(Launching) \in Nat BY <1>5, FS_CardinalityType
<1>7. /\ CrewsRunning = Cardinality(Up) + Cardinality(Launching)
      /\ CrewsRunning' = Cardinality(Up') + Cardinality(Launching')
  BY DEF CrewsRunning, Up, Launching
<1> QED BY <1>5, <1>6, <1>7

LEMMA FewerCrews ==
    ASSUME CrewsOK, Up' \subseteq Up, Launching' \subseteq Launching
    PROVE  CrewsOK'
<1>1. Cardinality(Up') <= Cardinality(Up) /\ Cardinality(Launching') <= Cardinality(Launching)
      /\ Cardinality(Up') \in Nat /\ Cardinality(Launching') \in Nat
  BY CrewsFinite, FS_Subset, FS_CardinalityType
<1>2. MaxCrews \in Nat BY BoundsAssumption
<1>3. Cardinality(Up) + Cardinality(Launching) <= MaxCrews BY CrewsFinite DEF CrewsOK
<1>4. Cardinality(Up') + Cardinality(Launching') <= MaxCrews BY <1>1, <1>2, <1>3, CrewsFinite
<1> QED BY <1>4, CrewsFinite DEF CrewsOK

\* No session but one starts to work as a crew.
Busier(z, y) == y.crew /\ y.life = "open" /\ y.queue # <<>> =>
    z.crew /\ z.life = "open" /\ z.queue # <<>>
LEMMA NoCrewMore ==
    ASSUME \A n \in 1 .. MaxSessions : Busier(sess[n], sess'[n])
    PROVE  Up' \subseteq Up
BY DEF Up, Busy, Live, Busier

LEMMA OneSessionChanges ==
    ASSUME World, NEW n \in 1 .. MaxSessions, NEW z, sess' = [sess EXCEPT ![n] = z], Busier(sess[n], z)
    PROVE  Up' \subseteq Up
<1>1. ASSUME NEW m \in 1 .. MaxSessions PROVE Busier(sess[m], sess'[m])
  <2>1. sess'[m] = IF m = n THEN z ELSE sess[m] BY DEF World, StoreTyped
  <2>2. Busier(sess[m], sess[m]) BY DEF Busier
  <2> QED BY <2>1, <2>2
<1> QED BY <1>1, NoCrewMore

LEMMA ShutsNoCrewMore ==
    ASSUME World, NEW n \in 0 .. MaxSessions, Shuts(n)
    PROVE  Up' \subseteq Up
<1>1. CASE ~Live(n)
  <2>1. sess' = sess BY <1>1 DEF Shuts
  <2> QED BY <2>1 DEF Up, Busy, Live
<1>2. CASE Live(n)
  <2>0. PICK z : z = [sess[n] EXCEPT !.life = "closed", !.queue = <<>>, !.active = FALSE] OBVIOUS
  <2>1. n \in 1 .. MaxSessions /\ sess' = [sess EXCEPT ![n] = z]
    BY <1>2, <2>0, BoundsAssumption DEF Shuts, Shut, Live
  <2>2. sess[n] \in Conversations BY <2>1, Typed
  <2>3. z.life = "closed" BY <2>0, <2>2 DEF Conversations
  <2>4. Busier(sess[n], z) BY <2>3 DEF Busier
  <2> QED BY <2>1, <2>4, OneSessionChanges
<1> QED BY <1>1, <1>2

LEMMA AllShutNoCrewMore ==
    ASSUME World, sess' = AllClosed
    PROVE  Up' \subseteq Up
<1>1. ASSUME NEW m \in 1 .. MaxSessions PROVE Busier(sess[m], sess'[m])
  <2>1. sess'[m] = IF Live(m) THEN Shut(m)[m] ELSE sess[m] BY DEF AllClosed
  <2>2. CASE Live(m)
    <3>1. sess'[m] = [sess[m] EXCEPT !.life = "closed", !.queue = <<>>, !.active = FALSE]
      BY <2>1, <2>2 DEF Shut, World, StoreTyped
    <3>2. sess'[m].life = "closed" BY <3>1, Typed DEF Conversations
    <3> QED BY <3>2 DEF Busier
  <2>3. CASE ~Live(m) BY <2>1, <2>3 DEF Busier
  <2> QED BY <2>2, <2>3
<1> QED BY <1>1, NoCrewMore

LEMMA SessionNoCrewMore ==
    ASSUME World, NEW n \in 1 .. MaxSessions, Session(n)
    PROVE  Up' \subseteq Up
<1>1. sess[n] \in Conversations /\ SessionOK(n, sess[n], run) BY Typed
<1>2. CASE TakeTurn(n)
  <2>0. PICK z : z = [sess[n] EXCEPT !.active = TRUE] OBVIOUS
  <2>1. sess' = [sess EXCEPT ![n] = z] BY <1>2, <2>0 DEF TakeTurn
  <2>2. z.crew = sess[n].crew /\ z.life = sess[n].life /\ z.queue = sess[n].queue
    BY <1>1, <2>0 DEF Conversations
  <2>3. Busier(sess[n], z) BY <2>2 DEF Busier
  <2> QED BY <2>1, <2>3, OneSessionChanges
<1>3. CASE \E e \in {"result", "error"} : EndTurn(n, e)
  <2>0. PICK z : z = [sess[n] EXCEPT !.active = FALSE, !.queue = Tail(sess[n].queue)] OBVIOUS
  <2>1. sess' = [sess EXCEPT ![n] = z] /\ sess[n].active BY <1>3, <2>0 DEF EndTurn
  <2>2. z.crew = sess[n].crew /\ z.life = sess[n].life /\ sess[n].queue # <<>>
    BY <1>1, <2>0, <2>1 DEF Conversations, SessionOK
  <2>3. Busier(sess[n], z) BY <2>2 DEF Busier
  <2> QED BY <2>1, <2>3, OneSessionChanges
<1>4. CASE UserTurn(n)
  <2>0. PICK z : z = [sess[n] EXCEPT !.queue = Append(sess[n].queue, 0)] OBVIOUS
  <2>1. sess' = [sess EXCEPT ![n] = z] /\ ~sess[n].crew BY <1>4, <2>0 DEF UserTurn
  <2>2. ~z.crew BY <1>1, <2>0, <2>1 DEF Conversations
  <2>3. Busier(sess[n], z) BY <2>2 DEF Busier
  <2> QED BY <2>1, <2>3, OneSessionChanges
<1>5. CASE Close(n)
  <2>1. n \in 0 .. MaxSessions /\ Shuts(n) BY <1>5 DEF Close
  <2> QED BY <2>1, ShutsNoCrewMore
<1>6. CASE Wake(n)
  <2>0. PICK z : z = [sess[n] EXCEPT !.life = "open"] OBVIOUS
  <2>1. sess' = [sess EXCEPT ![n] = z] /\ ~sess[n].crew BY <1>6, <2>0 DEF Wake
  <2>2. ~z.crew BY <1>1, <2>0, <2>1 DEF Conversations
  <2>3. Busier(sess[n], z) BY <2>2 DEF Busier
  <2> QED BY <2>1, <2>3, OneSessionChanges
<1> QED BY <1>2, <1>3, <1>4, <1>5, <1>6 DEF Session

LEMMA SameSessions ==
    ASSUME sess' = sess
    PROVE  Up' = Up
BY DEF Up, Busy, Live

LEMMA FiringCrews ==
    ASSUME World, Loop, CrewsOK, NEW f \in Firers, Firing(f)
    PROVE  CrewsOK'
<1>1. fire \in [Firers -> Firings] /\ fire[f] \in Firings BY DEF Loop, FiringsTyped
<1>2. ASSUME NEW h, fire' = [fire EXCEPT ![f] = h], h.pc # "launch" PROVE Launching' \subseteq Launching
  BY <1>1, <1>2 DEF Launching
<1>3. ASSUME NEW h, Goes(f, h) \/ Awaits(f, h), h.pc # "launch", Up' \subseteq Up PROVE CrewsOK'
  BY <1>2, <1>3, FewerCrews DEF Goes, Awaits
<1>4. CASE NotStarted(f)
  <2>0. PICK h : h = [fire[f] EXCEPT !.pc = "record", !.status = "skipped"] OBVIOUS
  <2>1. Goes(f, h) /\ sess' = sess BY <1>4, <2>0 DEF NotStarted
  <2>2. h.pc = "record" BY <1>1, <2>0 DEF Firings
  <2> QED BY <1>3, <2>1, <2>2, SameSessions
<1>5. CASE StartTurn(f)
  <2>1. PICK h : /\ Goes(f, h) \/ Awaits(f, h)
                 /\ \/ h = [fire[f] EXCEPT !.pc = "submit", !.session = sched[fire[f].s].session]
                    \/ h = [fire[f] EXCEPT !.pc = "create"]
    BY <1>5 DEF StartTurn
  <2>2. sess' = sess /\ h.pc # "launch" BY <1>1, <1>5, <2>1 DEF StartTurn, Firings
  <2> QED BY <1>3, <2>1, <2>2, SameSessions
<1>6. CASE StartWork(f)
  <2>1. PICK h : /\ Awaits(f, h) /\ \E n : h = [fire[f] EXCEPT !.pc = "list", !.session = n]
    BY <1>6 DEF StartWork
  <2>2. sess' = sess /\ h.pc # "launch" BY <1>1, <1>6, <2>1 DEF StartWork, Firings
  <2> QED BY <1>3, <2>1, <2>2, SameSessions
<1>7. CASE \E i \in Issues : Pick(f, i)
  <2>1. PICK h : /\ Awaits(f, h) /\ \E i : h = [fire[f] EXCEPT !.pc = "fetch", !.issue = i]
    BY <1>7 DEF Pick
  <2>2. sess' = sess /\ h.pc # "launch" BY <1>1, <1>7, <2>1 DEF Pick, Firings
  <2> QED BY <1>3, <2>1, <2>2, SameSessions
<1>8. CASE Fetched(f) \/ IssueClosed(f) \/ StartCrew(f)
  <2>1. PICK h : /\ Awaits(f, h) \/ Goes(f, h)
                 /\ \/ h = [fire[f] EXCEPT !.pc = "checkout"]
                    \/ h = [fire[f] EXCEPT !.pc = "record", !.status = "skipped"]
                    \/ h = [fire[f] EXCEPT !.pc = "plan"]
    BY <1>8 DEF Fetched, IssueClosed, StartCrew
  <2>2. sess' = sess /\ h.pc # "launch" BY <1>1, <1>8, <2>1 DEF Fetched, IssueClosed, StartCrew, Firings
  <2> QED BY <1>3, <2>1, <2>2, SameSessions
<1>9. CASE Prepared(f)
  <2>0. PICK h : h = [fire[f] EXCEPT !.pc = IF fire[f].session # 0 THEN "close" ELSE "create"] OBVIOUS
  <2>1. Awaits(f, h) /\ Shuts(fire[f].session) BY <1>9, <2>0 DEF Prepared
  <2>2. h.pc # "launch" /\ fire[f].session \in 0 .. MaxSessions BY <1>1, <2>0 DEF Firings
  <2> QED BY <1>3, <2>1, <2>2, ShutsNoCrewMore
<1>10. CASE OldClosed(f)
  <2>0. PICK h : h = [fire[f] EXCEPT !.pc = "create", !.session = 0] OBVIOUS
  <2>1. Awaits(f, h) /\ sess' = sess BY <1>10, <2>0 DEF OldClosed
  <2>2. h.pc = "create" BY <1>1, <2>0 DEF Firings
  <2> QED BY <1>3, <2>1, <2>2, SameSessions
<1>11. CASE Created(f)
  <2>1. PICK n \in NewSession : /\ Goes(f, [fire[f] EXCEPT !.pc = "first", !.session = n])
                                /\ sess' = [sess EXCEPT ![n].life = "open"]
    BY <1>11 DEF Created
  <2>2. PICK h : h = [fire[f] EXCEPT !.pc = "first", !.session = n] OBVIOUS
  <2>3. PICK z : z = [sess[n] EXCEPT !.life = "open"] OBVIOUS
  <2>4. n \in 1 .. MaxSessions /\ sess[n] \in Conversations /\ ~sess[n].crew
    BY Typed DEF NewSession, SessionOK
  <2>5. sess' = [sess EXCEPT ![n] = z] /\ ~z.crew BY <2>1, <2>3, <2>4 DEF Conversations
  <2>6. Up' \subseteq Up BY <2>4, <2>5, OneSessionChanges DEF Busier
  <2>7. Goes(f, h) /\ h.pc # "launch" BY <1>1, <2>1, <2>2 DEF Firings
  <2> QED BY <1>3, <2>6, <2>7
<1>12. CASE Submit(f)
  <2>1. PICK h, r : /\ Goes(f, h) /\ \E q, st : h = [fire[f] EXCEPT !.pc = "record", !.run = q, !.status = st]
                    /\ sess' = [sess EXCEPT ![fire[f].session].queue = Append(@, r)]
                    /\ fire[f].pc \in {"submit", "first"}
    BY <1>12 DEF Submit, At
  <2>2. fire[f].session \in 0 .. MaxSessions /\ Ready(fire[f]) BY <1>1, <2>1 DEF Loop, Poised, Firings
  <2>3. fire[f].session \in 1 .. MaxSessions /\ ~sess[fire[f].session].crew
    BY <2>2, BoundsAssumption DEF Ready, Live
  <2>4. PICK z : z = [sess[fire[f].session] EXCEPT !.queue = Append(@, r)] OBVIOUS
  <2>5. sess' = [sess EXCEPT ![fire[f].session] = z] /\ ~z.crew
    BY <2>1, <2>3, <2>4, Typed DEF Conversations
  <2>6. Up' \subseteq Up BY <2>3, <2>5, OneSessionChanges DEF Busier
  <2>7. h.pc # "launch" BY <1>1, <2>1 DEF Firings
  <2> QED BY <1>3, <2>1, <2>6, <2>7
<1>13. CASE Planned(f)
  <2>0. PICK h : h = [fire[f] EXCEPT !.pc = "launch"] OBVIOUS
  <2>1. fire' = [fire EXCEPT ![f] = h] /\ sess' = sess /\ CrewsRunning < MaxCrews
        /\ fire[f].pc = "plan"
    BY <1>13, <2>0 DEF Planned, Awaits, At
  <2>2. h.pc = "launch" BY <1>1, <2>0 DEF Firings
  <2>3. Launching' = Launching \cup {f} BY <1>1, <2>1, <2>2 DEF Launching
  <2>4. Cardinality(Launching') <= Cardinality(Launching) + 1 BY <2>3, CrewsFinite, FS_AddElement
  <2>5. Up' = Up BY <2>1, SameSessions
  <2>6. MaxCrews \in Nat /\ Cardinality(Launching') \in Nat
    BY CrewsFinite, FS_CardinalityType, BoundsAssumption
  <2>7. Cardinality(Up) + Cardinality(Launching) < MaxCrews BY <2>1, CrewsFinite
  <2>8. Cardinality(Up') + Cardinality(Launching') <= MaxCrews
    BY <2>4, <2>5, <2>6, <2>7, CrewsFinite
  <2> QED BY <2>8, CrewsFinite DEF CrewsOK
<1>14. CASE Launched(f)
  <2>1. PICK n \in NewSession, r \in NewRun :
          /\ fire[f].pc = "launch"
          /\ sess' = [sess EXCEPT ![n] = [NoSession EXCEPT !.life = "open", !.crew = TRUE, !.queue = <<r>>]]
          /\ Goes(f, [fire[f] EXCEPT !.pc = "record", !.run = r, !.status = "submitted"])
    BY <1>14 DEF Launched, At
  <2>2. PICK h : h = [fire[f] EXCEPT !.pc = "record", !.run = r, !.status = "submitted"] OBVIOUS
  <2>3. fire' = [fire EXCEPT ![f] = h] /\ h.pc # "launch" BY <1>1, <2>1, <2>2 DEF Goes, Firings
  <2>4. Launching' = Launching \ {f} /\ f \in Launching BY <1>1, <2>1, <2>3 DEF Launching
  <2>5. ASSUME NEW m \in Up' PROVE m \in Up \cup {n}
    BY <2>1, <2>5 DEF Up, Busy, Live, World, StoreTyped
  <2>6. Up' \subseteq Up \cup {n} BY <2>5
  <2>7. IsFiniteSet(Up \cup {n}) /\ Cardinality(Up \cup {n}) <= Cardinality(Up) + 1
    <3>1. IsFiniteSet(Up) /\ Cardinality(Up) \in Nat BY CrewsFinite
    <3>2. /\ IsFiniteSet(Up \cup {n})
          /\ Cardinality(Up \cup {n}) = Cardinality(Up) \/ Cardinality(Up \cup {n}) = Cardinality(Up) + 1
      BY <3>1, FS_AddElement
    <3> QED BY <3>1, <3>2
  <2>8. Cardinality(Up') <= Cardinality(Up \cup {n}) /\ Cardinality(Up \cup {n}) \in Nat
        /\ Cardinality(Up') \in Nat
    BY <2>6, <2>7, CrewsFinite, FS_Subset, FS_CardinalityType
  <2>9. Cardinality(Launching') = Cardinality(Launching) - 1 BY <2>4, CrewsFinite, FS_RemoveElement
  <2>10. Cardinality(Up) + Cardinality(Launching) <= MaxCrews /\ MaxCrews \in Nat
    BY CrewsFinite, BoundsAssumption DEF CrewsOK
  <2>11. Cardinality(Up') + Cardinality(Launching') <= MaxCrews
    BY <2>7, <2>8, <2>9, <2>10, CrewsFinite
  <2> QED BY <2>11, CrewsFinite DEF CrewsOK
<1>15. CASE Record(f)
  <2>1. PICK h : (Goes(f, h) \/ Awaits(f, h)) /\ h.pc # "launch"
    <3>1. Idle.pc = "idle" /\ \A l : [Idle EXCEPT !.pc = "next", !.list = l].pc = "next" BY DEF Idle
    <3> QED BY <1>15, <3>1 DEF Record, Advanced
  <2>2. sess' = sess BY <1>15 DEF Record, Advanced
  <2> QED BY <1>3, <2>1, <2>2, SameSessions
<1> QED BY <1>4, <1>5, <1>6, <1>7, <1>8, <1>9, <1>10, <1>11, <1>12, <1>13, <1>14, <1>15 DEF Firing

LEMMA CrewsStep ==
    ASSUME World, Loop, CrewsOK, Next
    PROVE  CrewsOK'
<1>0. fire \in [Firers -> Firings] BY DEF Loop, FiringsTyped
<1>1. ASSUME fire' = fire PROVE Launching' = Launching BY <1>1 DEF Launching
<1>2. CASE TickStep \/ \E f \in Runners, s \in Scheds : RunNow(f, s)
  <2>1. PICK f \in Firers : \E h : fire' = [fire EXCEPT ![f] = h] /\ h.pc # "launch"
    <3>1. /\ Idle.pc = "idle" /\ \A l : [Idle EXCEPT !.pc = "next", !.list = l].pc = "next"
          /\ \A s, l : [Idle EXCEPT !.pc = "start", !.s = s, !.list = l].pc = "start"
          /\ \A s : [Idle EXCEPT !.pc = "start", !.s = s].pc = "start"
      BY DEF Idle
    <3>2. Tick \in Firers /\ Runners \subseteq Firers BY DEF Firers
    <3>3. CASE TickWakes BY <3>1, <3>2, <3>3 DEF TickWakes, Goes
    <3>4. ASSUME NEW s \in Scheds, TickNext(s)
          PROVE  \E f \in Firers : \E h : fire' = [fire EXCEPT ![f] = h] /\ h.pc # "launch"
      <4>1. PICK h : h = [Idle EXCEPT !.pc = "start", !.s = s, !.list = fire[Tick].list \ {s}] OBVIOUS
      <4>2. fire' = [fire EXCEPT ![Tick] = h] BY <3>4, <4>1 DEF TickNext, Goes
      <4>3. h.pc = "start" BY <3>1, <4>1
      <4> QED BY <3>2, <4>2, <4>3
    <3>5. CASE TickEnds
      <4>1. fire' = [fire EXCEPT ![Tick] = Idle] BY <3>5 DEF TickEnds, Awaits
      <4> QED BY <3>1, <3>2, <4>1
    <3>6. ASSUME NEW f \in Runners, NEW s \in Scheds, RunNow(f, s)
          PROVE  \E g \in Firers : \E h : fire' = [fire EXCEPT ![g] = h] /\ h.pc # "launch"
      <4>1. PICK h : h = [Idle EXCEPT !.pc = "start", !.s = s] OBVIOUS
      <4>2. fire' = [fire EXCEPT ![f] = h] BY <3>6, <4>1 DEF RunNow, Goes
      <4>3. h.pc = "start" BY <3>1, <4>1
      <4> QED BY <3>2, <4>2, <4>3
    <3> QED BY <1>2, <3>3, <3>4, <3>5, <3>6 DEF TickStep
  <2>2. Launching' \subseteq Launching BY <1>0, <2>1 DEF Launching
  <2>3. sess' = sess BY <1>2 DEF TickStep, TickWakes, TickNext, TickEnds, RunNow
  <2> QED BY <2>2, <2>3, SameSessions, FewerCrews
<1>3. CASE Stop
  <2>0. PICK h : h = [Idle EXCEPT !.pc = "ended"] OBVIOUS
  <2>1. fire' = [fire EXCEPT ![Tick] = h] /\ sess' = sess BY <1>3, <2>0 DEF Stop
  <2>2. h.pc = "ended" BY <2>0 DEF Idle
  <2>3. Launching' \subseteq Launching BY <1>0, <2>1, <2>2 DEF Launching
  <2> QED BY <2>1, <2>3, SameSessions, FewerCrews
<1>4. CASE Down BY <1>1, <1>4, AllShutNoCrewMore, FewerCrews DEF Down
<1>5. CASE Restart \/ Crash
  <2>1. Up' \subseteq Up
    <3>1. CASE Restart BY <3>1, SameSessions DEF Restart
    <3>2. CASE Crash BY <3>2, AllShutNoCrewMore DEF Crash
    <3> QED BY <1>5, <3>1, <3>2
  <2>2. fire' = [f \in Firers |-> Idle] BY <1>5 DEF Restart, Crash, Loads
  <2>3. Launching' = {} BY <2>2 DEF Launching, Idle
  <2> QED BY <2>1, <2>3, FewerCrews
<1>6. ASSUME NEW f \in Firers, Firing(f) PROVE CrewsOK' BY <1>6, FiringCrews
<1>7. ASSUME NEW r \in Runs, Recorder(r) PROVE CrewsOK'
  <2>1. fire' = fire /\ sess' = sess BY <1>7 DEF Recorder, RecorderEnds, TimesOut, Interrupted, Finish
  <2> QED BY <1>1, <2>1, SameSessions, FewerCrews
<1>8. ASSUME NEW n \in 1 .. MaxSessions, Session(n) PROVE CrewsOK'
  <2>1. fire' = fire BY <1>8 DEF Session, TakeTurn, EndTurn, UserTurn, Close, Wake, Elsewhere
  <2> QED BY <1>1, <1>8, <2>1, SessionNoCrewMore, FewerCrews
<1>9. ASSUME NEW s \in Scheds, Route(s) PROVE CrewsOK'
  <2>1. fire' = fire /\ sess' = sess
    BY <1>9 DEF Route, Create, Enable, Respec, Delete, SlotComes, Edit, Elsewhere
  <2> QED BY <1>1, <2>1, SameSessions, FewerCrews
<1> QED BY <1>2, <1>3, <1>4, <1>5, <1>6, <1>7, <1>8, <1>9 DEF Next

-----------------------------------------------------------------------------
(* The theorems.                                                           *)

LEMMA Start == ASSUME Init PROVE IInv
<1>1. /\ NoSchedule \in Schedules /\ Idle \in Firings /\ NoSession \in Conversations /\ NoRun \in Submitted
      /\ Len(NoSchedule.runs) <= Keep /\ Len(NoSchedule.worked) <= MaxWorked
  <2>1. 0 \in 0 .. MaxSessions /\ 0 \in 0 .. MaxRuns /\ 0 \in 0 .. MaxCrashes BY BoundsAssumption
  <2>2. <<>> \in Seq(Issues) /\ <<>> \in Seq(Entries) /\ <<>> \in Seq(0 .. MaxRuns) /\ Len(<<>>) = 0 OBVIOUS
  <2>3. Keep \in Nat /\ MaxWorked \in Nat BY BoundsAssumption
  <2>4. NoSchedule \in Schedules BY <2>1, <2>2 DEF NoSchedule, Schedules
  <2>5. NoSession \in Conversations BY <2>2 DEF NoSession, Conversations
  <2>6. Idle \in Firings BY <2>1 DEF Idle, Firings
  <2>7. NoRun \in Submitted BY <2>1 DEF NoRun, Submitted
  <2>8. NoSchedule.runs = <<>> /\ NoSchedule.worked = <<>> BY DEF NoSchedule
  <2>9. Len(NoSchedule.runs) <= Keep /\ Len(NoSchedule.worked) <= MaxWorked BY <2>2, <2>3, <2>8
  <2> QED BY <2>4, <2>5, <2>6, <2>7, <2>9
<1>2. StoreTyped BY <1>1 DEF Init, StoreTyped
<1>3. FiringsTyped BY <1>1, BoundsAssumption DEF Init, FiringsTyped
<1>4. ASSUME NEW r \in Runs PROVE RunOK(r, run[r], sess) BY DEF Init, RunOK, NoRun
<1>5. ASSUME NEW n \in 1 .. MaxSessions PROVE SessionOK(n, sess[n], run)
  <2>1. sess[n] = NoSession BY DEF Init
  <2>2. sess[n].queue = <<>> /\ ~sess[n].active /\ ~sess[n].crew BY <2>1 DEF NoSession
  <2>3. DOMAIN sess[n].queue = {} BY <2>2, NoneIn
  <2> QED BY <2>2, <2>3 DEF SessionOK
<1>6. ASSUME NEW s \in Scheds PROVE ScheduleOK(s, sched[s], sess, run)
  <2>1. sched[s] = NoSchedule BY DEF Init
  <2>2. sched[s].runs = <<>> /\ sched[s].session = 0 BY <2>1 DEF NoSchedule
  <2>3. DOMAIN sched[s].runs = {} BY <2>2, NoneIn
  <2> QED BY <2>2, <2>3 DEF ScheduleOK
<1>7. World BY <1>2, <1>4, <1>5, <1>6 DEF World
<1>8. Loop BY <1>3, NamesAssumption DEF Init, Loop, LoopOK, OnLoop, FiringOK, Poised, Idle
<1>9. Up = {} /\ Launching = {} BY DEF Init, Up, Launching, Idle, NoSession
<1>10. CrewsOK BY <1>9, CrewsFinite, FS_EmptySet, BoundsAssumption DEF CrewsOK
<1> QED BY <1>7, <1>8, <1>10 DEF IInv

LEMMA StepKeeps == IInv /\ [Next]_vars => IInv'
<1> SUFFICES ASSUME IInv, [Next]_vars PROVE IInv' OBVIOUS
<1>1. CASE Next BY <1>1, WorldStep, LoopStep, CrewsStep DEF IInv
<1>2. CASE UNCHANGED vars
  <2>1. World' BY <1>2 DEF vars, IInv, World, StoreTyped
  <2>2. Loop'
    <3>1. ASSUME NEW f \in Firers PROVE FiringOK(fire[f])' /\ Poised(fire[f])'
      BY <1>2 DEF vars, IInv, Loop, FiringOK, Poised, Ready, Told, Live, Followed
    <3> QED BY <1>2, <3>1 DEF vars, IInv, Loop, FiringsTyped, LoopOK
  <2>3. Up' = Up /\ Launching' = Launching BY <1>2, SameSessions DEF vars, Launching
  <2> QED BY <2>1, <2>2, <2>3, FewerCrews DEF IInv
<1> QED BY <1>1, <1>2

LEMMA Always == Spec => []IInv
<1>1. Init => IInv BY Start
<1> QED BY <1>1, StepKeeps, PTL DEF Spec

\* Schedules keep at most their history's and their memory's length, and every
\* local of a firing stays in its range, over crashes and restarts.
THEOREM TypeCorrect == Spec => []TypeOK
<1>1. IInv => TypeOK BY DEF IInv, World, Loop, StoreTyped, FiringsTyped, TypeOK
<1> QED BY <1>1, Always, PTL

\* An entry that says `submitted' has a recorder that will write its outcome,
\* whichever of the entry and the recorder came first, and after a restart
\* (fire, _record, _finish and close_interrupted).
THEOREM SubmittedFollowed == Spec => []SubmittedIsFollowed
<1>1. IInv => SubmittedIsFollowed
  <2> SUFFICES ASSUME IInv, NEW h \in History, sched[h[1]].runs[h[2]].status = "submitted"
               PROVE  sched[h[1]].runs[h[2]].run # 0 /\ Followed(sched[h[1]].runs[h[2]].run)
    BY DEF SubmittedIsFollowed
  <2>1. h[1] \in Scheds /\ h[2] \in DOMAIN sched[h[1]].runs BY DEF History
  <2>2. EntryOK(sched[h[1]].runs[h[2]], h[1], run) BY <2>1 DEF IInv, World, ScheduleOK
  <2> QED BY <2>2 DEF EntryOK, Followed
<1> QED BY <1>1, Always, PTL

\* What _record writes into the history of a schedule is how the run's own turn
\* ended, although it listens to every event of a session the user shares.
THEOREM OutcomeOwn == Spec => []OutcomeIsOwn
<1>1. IInv => OutcomeIsOwn
  <2> SUFFICES ASSUME IInv, NEW h \in History
               PROVE  LET e == sched[h[1]].runs[h[2]] IN
                        /\ e.status = "done" => run[e.run].end = "result"
                        /\ e.run # 0 /\ e.status = "error" => run[e.run].end = "error"
    BY DEF OutcomeIsOwn
  <2>1. h[1] \in Scheds /\ h[2] \in DOMAIN sched[h[1]].runs BY DEF History
  <2>2. EntryOK(sched[h[1]].runs[h[2]], h[1], run) BY <2>1 DEF IInv, World, ScheduleOK
  <2> QED BY <2>2 DEF EntryOK
<1> QED BY <1>1, Always, PTL

\* However many firings and requests are suspended in adopt(), the crews that are
\* up stay under AGENT_MAX_CREWS (CrewService.launch counts those being hosted).
THEOREM CrewsCapped == Spec => []CrewCap
<1>1. IInv => CrewCap
  <2> SUFFICES ASSUME IInv PROVE CrewCap OBVIOUS
  <2>1. Up = {n \in 1 .. MaxSessions : sess[n].crew /\ Busy(n)} BY DEF Up
  <2>2. Cardinality(Up) + Cardinality(Launching) <= MaxCrews /\ MaxCrews \in Nat
        /\ Cardinality(Up) \in Nat /\ Cardinality(Launching) \in Nat
    BY CrewsFinite, BoundsAssumption DEF IInv, CrewsOK
  <2>3. Cardinality(Up) <= MaxCrews BY <2>2
  <2> QED BY <2>1, <2>3 DEF CrewCap
<1> QED BY <1>1, Always, PTL

-----------------------------------------------------------------------------
(* What the tick alone promises, when no request fires a schedule.         *)

\* A firing that has passed its check of the previous run and has not yet
\* submitted; a run that is in progress.
Starting == {"plan", "launch", "list", "fetch", "checkout", "close", "create", "first", "submit"}
OnQueue(r, x, ss) ==
    /\ x.session # 0 /\ ss[x.session].life = "open"
    /\ \E j \in DOMAIN ss[x.session].queue : ss[x.session].queue[j] = r

\* A run in progress is in its schedule's session, and its schedule is not fired.
Unfired(h) ==
    h.pc \in Starting => \A r \in Runs : OnQueue(r, run[r], sess) => run[r].s # h.s
Alone ==
    /\ \A r \in Runs : OnQueue(r, run[r], sess) /\ run[r].s # NoOne
                       => run[r].session = sched[run[r].s].session
    /\ Unfired(fire[Tick])

\* The issue of every run of a schedule is remembered, at the latest by the
\* firing that is recording it, and a firing has taken another.
Had(w, i) == \E j \in DOMAIN w : w[j] = i
Distinct(w) == \A j, k \in DOMAIN w : w[j] = w[k] => j = k
Remembered(s, i) ==
    \/ Had(sched[s].worked, i)
    \/ /\ fire[Tick].pc = "record" /\ fire[Tick].status # "skipped"
       /\ fire[Tick].s = s /\ item[s] = i
Untaken(h) ==
    h.pc \in Starting /\ h.issue # NoIssue
    => \A r \in Runs : run[r].s = h.s => run[r].issue # h.issue
Noted(h, it) ==
    h.pc \in {"close", "create", "first", "submit"} /\ h.issue # NoIssue => it[h.s] = h.issue
Attempted ==
    /\ \A s \in Scheds : Distinct(sched[s].worked)
    /\ \A r \in Runs : run[r].issue # NoIssue => Remembered(run[r].s, run[r].issue)
    /\ Untaken(fire[Tick]) /\ Noted(fire[Tick], item) /\ IssueOnce

\* No run comes, and none gets into a queue.
SameRun(x, y) == y.s = x.s /\ y.issue = x.issue /\ y.session = x.session
NoNewTurn(rr, ss) ==
    \A r \in Runs : SameRun(run[r], rr[r]) /\ (OnQueue(r, rr[r], ss) => OnQueue(r, run[r], sess))
Fewer(z, y) ==
    y.life = "open" => \A j \in DOMAIN y.queue : y.queue[j] # 0 =>
        z.life = "open" /\ \E k \in DOMAIN z.queue : z.queue[k] = y.queue[j]

LEMMA QueuesShrink ==
    ASSUME World, NEW rr, NEW ss, \A r \in Runs : SameRun(run[r], rr[r]),
           \A n \in 1 .. MaxSessions : Fewer(sess[n], ss[n])
    PROVE  NoNewTurn(rr, ss)
<1> SUFFICES ASSUME NEW r \in Runs, OnQueue(r, rr[r], ss) PROVE OnQueue(r, run[r], sess)
  BY DEF NoNewTurn
<1>1. rr[r].session = run[r].session /\ run[r].session \in 0 .. MaxSessions /\ r # 0
  BY Typed DEF SameRun, Submitted, Runs
<1>2. run[r].session \in 1 .. MaxSessions BY <1>1, BoundsAssumption DEF OnQueue
<1>3. Fewer(sess[run[r].session], ss[run[r].session]) BY <1>2
<1>4. PICK j \in DOMAIN ss[run[r].session].queue : ss[run[r].session].queue[j] = r
  BY <1>1 DEF OnQueue
<1> QED BY <1>1, <1>3, <1>4 DEF OnQueue, Fewer

LEMMA SameSession == ASSUME NEW z PROVE Fewer(z, z)
BY DEF Fewer

LEMMA OneQueueShrinks ==
    ASSUME World, NEW rr, NEW n \in 1 .. MaxSessions, NEW z, NEW ss, ss = [sess EXCEPT ![n] = z],
           \A r \in Runs : SameRun(run[r], rr[r]), Fewer(sess[n], z)
    PROVE  NoNewTurn(rr, ss)
<1>1. ASSUME NEW m \in 1 .. MaxSessions PROVE Fewer(sess[m], ss[m])
  <2>1. ss[m] = IF m = n THEN z ELSE sess[m] BY DEF World, StoreTyped
  <2> QED BY <2>1, SameSession
<1> QED BY <1>1, QueuesShrink

LEMMA EmptyShrinks ==
    ASSUME NEW z, NEW y, y.queue = <<>>
    PROVE  Fewer(z, y)
BY NoneIn DEF Fewer

LEMMA ShutsNoNewTurn ==
    ASSUME World, NEW n \in 0 .. MaxSessions, Shuts(n)
    PROVE  NoNewTurn(run', sess')
<1>1. CASE ~Live(n)
  <2>1. sess' = sess /\ run' = run BY <1>1 DEF Shuts
  <2> QED BY <2>1 DEF NoNewTurn, SameRun
<1>2. CASE Live(n)
  <2>0. PICK z : z = [sess[n] EXCEPT !.life = "closed", !.queue = <<>>, !.active = FALSE] OBVIOUS
  <2>1. n \in 1 .. MaxSessions /\ sess' = [sess EXCEPT ![n] = z] /\ run' = Deafened(n)
    BY <1>2, <2>0, BoundsAssumption DEF Shuts, Shut, Live
  <2>2. sess[n] \in Conversations BY <2>1, Typed
  <2>3. z.queue = <<>> BY <2>0, <2>2 DEF Conversations
  <2>4. ASSUME NEW r \in Runs PROVE SameRun(run[r], run'[r])
    <3>1. run'[r] = run[r] \/ run'[r] = [run[r] EXCEPT !.rec = "deaf"] BY <2>1 DEF Deafened
    <3>2. run[r] \in Submitted BY Typed
    <3> QED BY <3>1, <3>2 DEF SameRun, Submitted
  <2> QED BY <2>1, <2>3, <2>4, EmptyShrinks, OneQueueShrinks
<1> QED BY <1>1, <1>2

LEMMA AllShutNoNewTurn ==
    ASSUME World, sess' = AllClosed, \A r \in Runs : SameRun(run[r], run'[r])
    PROVE  NoNewTurn(run', sess')
<1>1. ASSUME NEW m \in 1 .. MaxSessions PROVE Fewer(sess[m], sess'[m])
  <2>1. sess'[m] = IF Live(m) THEN Shut(m)[m] ELSE sess[m] BY DEF AllClosed
  <2>2. CASE Live(m)
    <3>1. sess'[m] = [sess[m] EXCEPT !.life = "closed", !.queue = <<>>, !.active = FALSE]
      BY <2>1, <2>2 DEF Shut, World, StoreTyped
    <3>2. sess'[m].queue = <<>> BY <3>1, Typed DEF Conversations
    <3> QED BY <3>2, EmptyShrinks
  <2>3. CASE ~Live(m) BY <2>1, <2>3, SameSession
  <2> QED BY <2>2, <2>3
<1> QED BY <1>1, QueuesShrink

LEMMA SessionNoNewTurn ==
    ASSUME World, NEW n \in 1 .. MaxSessions, Session(n)
    PROVE  NoNewTurn(run', sess')
<1>1. sess[n] \in Conversations /\ SessionOK(n, sess[n], run) /\ sess[n].queue \in Seq(0 .. MaxRuns)
  BY Typed
<1>2. CASE TakeTurn(n)
  <2>0. PICK z : z = [sess[n] EXCEPT !.active = TRUE] OBVIOUS
  <2>1. sess' = [sess EXCEPT ![n] = z] BY <1>2, <2>0 DEF TakeTurn
  <2>2. z.life = sess[n].life /\ z.queue = sess[n].queue BY <1>1, <2>0 DEF Conversations
  <2>3. Fewer(sess[n], z) BY <2>2 DEF Fewer
  <2>4. ASSUME NEW r \in Runs PROVE SameRun(run[r], run'[r])
    <3>1. run'[r] = run[r] \/ run'[r] = [run[r] EXCEPT !.rec = "follow"] BY <1>2 DEF TakeTurn
    <3>2. run[r] \in Submitted BY Typed
    <3> QED BY <3>1, <3>2 DEF SameRun, Submitted
  <2> QED BY <2>1, <2>3, <2>4, OneQueueShrinks
<1>3. ASSUME NEW e \in {"result", "error"}, EndTurn(n, e) PROVE NoNewTurn(run', sess')
  <2>0. PICK a : a = Tail(sess[n].queue) OBVIOUS
  <2>00. PICK z : z = [sess[n] EXCEPT !.active = FALSE, !.queue = a] OBVIOUS
  <2>1. sess' = [sess EXCEPT ![n] = z] /\ sess[n].active BY <1>3, <2>0, <2>00 DEF EndTurn
  <2>2. z.life = sess[n].life /\ z.queue = a /\ sess[n].queue # <<>>
    BY <1>1, <2>00, <2>1 DEF Conversations, SessionOK
  <2>3. ASSUME NEW j \in DOMAIN a PROVE \E k \in DOMAIN sess[n].queue : sess[n].queue[k] = a[j]
    <3>1. /\ DOMAIN a = 1 .. Len(sess[n].queue) - 1 /\ DOMAIN sess[n].queue = 1 .. Len(sess[n].queue)
          /\ a[j] = sess[n].queue[j + 1] /\ Len(sess[n].queue) \in Nat
      BY <1>1, <2>0, <2>2, TurnsTail
    <3>2. j + 1 \in DOMAIN sess[n].queue BY <3>1
    <3> QED BY <3>1, <3>2
  <2>4. Fewer(sess[n], z) BY <2>2, <2>3 DEF Fewer
  <2>5. ASSUME NEW r \in Runs PROVE SameRun(run[r], run'[r])
    <3>1. \E x, y : run'[r] = [run[r] EXCEPT !.end = x, !.rec = y] BY <1>3 DEF EndTurn
    <3>2. run[r] \in Submitted BY Typed
    <3> QED BY <3>1, <3>2 DEF SameRun, Submitted
  <2> QED BY <2>1, <2>4, <2>5, OneQueueShrinks
<1>4. CASE UserTurn(n)
  <2>0. PICK a : a = Append(sess[n].queue, 0) OBVIOUS
  <2>00. PICK z : z = [sess[n] EXCEPT !.queue = a] OBVIOUS
  <2>1. sess' = [sess EXCEPT ![n] = z] /\ run' = run BY <1>4, <2>0, <2>00 DEF UserTurn
  <2>2. z.life = sess[n].life /\ z.queue = a BY <1>1, <2>00 DEF Conversations
  <2>3. ASSUME NEW j \in DOMAIN a, a[j] # 0 PROVE \E k \in DOMAIN sess[n].queue : sess[n].queue[k] = a[j]
    <3>0. PICK T : T = 0 .. MaxRuns OBVIOUS
    <3>1. sess[n].queue \in Seq(T) /\ 0 \in T BY <1>1, <3>0, BoundsAssumption
    <3>2. /\ DOMAIN a = 1 .. Len(sess[n].queue) + 1 /\ DOMAIN sess[n].queue = 1 .. Len(sess[n].queue)
          /\ a[Len(sess[n].queue) + 1] = 0 /\ \A k \in DOMAIN sess[n].queue : a[k] = sess[n].queue[k]
      BY <2>0, <3>1, AppendIs
    <3>3. Len(sess[n].queue) \in Nat BY <1>1
    <3>4. j \in DOMAIN sess[n].queue BY <2>3, <3>2, <3>3
    <3> QED BY <3>2, <3>4
  <2>4. Fewer(sess[n], z) BY <2>2, <2>3 DEF Fewer
  <2>5. \A r \in Runs : SameRun(run[r], run'[r]) BY <2>1 DEF SameRun
  <2> QED BY <2>1, <2>4, <2>5, OneQueueShrinks
<1>5. CASE Close(n)
  <2>1. n \in 0 .. MaxSessions /\ Shuts(n) BY <1>5 DEF Close
  <2> QED BY <2>1, ShutsNoNewTurn
<1>6. CASE Wake(n)
  <2>0. PICK z : z = [sess[n] EXCEPT !.life = "open"] OBVIOUS
  <2>1. sess' = [sess EXCEPT ![n] = z] /\ run' = run /\ sess[n].life = "closed" BY <1>6, <2>0 DEF Wake
  <2>2. z.queue = <<>> BY <1>1, <2>0, <2>1 DEF Conversations, SessionOK
  <2>3. \A r \in Runs : SameRun(run[r], run'[r]) BY <2>1 DEF SameRun
  <2> QED BY <2>1, <2>2, <2>3, EmptyShrinks, OneQueueShrinks
<1> QED BY <1>2, <1>3, <1>4, <1>5, <1>6 DEF Session

\* The steps that are not a firing's.
Others ==
    \/ TickStep \/ Stop \/ Down \/ Restart \/ Crash \/ (\E r \in Runs : Recorder(r))
    \/ (\E n \in 1 .. MaxSessions : Session(n)) \/ (\E s \in Scheds : Route(s))
LEMMA OtherNoNewTurn ==
    ASSUME World, Others
    PROVE  NoNewTurn(run', sess')
<1>0. ASSUME run' = run, sess' = sess PROVE NoNewTurn(run', sess') BY <1>0 DEF NoNewTurn, SameRun
<1>00. ASSUME sess' = sess, \A p \in Runs : SameRun(run[p], run'[p]) PROVE NoNewTurn(run', sess')
  <2>1. \A m \in 1 .. MaxSessions : Fewer(sess[m], sess'[m]) BY <1>00, SameSession
  <2> QED BY <1>00, <2>1, QueuesShrink
<1>1. CASE TickStep BY <1>0, <1>1 DEF TickStep, TickWakes, TickNext, TickEnds
<1>2. CASE Stop BY <1>0, <1>2 DEF Stop
<1>3. CASE Down
  <2>1. \A p \in Runs : SameRun(run[p], run'[p]) BY <1>3 DEF Down, SameRun
  <2> QED BY <1>3, <2>1, AllShutNoNewTurn DEF Down
<1>4. CASE Restart BY <1>0, <1>4 DEF Restart
<1>5. CASE Crash
  <2>1. ASSUME NEW p \in Runs PROVE SameRun(run[p], run'[p])
    <3>1. run'[p] = run[p] \/ run'[p] = [run[p] EXCEPT !.rec = "over"] BY <1>5 DEF Crash
    <3>2. run[p] \in Submitted BY Typed
    <3> QED BY <3>1, <3>2 DEF SameRun, Submitted
  <2> QED BY <1>5, <2>1, AllShutNoNewTurn DEF Crash
<1>6. ASSUME NEW r \in Runs, Recorder(r) PROVE NoNewTurn(run', sess')
  <2>1. sess' = sess /\ run' = [run EXCEPT ![r].rec = "over", ![r].file = TRUE]
    BY <1>6 DEF Recorder, RecorderEnds, TimesOut, Interrupted, Finish
  <2>2. ASSUME NEW p \in Runs PROVE SameRun(run[p], run'[p])
    <3>1. run[p] \in Submitted BY Typed
    <3> QED BY <2>1, <3>1 DEF SameRun, Submitted, World, StoreTyped
  <2> QED BY <1>00, <2>1, <2>2
<1>7. ASSUME NEW n \in 1 .. MaxSessions, Session(n) PROVE NoNewTurn(run', sess')
  BY <1>7, SessionNoNewTurn
<1>8. ASSUME NEW s \in Scheds, Route(s) PROVE NoNewTurn(run', sess')
  <2>1. CASE Delete(s)
    <3>1. sess' = sess BY <2>1 DEF Delete, Edit
    <3>2. ASSUME NEW p \in Runs PROVE SameRun(run[p], run'[p])
      <4>1. run'[p] = run[p] \/ run'[p] = [run[p] EXCEPT !.file = FALSE] BY <2>1 DEF Delete
      <4>2. run[p] \in Submitted BY Typed
      <4> QED BY <4>1, <4>2 DEF SameRun, Submitted
    <3> QED BY <1>00, <3>1, <3>2
  <2>2. CASE ~Delete(s)
    BY <1>0, <1>8, <2>2 DEF Route, Create, Enable, Respec, SlotComes, Edit, Elsewhere
  <2> QED BY <2>1, <2>2
<1> QED BY <1>1, <1>2, <1>3, <1>4, <1>5, <1>6, <1>7, <1>8 DEF Others

\* Neither what a schedule remembers nor its session changes with them.
SameSchedule(x, y) == y.session = x.session /\ y.worked = x.worked
SameSchedules(ss) == \A s \in Scheds : SameSchedule(sched[s], ss[s])
LEMMA OtherSameSchedules ==
    ASSUME World, Others
    PROVE  SameSchedules(sched')
<1> USE DEF SameSchedules, SameSchedule
<1>0. ASSUME sched' = sched PROVE SameSchedules(sched') BY <1>0
<1>1. CASE TickStep \/ Stop \/ Down
  BY <1>0, <1>1 DEF TickStep, TickWakes, TickNext, TickEnds, Stop, Down
<1>2. CASE Restart \/ Crash
  <2>1. ASSUME NEW q \in Scheds PROVE SameSchedule(sched[q], sched'[q])
    <3>1. sched[q] \in Schedules BY Typed
    <3> QED BY <1>2, <3>1 DEF Restart, Crash, Loads, Schedules
  <2> QED BY <2>1
<1>3. ASSUME NEW r \in Runs, Recorder(r) PROVE SameSchedules(sched')
  <2>1. PICK y : sched' = [sched EXCEPT ![run[r].s].runs = y]
    BY <1>3 DEF Recorder, RecorderEnds, TimesOut, Interrupted, Finish, Updated
  <2>2. ASSUME NEW q \in Scheds PROVE SameSchedule(sched[q], sched'[q])
    BY <2>1, Typed DEF World, StoreTyped, Schedules
  <2> QED BY <2>2
<1>4. ASSUME NEW n \in 1 .. MaxSessions, Session(n) PROVE SameSchedules(sched')
  BY <1>0, <1>4 DEF Session, TakeTurn, EndTurn, UserTurn, Close, Wake
<1>5. ASSUME NEW s \in Scheds, Route(s) PROVE SameSchedules(sched')
  <2>1. ASSUME NEW y, SameSchedule(sched[s], y), sched' = [sched EXCEPT ![s] = y]
        PROVE  SameSchedules(sched')
    BY <2>1 DEF World, StoreTyped
  <2>2. sched[s] \in Schedules BY Typed
  <2>3. CASE Create(s)
    <3>1. PICK on \in BOOLEAN : sched' = [sched EXCEPT ![s] = [sched[s] EXCEPT !.life = "kept", !.enabled = on]]
      BY <2>3 DEF Create, Edit
    <3>2. PICK y : y = [sched[s] EXCEPT !.life = "kept", !.enabled = on] OBVIOUS
    <3> QED BY <2>1, <2>2, <3>1, <3>2 DEF Schedules
  <2>4. ASSUME NEW on \in BOOLEAN, Enable(s, on) PROVE SameSchedules(sched')
    <3>1. PICK y : y = [sched[s] EXCEPT !.enabled = on] OBVIOUS
    <3>2. sched' = [sched EXCEPT ![s] = y] BY <2>4, <3>1 DEF Enable, Edit
    <3> QED BY <2>1, <2>2, <3>1, <3>2 DEF Schedules
  <2>5. CASE Respec(s)
    <3>1. PICK y : y = [sched[s] EXCEPT !.due = FALSE] OBVIOUS
    <3>2. sched' = [sched EXCEPT ![s] = y] BY <2>5, <3>1 DEF Respec, Edit
    <3> QED BY <2>1, <2>2, <3>1, <3>2 DEF Schedules
  <2>6. CASE Delete(s)
    <3>1. PICK y : y = [sched[s] EXCEPT !.life = "gone"] OBVIOUS
    <3>2. sched' = [sched EXCEPT ![s] = y] BY <2>6, <3>1 DEF Delete, Edit
    <3> QED BY <2>1, <2>2, <3>1, <3>2 DEF Schedules
  <2>7. CASE SlotComes(s)
    <3>1. PICK y : y = [sched[s] EXCEPT !.due = TRUE] OBVIOUS
    <3>2. sched' = [sched EXCEPT ![s] = y] BY <2>7, <3>1 DEF SlotComes
    <3> QED BY <2>1, <2>2, <3>1, <3>2 DEF Schedules
  <2> QED BY <1>5, <2>3, <2>4, <2>5, <2>6, <2>7 DEF Route
<1> QED BY <1>1, <1>2, <1>3, <1>4, <1>5 DEF Others

\* They leave the firing where it is, or take it to where it has passed no check.
AtRest == {"idle", "next", "start", "ended"}
LEMMA OtherAtRest ==
    ASSUME World, Loop, Others
    PROVE  \/ fire' = fire /\ item' = item
           \/ fire'[Tick].pc \in AtRest /\ fire[Tick].pc # "record"
<1>1. Tick \in Firers /\ fire \in [Firers -> Firings] /\ LoopOK BY DEF Firers, Loop, FiringsTyped
<1>2. CASE TickWakes
  <2>1. fire'[Tick].pc = "next" BY <1>1, <1>2 DEF TickWakes, Goes, Idle
  <2> QED BY <1>2, <2>1 DEF TickWakes, AtRest
<1>3. ASSUME NEW s \in Scheds, TickNext(s) PROVE fire'[Tick].pc \in AtRest /\ fire[Tick].pc # "record"
  <2>1. fire'[Tick].pc = "start" BY <1>1, <1>3 DEF TickNext, Goes, Idle
  <2> QED BY <1>3, <2>1 DEF TickNext, At, AtRest
<1>4. CASE TickEnds
  <2>1. fire'[Tick].pc = "idle" BY <1>1, <1>4 DEF TickEnds, Awaits, Idle
  <2> QED BY <1>4, <2>1 DEF TickEnds, At, AtRest
<1>5. CASE Stop
  <2>1. fire'[Tick].pc = "ended" BY <1>1, <1>5 DEF Stop, Idle
  <2>2. cpu # Tick BY <1>1, <1>5, NamesAssumption DEF Stop
  <2> QED BY <1>1, <2>1, <2>2 DEF AtRest, LoopOK, OnLoop
<1>6. CASE Restart \/ Crash
  <2>1. fire'[Tick].pc = "idle" BY <1>1, <1>6 DEF Restart, Crash, Loads, Idle
  <2>2. cpu # Tick \/ server # "up" BY <1>1, <1>6, NamesAssumption DEF Restart, Crash
  <2> QED BY <1>1, <2>1, <2>2 DEF AtRest, LoopOK, OnLoop
<1>7. CASE Down BY <1>7 DEF Down
<1>8. ASSUME NEW r \in Runs, Recorder(r) PROVE fire' = fire /\ item' = item
  BY <1>8 DEF Recorder, RecorderEnds, TimesOut, Interrupted, Finish
<1>9. ASSUME NEW n \in 1 .. MaxSessions, Session(n) PROVE fire' = fire /\ item' = item
  BY <1>9 DEF Session, TakeTurn, EndTurn, UserTurn, Close, Wake, Elsewhere
<1>10. ASSUME NEW s \in Scheds, Route(s) PROVE fire' = fire /\ item' = item
  BY <1>10 DEF Route, Create, Enable, Respec, Delete, SlotComes, Edit, Elsewhere
<1> QED BY <1>2, <1>3, <1>4, <1>5, <1>6, <1>7, <1>8, <1>9, <1>10 DEF Others, TickStep

-----------------------------------------------------------------------------
(* One run of a schedule at a time.                                        *)

LEMMA AloneKeeps ==
    ASSUME World, Alone, NoNewTurn(run', sess'), \A s \in Scheds : sched'[s].session = sched[s].session,
           Unfired(fire'[Tick])
    PROVE  Alone'
<1>1. ASSUME NEW r \in Runs, OnQueue(r, run'[r], sess'), run'[r].s # NoOne
      PROVE  run'[r].session = sched'[run'[r].s].session
  <2>1. OnQueue(r, run[r], sess) /\ SameRun(run[r], run'[r]) BY <1>1 DEF NoNewTurn
  <2>2. run[r].s \in Scheds BY <1>1, <2>1, Typed DEF Submitted, SameRun
  <2> QED BY <1>1, <2>1, <2>2 DEF Alone, SameRun
<1>2. Unfired(fire[Tick])' BY DEF Unfired, NoNewTurn, SameRun
<1> QED BY <1>1, <1>2 DEF Alone

LEMMA UnfiredStays ==
    ASSUME Unfired(fire[Tick]), NEW h, h.pc \in Starting => fire[Tick].pc \in Starting /\ h.s = fire[Tick].s
    PROVE  Unfired(h)
BY DEF Unfired

\* A firing that finds its schedule's session idle.
LEMMA IdleUnfired ==
    ASSUME World, Alone, NEW s \in Scheds, ~Busy(sched[s].session), NEW h, h.s = s
    PROVE  Unfired(h)
<1> SUFFICES ASSUME NEW r \in Runs, OnQueue(r, run[r], sess), run[r].s = s PROVE FALSE
  BY DEF Unfired
<1>1. run[r].session = sched[s].session BY NamesAssumption DEF Alone
<1>2. Live(sched[s].session) BY <1>1 DEF OnQueue, Live
<1>3. sess[sched[s].session].queue # <<>> BY <1>1, NoneIn DEF OnQueue
<1> QED BY <1>2, <1>3 DEF Busy

\* A firing that only goes on.
OnlyGoes(h) == fire' = [fire EXCEPT ![Tick] = h] /\ UNCHANGED <<sched, sess, run>>
LEMMA GoesAlone ==
    ASSUME World, Alone, Tick \in Firers, fire \in [Firers -> Firings], NEW h, OnlyGoes(h), Unfired(h)
    PROVE  Alone'
<1>1. fire'[Tick] = h BY DEF OnlyGoes
<1>2. NoNewTurn(run', sess') BY DEF OnlyGoes, NoNewTurn, SameRun
<1> QED BY <1>1, <1>2, AloneKeeps DEF OnlyGoes

\* The run of a firing that passed its check is the only one of its schedule.
LEMMA GivenAlone ==
    ASSUME World, Alone, NEW n \in 1 .. MaxSessions, NEW r \in Runs, NEW z, NEW x, Given(n, z, r, x),
           fire[Tick].pc \in Starting, x.s = fire[Tick].s,
           \A s \in Scheds : sched'[s].session = IF s = x.s THEN n ELSE sched[s].session,
           fire'[Tick].pc \notin Starting
    PROVE  Alone'
<1>1. ASSUME NEW p \in Runs, OnQueue(p, run'[p], sess'), run'[p].s # NoOne
      PROVE  run'[p].session = sched'[run'[p].s].session
  <2>1. /\ sess'[n] = z /\ z.queue = <<r>> /\ \A m \in 1 .. MaxSessions : m # n => sess'[m] = sess[m]
        /\ run'[r] = x /\ \A q \in Runs : q # r => run'[q] = run[q]
        /\ x.s \in Scheds /\ x.session = n
    BY DEF Given, World, StoreTyped
  <2>2. CASE p = r BY <2>1, <2>2
  <2>3. CASE p # r
    <3>1. run'[p] = run[p] /\ run[p].session \in 0 .. MaxSessions /\ run[p].s \in Scheds
      BY <1>1, <2>1, <2>3, Typed DEF Submitted
    <3>2. run[p].session # n
      <4>1. DOMAIN <<r>> = {1} /\ <<r>>[1] = r OBVIOUS
      <4> QED BY <1>1, <2>1, <2>3, <3>1, <4>1 DEF OnQueue
    <3>3. run[p].session \in 1 .. MaxSessions BY <1>1, <3>1, BoundsAssumption DEF OnQueue
    <3>4. OnQueue(p, run[p], sess) BY <1>1, <2>1, <3>1, <3>2, <3>3 DEF OnQueue
    <3>5. run[p].s # x.s BY <3>4 DEF Alone, Unfired
    <3> QED BY <1>1, <3>1, <3>4, <3>5 DEF Alone
  <2> QED BY <2>2, <2>3
<1>2. Unfired(fire[Tick])' BY DEF Unfired
<1> QED BY <1>1, <1>2 DEF Alone

LEMMA FiringAlone ==
    ASSUME World, Loop, Alone, Firing(Tick)
    PROVE  Alone'
<1>1. /\ Tick \in Firers /\ fire \in [Firers -> Firings] /\ fire[Tick] \in Firings
      /\ FiringOK(fire[Tick]) /\ Unfired(fire[Tick])
  BY DEF Firers, Loop, FiringsTyped, Alone
<1>2. ASSUME NEW h, OnlyGoes(h), h.pc \in Starting => fire[Tick].pc \in Starting, h.s = fire[Tick].s
      PROVE  Alone'
  BY <1>1, <1>2, UnfiredStays, GoesAlone
<1>3. CASE StartTurn(Tick) \/ StartWork(Tick) \/ StartCrew(Tick)
  <2>1. PICK h : /\ OnlyGoes(h)
                 /\ \/ h = [fire[Tick] EXCEPT !.pc = "create"]
                    \/ h = [fire[Tick] EXCEPT !.pc = "plan"]
                    \/ \E n : h = [fire[Tick] EXCEPT !.pc = "submit", !.session = n]
                    \/ \E n : h = [fire[Tick] EXCEPT !.pc = "list", !.session = n]
    BY <1>3 DEF StartTurn, StartWork, StartCrew, Goes, Awaits, OnlyGoes
  <2>2. h.s = fire[Tick].s BY <1>1, <2>1 DEF Firings
  <2>3. fire[Tick].s \in Scheds /\ ~Busy(sched[fire[Tick].s].session)
    BY <1>3 DEF StartTurn, StartWork, StartCrew, Scheds
  <2>4. Unfired(h) BY <2>2, <2>3, IdleUnfired
  <2> QED BY <1>1, <2>1, <2>4, GoesAlone
<1>4. CASE NotStarted(Tick)
  <2>1. PICK h : h = [fire[Tick] EXCEPT !.pc = "record", !.status = "skipped"] OBVIOUS
  <2>2. h.pc = "record" /\ h.s = fire[Tick].s BY <1>1, <2>1 DEF Firings
  <2>3. OnlyGoes(h) BY <1>4, <2>1 DEF NotStarted, Goes, OnlyGoes
  <2> QED BY <1>2, <2>2, <2>3 DEF Starting
<1>5. CASE (\E i \in Issues : Pick(Tick, i)) \/ Fetched(Tick) \/ OldClosed(Tick) \/ Planned(Tick)
  <2>1. PICK h : /\ OnlyGoes(h)
                 /\ \/ h = [fire[Tick] EXCEPT !.pc = "checkout"]
                    \/ h = [fire[Tick] EXCEPT !.pc = "launch"]
                    \/ h = [fire[Tick] EXCEPT !.pc = "create", !.session = 0]
                    \/ \E i : h = [fire[Tick] EXCEPT !.pc = "fetch", !.issue = i]
    BY <1>5 DEF Pick, Fetched, OldClosed, Planned, Awaits, OnlyGoes
  <2>2. h.s = fire[Tick].s BY <1>1, <2>1 DEF Firings
  <2>3. fire[Tick].pc \in Starting BY <1>5 DEF Pick, Fetched, OldClosed, Planned, At, Starting
  <2> QED BY <1>2, <2>1, <2>2, <2>3
<1>6. CASE IssueClosed(Tick)
  <2>1. PICK h : h = [fire[Tick] EXCEPT !.pc = "record", !.status = "skipped"] OBVIOUS
  <2>2. h.pc = "record" BY <1>1, <2>1 DEF Firings
  <2>3. fire'[Tick] = h BY <1>1, <1>6, <2>1 DEF IssueClosed, Goes
  <2>4. \A s \in Scheds : sched'[s].session = sched[s].session
    BY <1>6 DEF IssueClosed, World, StoreTyped, Schedules
  <2>5. NoNewTurn(run', sess') BY <1>6 DEF IssueClosed, NoNewTurn, SameRun
  <2>6. Unfired(h) BY <2>2 DEF Unfired, Starting
  <2> QED BY <2>3, <2>4, <2>5, <2>6, AloneKeeps
<1>7. CASE Prepared(Tick)
  <2>1. PICK h : h = [fire[Tick] EXCEPT !.pc = IF fire[Tick].session # 0 THEN "close" ELSE "create"]
    OBVIOUS
  <2>2. h.s = fire[Tick].s BY <1>1, <2>1 DEF Firings
  <2>3. fire'[Tick] = h /\ Shuts(fire[Tick].session) /\ sched' = sched /\ fire[Tick].pc = "checkout"
    BY <1>1, <1>7, <2>1 DEF Prepared, Awaits, At
  <2>4. fire[Tick].session \in 0 .. MaxSessions BY <1>1 DEF Firings
  <2>5. NoNewTurn(run', sess') BY <2>3, <2>4, ShutsNoNewTurn
  <2>6. fire[Tick].pc \in Starting BY <2>3 DEF Starting
  <2>7. Unfired(h) BY <1>1, <2>2, <2>6, UnfiredStays
  <2> QED BY <2>3, <2>5, <2>7, AloneKeeps
<1>8. CASE Created(Tick)
  <2>1. PICK n \in NewSession : /\ fire' = [fire EXCEPT ![Tick] = [fire[Tick] EXCEPT !.pc = "first", !.session = n]]
                                /\ sess' = [sess EXCEPT ![n].life = "open"] /\ run' = run
                                /\ sched' = [sched EXCEPT ![fire[Tick].s].session = n]
                                /\ fire[Tick].pc = "create"
    BY <1>8 DEF Created, Goes, At
  <2>2. n \in 1 .. MaxSessions /\ sess[n] \in Conversations /\ sess[n].queue = <<>>
    BY Typed DEF NewSession, SessionOK
  <2>3. PICK z : z = [sess[n] EXCEPT !.life = "open"] OBVIOUS
  <2>4. z.queue = <<>> BY <2>2, <2>3 DEF Conversations
  <2>5. sess' = [sess EXCEPT ![n] = z] BY <2>1, <2>3
  <2>6. \A r \in Runs : SameRun(run[r], run'[r]) BY <2>1 DEF SameRun
  <2>7. NoNewTurn(run', sess') BY <2>2, <2>4, <2>5, <2>6, EmptyShrinks, OneQueueShrinks
  <2>8. fire'[Tick].s = fire[Tick].s BY <1>1, <2>1 DEF Firings
  <2>9. fire[Tick].pc \in Starting /\ fire[Tick].s \in Scheds BY <1>1, <2>1 DEF Starting, FiringOK
  <2>10. Unfired(fire'[Tick]) BY <1>1, <2>8, <2>9, UnfiredStays
  <2>11. ASSUME NEW r \in Runs, OnQueue(r, run'[r], sess'), run'[r].s # NoOne
         PROVE  run'[r].session = sched'[run'[r].s].session
    <3>1. OnQueue(r, run[r], sess) /\ run'[r] = run[r] BY <2>1, <2>7, <2>11 DEF NoNewTurn
    <3>2. run[r].s # fire[Tick].s BY <1>1, <2>9, <3>1 DEF Unfired
    <3>3. run[r].s \in Scheds BY <2>11, <3>1, Typed DEF Submitted
    <3>4. sched'[run[r].s] = sched[run[r].s] BY <2>1, <3>2, <3>3 DEF World, StoreTyped
    <3> QED BY <2>11, <3>1, <3>4 DEF Alone
  <2>12. Unfired(fire[Tick])' BY <2>7, <2>10 DEF Unfired, NoNewTurn, SameRun
  <2> QED BY <2>11, <2>12 DEF Alone
<1>9. CASE Submit(Tick)
  <2>1. PICK n, r, z, x : Submits(Tick, n, r, z, x) BY <1>1, <1>9, SubmitGives
  <2>2. fire[Tick].pc \in {"first", "submit"} /\ fire'[Tick].pc = "record"
    BY <1>1, <1>9 DEF Submit, At, Goes, Firings
  <2>3. /\ n \in 1 .. MaxSessions /\ r \in Runs /\ Given(n, z, r, x) /\ x.s = fire[Tick].s /\ sched' = sched
        /\ n = fire[Tick].session
    BY <2>1 DEF Submits, MadeOf
  <2>4. sched[fire[Tick].s].session = n BY <1>1, <2>2, <2>3 DEF Loop, Poised, Ready
  <2>5. \A s \in Scheds : sched'[s].session = IF s = x.s THEN n ELSE sched[s].session BY <2>3, <2>4
  <2>6. fire[Tick].pc \in Starting /\ fire'[Tick].pc \notin Starting BY <2>2 DEF Starting
  <2> QED BY <2>3, <2>5, <2>6, GivenAlone
<1>10. CASE Launched(Tick)
  <2>1. PICK n \in NewSession, r \in NewRun :
          /\ fire[Tick].pc = "launch" /\ Made(Tick, r, n, "wait")
          /\ sess' = [sess EXCEPT ![n] = [NoSession EXCEPT !.life = "open", !.crew = TRUE,
                                                           !.queue = <<r>>]]
          /\ sched' = [sched EXCEPT ![fire[Tick].s].session = n]
          /\ Goes(Tick, [fire[Tick] EXCEPT !.pc = "record", !.run = r, !.status = "submitted"])
    BY <1>10 DEF Launched, At
  <2>2. fire[Tick].s \in Crewed BY <1>1, <2>1 DEF FiringOK
  <2>3. PICK z, x : Launches(Tick, n, r, z, x) BY <1>1, <2>1, <2>2, LaunchGives
  <2>4. n \in 1 .. MaxSessions /\ r \in Runs BY DEF NewSession, NewRun
  <2>5. Given(n, z, r, x) /\ x.s = fire[Tick].s BY <2>3 DEF Launches, MadeOf
  <2>6. fire'[Tick].pc = "record" BY <1>1, <2>1 DEF Goes, Firings
  <2>7. ASSUME NEW s \in Scheds PROVE sched'[s].session = IF s = x.s THEN n ELSE sched[s].session
    BY <2>1, <2>5, Typed DEF World, StoreTyped, Schedules
  <2>8. fire[Tick].pc \in Starting /\ fire'[Tick].pc \notin Starting BY <2>1, <2>6 DEF Starting
  <2> QED BY <2>4, <2>5, <2>7, <2>8, GivenAlone
<1>11. CASE Record(Tick)
  <2>1. fire'[Tick].pc = "next" BY <1>1, <1>11 DEF Record, Advanced, Goes, Idle
  <2>2. \A s \in Scheds : sched'[s].session = sched[s].session
    BY <1>11 DEF Record, Advanced, World, StoreTyped, Schedules
  <2>3. NoNewTurn(run', sess') BY <1>11 DEF Record, Advanced, NoNewTurn, SameRun
  <2>4. Unfired(fire'[Tick]) BY <2>1 DEF Unfired, Starting
  <2> QED BY <2>2, <2>3, <2>4, AloneKeeps
<1> QED BY <1>3, <1>4, <1>5, <1>6, <1>7, <1>8, <1>9, <1>10, <1>11 DEF Firing

LEMMA AloneStep ==
    ASSUME Runners = {}, IInv, Alone, [Next]_vars
    PROVE  Alone'
<1>1. World /\ Loop /\ Firers = {Tick} BY DEF IInv, Firers
<1>2. CASE Others
  <2>1. NoNewTurn(run', sess') /\ \A s \in Scheds : sched'[s].session = sched[s].session
    BY <1>1, <1>2, OtherNoNewTurn, OtherSameSchedules DEF SameSchedules, SameSchedule
  <2>2. Unfired(fire'[Tick])
    BY <1>1, <1>2, OtherAtRest DEF Alone, Unfired, Starting, AtRest
  <2> QED BY <1>1, <2>1, <2>2, AloneKeeps
<1>3. CASE Firing(Tick) BY <1>1, <1>3, FiringAlone
<1>4. CASE UNCHANGED vars
  BY <1>4 DEF vars, Alone, Unfired, OnQueue
<1> QED BY <1>1, <1>2, <1>3, <1>4 DEF Next, Others

LEMMA AlwaysAlone ==
    ASSUME Runners = {}
    PROVE  Spec => []Alone
<1>1. Init => Alone
  <2> SUFFICES ASSUME Init PROVE Alone OBVIOUS
  <2>1. Tick \in Firers BY DEF Firers
  <2>2. fire[Tick].pc = "idle" /\ \A r \in Runs : run[r].s = NoOne
    BY <2>1 DEF Init, Idle, NoRun
  <2> QED BY <2>2 DEF Alone, Unfired, Starting
<1>2. IInv /\ Alone /\ [Next]_vars => Alone' BY AloneStep
<1> QED BY <1>1, <1>2, Always, PTL DEF Spec

\* "A schedule whose previous run is still in progress is skipped for this slot":
\* the tick never puts a second turn of a schedule behind its first, over user
\* turns, closed and woken sessions, removals, restarts and crashes, as long as
\* no request fires the schedule as well (Scheduler._start, tick).
THEOREM OneRun ==
    ASSUME Runners = {}
    PROVE  Spec => []OneRunAtATime
<1>1. IInv /\ Alone => OneRunAtATime
  <2> SUFFICES ASSUME IInv, Alone, NEW s \in Scheds PROVE Cardinality(InProgress(s)) <= 1
    BY DEF OneRunAtATime
  <2>1. ASSUME NEW p \in InProgress(s), NEW q \in InProgress(s) PROVE p = q
    <3> DEFINE n == sched[s].session
    <3>1. ASSUME NEW r \in InProgress(s)
          PROVE  n \in 1 .. MaxSessions /\ r # 0 /\ \E j \in DOMAIN sess[n].queue : sess[n].queue[j] = r
      <4>1. r \in Runs /\ run[r].s = s /\ Live(run[r].session) /\ Contains(sess[run[r].session].queue, r)
        BY DEF InProgress
      <4>2. run[r].session \in 1 .. MaxSessions
        BY <4>1, Typed, BoundsAssumption DEF IInv, Submitted, Live
      <4>3. sess[run[r].session].queue \in Seq(0 .. MaxRuns) BY <4>2, Typed DEF IInv
      <4>4. \E j \in DOMAIN sess[run[r].session].queue : sess[run[r].session].queue[j] = r
        BY <4>1, <4>3 DEF Contains
      <4>5. OnQueue(r, run[r], sess) BY <4>1, <4>4 DEF OnQueue, Live
      <4>6. run[r].session = n BY <4>1, <4>5, NamesAssumption DEF Alone
      <4> QED BY <4>1, <4>2, <4>4, <4>6 DEF Runs
    <3>2. n \in 1 .. MaxSessions /\ p # 0 /\ q # 0 BY <3>1
    <3>3. SessionOK(n, sess[n], run) BY <3>2, Typed DEF IInv
    <3>4. PICK j \in DOMAIN sess[n].queue : sess[n].queue[j] = p BY <3>1
    <3>5. PICK k \in DOMAIN sess[n].queue : sess[n].queue[k] = q BY <3>1
    <3> QED BY <3>2, <3>3, <3>4, <3>5 DEF SessionOK
  <2>2. CASE InProgress(s) = {}
    <3>1. Cardinality({}) = 0 BY FS_EmptySet
    <3> QED BY <2>2, <3>1
  <2>3. CASE \E p : InProgress(s) = {p}
    <3>1. PICK p : InProgress(s) = {p} BY <2>3
    <3>2. Cardinality({p}) = 1 BY FS_Singleton
    <3> QED BY <3>1, <3>2
  <2>4. InProgress(s) = {} \/ \E p : InProgress(s) = {p}
    <3>1. ASSUME NEW p \in InProgress(s) PROVE InProgress(s) = {p} BY <2>1
    <3> QED BY <3>1
  <2> QED BY <2>2, <2>3, <2>4
<1> QED BY <1>1, Always, AlwaysAlone, PTL

-----------------------------------------------------------------------------
(* An issue is attempted once.                                             *)

\* Nothing a schedule remembers is forgotten, or remembered twice.
Recalls(w, v) == Distinct(v) /\ \A i : Had(w, i) => Had(v, i)
LEMMA IssueOnceStays ==
    ASSUME World, IssueOnce, \A r \in Runs : SameRun(run[r], run'[r])
    PROVE  IssueOnce'
BY DEF IssueOnce, SameRun

\* A run with an issue is a run of a schedule.
LEMMA IssueOfRun ==
    ASSUME World, NEW r \in Runs, run[r].issue # NoIssue
    PROVE  run[r].s \in Scheds
<1>1. run[r] \in Submitted /\ RunOK(r, run[r], sess) BY Typed
<1>2. NoRun.issue = NoIssue BY DEF NoRun
<1> QED BY <1>1, <1>2 DEF RunOK, Submitted

LEMMA AttemptedRests ==
    ASSUME World, Attempted, \A r \in Runs : SameRun(run[r], run'[r]), SameSchedules(sched'),
           fire' = fire, item' = item
    PROVE  Attempted'
<1>1. \A s \in Scheds : sched'[s].worked = sched[s].worked BY DEF SameSchedules, SameSchedule
<1>2. \A s \in Scheds : Distinct(sched'[s].worked) BY <1>1 DEF Attempted
<1>3. ASSUME NEW r \in Runs, run'[r].issue # NoIssue PROVE Remembered(run[r].s, run[r].issue)'
  <2>1. run[r].issue # NoIssue /\ run'[r].s = run[r].s /\ run'[r].issue = run[r].issue BY <1>3 DEF SameRun
  <2>2. run[r].s \in Scheds /\ Remembered(run[r].s, run[r].issue) BY <2>1, IssueOfRun DEF Attempted
  <2> QED BY <1>1, <2>1, <2>2 DEF Remembered
<1>4. Untaken(fire[Tick])' /\ Noted(fire[Tick], item)' BY DEF Attempted, Untaken, Noted, SameRun
<1> QED BY <1>2, <1>3, <1>4, IssueOnceStays DEF Attempted

LEMMA AttemptedMoves ==
    ASSUME World, Attempted, \A r \in Runs : SameRun(run[r], run'[r]),
           \A s \in Scheds : Recalls(sched[s].worked, sched'[s].worked),
           fire[Tick].pc # "record", Untaken(fire'[Tick]), Noted(fire'[Tick], item')
    PROVE  Attempted'
<1>1. \A s \in Scheds : Distinct(sched'[s].worked) BY DEF Recalls
<1>2. ASSUME NEW r \in Runs, run'[r].issue # NoIssue PROVE Remembered(run[r].s, run[r].issue)'
  <2>1. run[r].issue # NoIssue /\ run'[r].s = run[r].s /\ run'[r].issue = run[r].issue BY <1>2 DEF SameRun
  <2>2. run[r].s \in Scheds /\ Remembered(run[r].s, run[r].issue) BY <2>1, IssueOfRun DEF Attempted
  <2>3. Had(sched[run[r].s].worked, run[r].issue) BY <2>2 DEF Remembered
  <2>4. Had(sched'[run[r].s].worked, run[r].issue) BY <2>2, <2>3 DEF Recalls
  <2> QED BY <2>1, <2>4 DEF Remembered
<1>3. Untaken(fire[Tick])' /\ Noted(fire[Tick], item)' BY DEF Untaken, Noted, SameRun
<1> QED BY <1>1, <1>2, <1>3, IssueOnceStays DEF Attempted

\* The memory is as long as there are issues: marking one forgets none.
LEMMA DistinctFits ==
    ASSUME NEW w \in Seq(Issues), Distinct(w), IsFiniteSet(Issues), NEW i \in Issues, ~Had(w, i)
    PROVE  Len(w) < Cardinality(Issues)
<1> DEFINE T == Issues \ {i}
<1>1. IsFiniteSet(T) /\ Cardinality(T) = Cardinality(Issues) - 1 /\ Cardinality(Issues) \in Nat
  BY FS_RemoveElement, FS_CardinalityType
<1>2. Len(w) \in Nat /\ DOMAIN w = 1 .. Len(w) /\ \A j \in DOMAIN w : w[j] \in T BY DEF Had
<1>3. IsFiniteSet(1 .. Len(w)) /\ Cardinality(1 .. Len(w)) = Len(w)
  <2>1. PICK m \in Nat : m = Len(w) BY <1>2
  <2>2. Cardinality(1 .. m) = (IF 1 > m THEN 0 ELSE m - 1 + 1) /\ IsFiniteSet(1 .. m) BY FS_Interval
  <2>3. (IF 1 > m THEN 0 ELSE m - 1 + 1) = m OBVIOUS
  <2> QED BY <2>1, <2>2, <2>3
<1> DEFINE f == [j \in 1 .. Len(w) |-> w[j]]
<1>4. f \in [1 .. Len(w) -> T] BY <1>2
<1>5. ASSUME Cardinality(T) < Len(w) PROVE FALSE
  <2> HIDE DEF T, f
  <2>1. \E x, y \in 1 .. Len(w) : x # y /\ f[x] = f[y] BY <1>1, <1>3, <1>4, <1>5, FS_PigeonHole
  <2>2. PICK x \in 1 .. Len(w), y \in 1 .. Len(w) : x # y /\ f[x] = f[y] BY <2>1
  <2>3. w[x] = w[y] BY <2>2 DEF f
  <2> QED BY <1>2, <2>2, <2>3 DEF Distinct
<1> QED BY <1>1, <1>2, <1>5

LEMMA MarkedRecalls ==
    ASSUME World, Attempted, IsFiniteSet(Issues), Cardinality(Issues) <= MaxWorked,
           NEW s \in Scheds, NEW i \in Issues
    PROVE  Recalls(sched[s].worked, Marked(s, i)) /\ Had(Marked(s, i), i)
<1> DEFINE q == sched[s].worked
           a == Append(q, i)
           r == SubSeq(a, 1 + IF Len(a) > MaxWorked THEN 1 ELSE 0, Len(a))
<1>1. q \in Seq(Issues) /\ Distinct(q) /\ Len(q) <= MaxWorked
  BY Typed DEF World, StoreTyped, Schedules, Attempted
<1>2. MaxWorked \in Nat /\ MaxWorked > 0 /\ Cardinality(Issues) \in Nat
  BY BoundsAssumption, FS_CardinalityType
<1>3. a = Append(q, i) /\ r = SubSeq(a, 1 + IF Len(a) > MaxWorked THEN 1 ELSE 0, Len(a)) OBVIOUS
<1>4. Marked(s, i) = IF Contains(q, i) THEN q ELSE r BY DEF Marked
<1> HIDE DEF q, a, r
<1>5. Contains(q, i) <=> Had(q, i) BY <1>1 DEF Contains, Had
<1>6. CASE Had(q, i) BY <1>1, <1>4, <1>5, <1>6 DEF Recalls, q
<1>7. CASE ~Had(q, i)
  <2>1. Len(q) < MaxWorked /\ Len(q) \in Nat BY <1>1, <1>2, <1>7, DistinctFits
  <2>2. CutOf(Issues, MaxWorked, q, i, r) BY <1>1, <1>2, <1>3, CutIs
  <2>3. r = a BY <1>3, <2>1, <2>2 DEF CutOf
  <2>4. /\ DOMAIN a = 1 .. Len(q) + 1 /\ DOMAIN q = 1 .. Len(q)
        /\ a[Len(q) + 1] = i /\ \A j \in DOMAIN q : a[j] = q[j]
    BY <1>1, <1>3, AppendIs
  <2>5. Had(a, i) /\ \A e : Had(q, e) => Had(a, e) BY <2>1, <2>4 DEF Had
  <2>6. ASSUME NEW j \in DOMAIN a, NEW k \in DOMAIN a, a[j] = a[k] PROVE j = k
    <3>1. j \in DOMAIN q \/ j = Len(q) + 1 BY <2>1, <2>4
    <3>2. k \in DOMAIN q \/ k = Len(q) + 1 BY <2>1, <2>4
    <3> QED BY <1>1, <1>7, <2>4, <2>6, <3>1, <3>2 DEF Distinct, Had
  <2>7. Distinct(a) BY <2>6 DEF Distinct
  <2> QED BY <1>4, <1>5, <1>7, <2>3, <2>5, <2>7 DEF Recalls, q
<1> QED BY <1>6, <1>7

\* The run that is made has an issue no other run of its schedule had.
LEMMA MadeAttempted ==
    ASSUME World, Attempted, NEW r \in Runs, NEW x, run[r].s = NoOne, run' = [run EXCEPT ![r] = x],
           \A s \in Scheds : sched'[s].worked = sched[s].worked, item' = item,
           fire[Tick].pc \in {"first", "submit"} \/ (fire[Tick].pc = "launch" /\ fire[Tick].issue = NoIssue),
           fire[Tick].s \in Scheds, x.s = fire[Tick].s, x.issue = fire[Tick].issue,
           fire'[Tick].pc = "record", fire'[Tick].status # "skipped", fire'[Tick].s = fire[Tick].s
    PROVE  Attempted'
<1>1. run'[r] = x /\ \A p \in Runs : p # r => run'[p] = run[p] BY DEF World, StoreTyped
<1>2. \A s \in Scheds : Distinct(sched'[s].worked) BY DEF Attempted
<1>3. fire[Tick].pc \in Starting BY DEF Starting
<1>4. ASSUME NEW p \in Runs, run'[p].issue # NoIssue PROVE Remembered(run[p].s, run[p].issue)'
  <2>1. CASE p = r
    <3>1. item[fire[Tick].s] = fire[Tick].issue BY <1>1, <1>4, <2>1 DEF Attempted, Noted
    <3> QED BY <1>1, <2>1, <3>1 DEF Remembered
  <2>2. CASE p # r
    <3>1. run[p].s \in Scheds /\ Remembered(run[p].s, run[p].issue) BY <1>1, <1>4, <2>2, IssueOfRun DEF Attempted
    <3>2. Had(sched[run[p].s].worked, run[p].issue) BY <3>1 DEF Remembered
    <3> QED BY <1>1, <2>2, <3>1, <3>2 DEF Remembered
  <2> QED BY <2>1, <2>2
<1>5. \A p \in Runs : run[p].s = x.s /\ x.issue # NoIssue => run[p].issue # x.issue
  BY <1>3 DEF Attempted, Untaken
<1>6. IssueOnce'
  <2> SUFFICES ASSUME NEW p \in Runs, NEW q \in Runs, p # q, run'[p].s = run'[q].s,
                      run'[p].issue = run'[q].issue
               PROVE  run'[p].issue = NoIssue
    BY DEF IssueOnce
  <2>1. CASE p # r /\ q # r BY <1>1, <2>1 DEF Attempted, IssueOnce
  <2>2. CASE p = r BY <1>1, <1>5, <2>2
  <2>3. CASE q = r BY <1>1, <1>5, <2>3
  <2> QED BY <2>1, <2>2, <2>3
<1>7. Untaken(fire[Tick])' /\ Noted(fire[Tick], item)' BY DEF Untaken, Noted, Starting
<1> QED BY <1>2, <1>4, <1>6, <1>7 DEF Attempted

\* A firing that only goes on.
LEMMA GoesAttempted ==
    ASSUME World, Attempted, Tick \in Firers, fire \in [Firers -> Firings], NEW h, OnlyGoes(h),
           item' = item, fire[Tick].pc # "record", Untaken(h), Noted(h, item)
    PROVE  Attempted'
<1>1. fire'[Tick] = h BY DEF OnlyGoes
<1>2. \A r \in Runs : SameRun(run[r], run'[r]) BY DEF OnlyGoes, SameRun
<1>3. \A s \in Scheds : Recalls(sched[s].worked, sched'[s].worked) BY DEF OnlyGoes, Recalls, Attempted
<1> QED BY <1>1, <1>2, <1>3, AttemptedMoves

LEMMA FiringAttempted ==
    ASSUME World, Loop, Attempted, IsFiniteSet(Issues), Cardinality(Issues) <= MaxWorked, Firing(Tick)
    PROVE  Attempted'
<1>1. /\ Tick \in Firers /\ fire \in [Firers -> Firings] /\ fire[Tick] \in Firings
      /\ FiringOK(fire[Tick]) /\ Untaken(fire[Tick]) /\ Noted(fire[Tick], item)
      /\ item \in [Scheds -> Issues \cup {NoIssue}]
  BY DEF Firers, Loop, FiringsTyped, Attempted
<1>2. CASE StartTurn(Tick) \/ StartWork(Tick) \/ StartCrew(Tick)
  <2>1. PICK h : /\ OnlyGoes(h)
                 /\ \/ h = [fire[Tick] EXCEPT !.pc = "create"]
                    \/ h = [fire[Tick] EXCEPT !.pc = "plan"]
                    \/ \E n : h = [fire[Tick] EXCEPT !.pc = "submit", !.session = n]
                    \/ \E n : h = [fire[Tick] EXCEPT !.pc = "list", !.session = n]
    BY <1>2 DEF StartTurn, StartWork, StartCrew, Goes, Awaits, OnlyGoes
  <2>2. fire[Tick].pc = "start" /\ item' = item BY <1>2 DEF StartTurn, StartWork, StartCrew, At
  <2>3. h.issue = NoIssue BY <1>1, <2>1, <2>2 DEF Firings, FiringOK
  <2>4. Untaken(h) /\ Noted(h, item) BY <2>3 DEF Untaken, Noted
  <2> QED BY <1>1, <2>1, <2>2, <2>4, GoesAttempted
<1>3. CASE NotStarted(Tick)
  <2>1. PICK h : h = [fire[Tick] EXCEPT !.pc = "record", !.status = "skipped"] OBVIOUS
  <2>2. h.pc = "record" BY <1>1, <2>1 DEF Firings
  <2>3. OnlyGoes(h) /\ item' = item /\ fire[Tick].pc # "record"
    BY <1>3, <2>1 DEF NotStarted, Goes, OnlyGoes, At
  <2>4. Untaken(h) /\ Noted(h, item) BY <2>2 DEF Untaken, Noted, Starting
  <2> QED BY <1>1, <2>3, <2>4, GoesAttempted
<1>4. ASSUME NEW i \in Issues, Pick(Tick, i) PROVE Attempted'
  <2>1. PICK h : h = [fire[Tick] EXCEPT !.pc = "fetch", !.issue = i] OBVIOUS
  <2>2. OnlyGoes(h) /\ item' = item /\ fire[Tick].pc = "list" /\ ~Contains(sched[fire[Tick].s].worked, i)
    BY <1>4, <2>1 DEF Pick, Awaits, OnlyGoes, At
  <2>3. h.pc = "fetch" /\ h.issue = i /\ h.s = fire[Tick].s BY <1>1, <2>1 DEF Firings
  <2>4. fire[Tick].s \in Scheds BY <1>1, <2>2 DEF FiringOK
  <2>5. ~Had(sched[fire[Tick].s].worked, i)
    BY <2>2, <2>4, Typed DEF Contains, Had, Schedules
  <2>6. ASSUME NEW r \in Runs, run[r].s = h.s PROVE run[r].issue # h.issue
    <3>1. run[r].issue # NoIssue => Remembered(run[r].s, run[r].issue) BY DEF Attempted
    <3> QED BY <2>2, <2>3, <2>5, <2>6, <3>1, NamesAssumption DEF Remembered
  <2>7. Untaken(h) /\ Noted(h, item) BY <2>3, <2>6 DEF Untaken, Noted
  <2> QED BY <1>1, <2>2, <2>7, GoesAttempted
<1>5. CASE Fetched(Tick) \/ OldClosed(Tick) \/ Planned(Tick)
  <2>1. PICK h : /\ OnlyGoes(h)
                 /\ \/ h = [fire[Tick] EXCEPT !.pc = "checkout"]
                    \/ h = [fire[Tick] EXCEPT !.pc = "launch"]
                    \/ h = [fire[Tick] EXCEPT !.pc = "create", !.session = 0] /\ fire[Tick].pc = "close"
    BY <1>5 DEF Fetched, OldClosed, Planned, Awaits, OnlyGoes, At
  <2>2. h.s = fire[Tick].s /\ h.issue = fire[Tick].issue BY <1>1, <2>1 DEF Firings
  <2>3. fire[Tick].pc \in Starting /\ fire[Tick].pc # "record" /\ item' = item
    BY <1>5 DEF Fetched, OldClosed, Planned, At, Starting
  <2>4. Untaken(h) BY <1>1, <2>2, <2>3 DEF Untaken
  <2>5. h.pc = "create" => fire[Tick].pc = "close" BY <1>1, <2>1 DEF Firings
  <2>6. h.pc \in {"create", "checkout", "launch"} BY <1>1, <2>1 DEF Firings
  <2>7. Noted(h, item) BY <1>1, <2>2, <2>5, <2>6 DEF Noted
  <2> QED BY <1>1, <2>1, <2>3, <2>4, <2>7, GoesAttempted
<1>6. CASE IssueClosed(Tick)
  <2>1. PICK h : h = [fire[Tick] EXCEPT !.pc = "record", !.status = "skipped"] OBVIOUS
  <2>2. h.pc = "record" BY <1>1, <2>1 DEF Firings
  <2>3. fire'[Tick] = h /\ fire[Tick].pc = "fetch" BY <1>1, <1>6, <2>1 DEF IssueClosed, Goes, At
  <2>4. fire[Tick].s \in Scheds /\ fire[Tick].issue \in Issues BY <1>1, <2>3 DEF FiringOK, Firings
  <2>5. ASSUME NEW s \in Scheds PROVE Recalls(sched[s].worked, sched'[s].worked)
    <3>1. sched'[s].worked = IF s = fire[Tick].s THEN Marked(s, fire[Tick].issue) ELSE sched[s].worked
      BY <1>6, <2>4, Typed DEF IssueClosed, World, StoreTyped, Schedules
    <3> QED BY <2>4, <3>1, MarkedRecalls DEF Recalls, Attempted
  <2>6. \A r \in Runs : SameRun(run[r], run'[r]) BY <1>6 DEF IssueClosed, SameRun
  <2>7. Untaken(h) /\ Noted(h, item') BY <2>2 DEF Untaken, Noted, Starting
  <2> QED BY <2>3, <2>5, <2>6, <2>7, AttemptedMoves
<1>7. CASE Prepared(Tick)
  <2>1. PICK h : h = [fire[Tick] EXCEPT !.pc = IF fire[Tick].session # 0 THEN "close" ELSE "create"]
    OBVIOUS
  <2>2. h.s = fire[Tick].s /\ h.issue = fire[Tick].issue BY <1>1, <2>1 DEF Firings
  <2>3. fire'[Tick] = h /\ Shuts(fire[Tick].session) /\ sched' = sched /\ fire[Tick].pc = "checkout"
        /\ item' = [item EXCEPT ![fire[Tick].s] = fire[Tick].issue]
    BY <1>1, <1>7, <2>1 DEF Prepared, Awaits, At
  <2>4. fire[Tick].session \in 0 .. MaxSessions /\ fire[Tick].s \in Scheds
    BY <1>1, <2>3 DEF Firings, FiringOK
  <2>5. \A r \in Runs : SameRun(run[r], run'[r]) BY <2>3, <2>4, ShutsNoNewTurn DEF NoNewTurn
  <2>6. \A s \in Scheds : Recalls(sched[s].worked, sched'[s].worked) BY <2>3 DEF Recalls, Attempted
  <2>7. item'[fire[Tick].s] = fire[Tick].issue BY <1>1, <2>3, <2>4
  <2>8. Untaken(h) /\ Noted(h, item') BY <1>1, <2>2, <2>3, <2>7 DEF Untaken, Noted, Starting
  <2> QED BY <2>3, <2>5, <2>6, <2>8, AttemptedMoves
<1>8. CASE Created(Tick)
  <2>1. PICK n \in NewSession : /\ fire' = [fire EXCEPT ![Tick] = [fire[Tick] EXCEPT !.pc = "first", !.session = n]]
                                /\ run' = run /\ item' = item
                                /\ sched' = [sched EXCEPT ![fire[Tick].s].session = n]
                                /\ fire[Tick].pc = "create"
    BY <1>8 DEF Created, Goes, At
  <2>2. fire'[Tick].s = fire[Tick].s /\ fire'[Tick].issue = fire[Tick].issue BY <1>1, <2>1 DEF Firings
  <2>3. \A r \in Runs : SameRun(run[r], run'[r]) BY <2>1 DEF SameRun
  <2>4. \A s \in Scheds : sched'[s].worked = sched[s].worked BY <2>1, Typed DEF World, StoreTyped, Schedules
  <2>5. \A s \in Scheds : Recalls(sched[s].worked, sched'[s].worked) BY <2>4 DEF Recalls, Attempted
  <2>6. Untaken(fire'[Tick]) /\ Noted(fire'[Tick], item') BY <1>1, <2>1, <2>2 DEF Untaken, Noted, Starting
  <2> QED BY <2>1, <2>3, <2>5, <2>6, AttemptedMoves
<1>9. CASE Submit(Tick)
  <2>1. PICK n, r, z, x : Submits(Tick, n, r, z, x) BY <1>1, <1>9, SubmitGives
  <2>2. /\ fire[Tick].pc \in {"first", "submit"} /\ fire'[Tick].pc = "record"
        /\ fire'[Tick].status # "skipped" /\ fire'[Tick].s = fire[Tick].s /\ item' = item
    BY <1>1, <1>9 DEF Submit, At, Goes, Firings
  <2>3. /\ r \in Runs /\ run[r].s = NoOne /\ run' = [run EXCEPT ![r] = x] /\ sched' = sched
        /\ x.s = fire[Tick].s /\ x.issue = fire[Tick].issue
    BY <2>1 DEF Submits, MadeOf, Given
  <2>4. fire[Tick].s \in Scheds BY <1>1, <2>2 DEF FiringOK
  <2> QED BY <2>2, <2>3, <2>4, MadeAttempted
<1>10. CASE Launched(Tick)
  <2>1. PICK n \in NewSession, r \in NewRun :
          /\ fire[Tick].pc = "launch" /\ Made(Tick, r, n, "wait")
          /\ sess' = [sess EXCEPT ![n] = [NoSession EXCEPT !.life = "open", !.crew = TRUE,
                                                           !.queue = <<r>>]]
          /\ sched' = [sched EXCEPT ![fire[Tick].s].session = n]
          /\ Goes(Tick, [fire[Tick] EXCEPT !.pc = "record", !.run = r, !.status = "submitted"])
          /\ item' = item
    BY <1>10 DEF Launched, At
  <2>2. fire[Tick].s \in Crewed /\ fire[Tick].issue = NoIssue /\ fire[Tick].s \in Scheds
    BY <1>1, <2>1 DEF FiringOK
  <2>3. PICK z, x : Launches(Tick, n, r, z, x) BY <1>1, <2>1, <2>2, LaunchGives
  <2>4. /\ r \in Runs /\ run[r].s = NoOne /\ run' = [run EXCEPT ![r] = x]
        /\ x.s = fire[Tick].s /\ x.issue = fire[Tick].issue
    BY <2>3 DEF Launches, MadeOf, Given, NewRun
  <2>5. fire'[Tick].pc = "record" /\ fire'[Tick].status # "skipped" /\ fire'[Tick].s = fire[Tick].s
    BY <1>1, <2>1 DEF Goes, Firings
  <2>6. \A s \in Scheds : sched'[s].worked = sched[s].worked BY <2>1, Typed DEF World, StoreTyped, Schedules
  <2> QED BY <2>1, <2>2, <2>4, <2>5, <2>6, MadeAttempted
<1>11. CASE Record(Tick)
  <2> DEFINE s == fire[Tick].s
  <2>1. fire[Tick].pc = "record" /\ fire'[Tick].pc = "next"
    BY <1>1, <1>11 DEF Record, Advanced, At, Goes, Idle
  <2>2. s \in Scheds /\ item[s] \in Issues \cup {NoIssue} BY <1>1, <2>1 DEF FiringOK
  <2>3. ASSUME NEW q \in Scheds
        PROVE  sched'[q].worked = IF q = s THEN Worked(Tick) ELSE sched[q].worked
    BY <1>11, <2>2, Typed DEF Record, Advanced, World, StoreTyped, Schedules
  <2>4. /\ Recalls(sched[s].worked, Worked(Tick))
        /\ item[s] # NoIssue /\ fire[Tick].status # "skipped" => Had(Worked(Tick), item[s])
    <3>1. CASE item[s] # NoIssue /\ fire[Tick].status # "skipped"
      <4>1. Worked(Tick) = Marked(s, item[s]) BY <3>1 DEF Worked
      <4> QED BY <2>2, <3>1, <4>1, MarkedRecalls
    <3>2. CASE ~(item[s] # NoIssue /\ fire[Tick].status # "skipped")
      <4>1. Worked(Tick) = sched[s].worked BY <3>2 DEF Worked
      <4> QED BY <2>2, <3>2, <4>1 DEF Recalls, Attempted
    <3> QED BY <3>1, <3>2
  <2>5. \A q \in Scheds : Recalls(sched[q].worked, sched'[q].worked)
    BY <2>3, <2>4 DEF Recalls, Attempted
  <2>6. run' = run BY <1>11 DEF Record, Advanced
  <2>7. ASSUME NEW r \in Runs, run[r].issue # NoIssue PROVE Had(sched'[run[r].s].worked, run[r].issue)
    <3>1. run[r].s \in Scheds /\ Remembered(run[r].s, run[r].issue) BY <2>7, IssueOfRun DEF Attempted
    <3>2. CASE Had(sched[run[r].s].worked, run[r].issue) BY <2>5, <3>1, <3>2 DEF Recalls
    <3>3. CASE ~Had(sched[run[r].s].worked, run[r].issue)
      <4>1. /\ run[r].s = s /\ item[s] = run[r].issue /\ fire[Tick].status # "skipped"
        BY <3>1, <3>3 DEF Remembered
      <4>2. sched'[s].worked = Worked(Tick) BY <2>2, <2>3
      <4>3. Had(Worked(Tick), item[s]) BY <2>4, <2>7, <4>1
      <4> QED BY <4>1, <4>2, <4>3
    <3> QED BY <3>2, <3>3
  <2>8. \A r \in Runs : run'[r].issue # NoIssue => Remembered(run[r].s, run[r].issue)'
    BY <2>6, <2>7 DEF Remembered
  <2>9. Untaken(fire[Tick])' /\ Noted(fire[Tick], item)' BY <2>1 DEF Untaken, Noted, Starting
  <2>10. IssueOnce' BY <2>6 DEF Attempted, IssueOnce
  <2>11. \A q \in Scheds : Distinct(sched'[q].worked) BY <2>5 DEF Recalls
  <2> QED BY <2>8, <2>9, <2>10, <2>11 DEF Attempted
<1> QED BY <1>2, <1>3, <1>4, <1>5, <1>6, <1>7, <1>8, <1>9, <1>10, <1>11 DEF Firing

LEMMA AttemptedStep ==
    ASSUME Runners = {}, IsFiniteSet(Issues), Cardinality(Issues) <= MaxWorked,
           IInv, Attempted, [Next]_vars
    PROVE  Attempted'
<1>1. World /\ Loop /\ Firers = {Tick} BY DEF IInv, Firers
<1>2. CASE Others
  <2>1. NoNewTurn(run', sess') /\ SameSchedules(sched')
    BY <1>1, <1>2, OtherNoNewTurn, OtherSameSchedules
  <2>2. \A r \in Runs : SameRun(run[r], run'[r]) BY <2>1 DEF NoNewTurn
  <2>3. CASE fire' = fire /\ item' = item BY <1>1, <2>1, <2>2, <2>3, AttemptedRests
  <2>4. CASE fire'[Tick].pc \in AtRest /\ fire[Tick].pc # "record"
    <3>1. Untaken(fire'[Tick]) /\ Noted(fire'[Tick], item') BY <2>4 DEF Untaken, Noted, Starting, AtRest
    <3>2. \A s \in Scheds : Recalls(sched[s].worked, sched'[s].worked)
      BY <2>1 DEF SameSchedules, SameSchedule, Recalls, Attempted
    <3> QED BY <1>1, <2>2, <2>4, <3>1, <3>2, AttemptedMoves
  <2> QED BY <1>1, <1>2, <2>3, <2>4, OtherAtRest
<1>3. CASE Firing(Tick) BY <1>1, <1>3, FiringAttempted
<1>4. CASE UNCHANGED vars
  BY <1>4 DEF vars, Attempted, Remembered, Untaken, Noted, IssueOnce
<1> QED BY <1>1, <1>2, <1>3, <1>4 DEF Next, Others

\* pick_issue takes an issue "not attempted before": no two runs of a schedule
\* are given the same one, over firings that are skipped or cancelled by the
\* shutdown, restarts and crashes, as long as no request fires the schedule as
\* well and there are no more issues than `worked' holds (MAX_WORKED).
THEOREM OnceEach ==
    ASSUME Runners = {}, IsFiniteSet(Issues), Cardinality(Issues) <= MaxWorked
    PROVE  Spec => []IssueOnce
<1>1. Init => Attempted
  <2> SUFFICES ASSUME Init PROVE Attempted OBVIOUS
  <2>1. Tick \in Firers BY DEF Firers
  <2>2. fire[Tick].pc = "idle" /\ \A r \in Runs : run[r].issue = NoIssue
    BY <2>1 DEF Init, Idle, NoRun
  <2>3. ASSUME NEW s \in Scheds PROVE Distinct(sched[s].worked)
    <3>1. sched[s].worked = <<>> BY DEF Init, NoSchedule
    <3>2. DOMAIN sched[s].worked = {} BY <3>1, NoneIn
    <3> QED BY <3>2 DEF Distinct
  <2> QED BY <2>2, <2>3 DEF Attempted, Untaken, Noted, Starting, IssueOnce
<1>2. IInv /\ Attempted /\ [Next]_vars => Attempted' BY AttemptedStep
<1>3. Attempted => IssueOnce BY DEF Attempted
<1> QED BY <1>1, <1>2, <1>3, Always, PTL DEF Spec
=============================================================================
