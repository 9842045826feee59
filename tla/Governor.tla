------------------------------ MODULE Governor ------------------------------
(***************************************************************************)
(* Pacing a crew's model calls: the policy (llm_limits.py), the ledger of  *)
(* calls and learned limits that all processes share (llm_usage.py), and   *)
(* the governed LLMs that ask it before each call (crew/governed.py).      *)
(*                                                                         *)
(* Time is discrete. A step between two reads or writes of the ledger is   *)
(* atomic, so other governors act between a decision, the call and its     *)
(* record. Rates are percentages.                                          *)
(***************************************************************************)
EXTENDS Integers, Sequences, SequencesExt, FiniteSets, FiniteSetsExt

CONSTANTS
    Governors,          \* GovernedLLM objects, of any process
    Chain,              \* the preferred model, then its fallbacks
    Limits,             \* model -> [rpm, rpd, tpm, tpd, headroom, wait]; 0: no such limit
    Sizes,              \* tokens of a call
    Minute, Day, Keep,  \* MINUTE, DAY, and how long rows are kept
    Slice, MaxAttempts, \* SLICE, MAX_ATTEMPTS
    MinFactor, Recover, \* MIN_FACTOR, RECOVER_PER_MINUTE
    Retries,            \* the retry-after of a refusal, 0 if it names none
    Cooldown, Backoff,  \* DEFAULT_COOLDOWN, LLM_QUOTA_BACKOFF
    MaxTime, MaxCalls   \* bounds of the model, not of the code

Models == Range(Chain)
LimitsType == [rpm : Nat, rpd : Nat, tpm : Nat, tpd : Nat, headroom : 10 .. 100, wait : Nat]

ASSUME GovernorAssumption ==
    /\ Chain \in Seq(Models) /\ IsInjective(Chain) /\ Len(Chain) > 0 /\ Limits \in [Models -> LimitsType]
    /\ {Minute, Day, Keep, Slice, MaxAttempts, Cooldown, Backoff} \subseteq Nat \ {0}
    /\ Minute < Day /\ Day <= Keep /\ Sizes \subseteq Nat /\ MinFactor \in 1 .. 100 /\ Recover \in Nat
    /\ IsFiniteSet(Governors) /\ Retries \subseteq Nat /\ MaxTime \in Nat

VARIABLES
    now,
    calls,      \* model -> the rows of the ledger, oldest first
    learned,    \* model -> what its provider has said
    gov         \* the calls of the governors: see Governed

governorVars == <<now, calls, learned, gov>>

Rows == [at : Nat, tokens : Nat]
Learned == [factor : MinFactor .. 100, cooldown : Nat, exhausted : Nat, updated : Nat]
Unknown == [factor |-> 100, cooldown |-> 0, exhausted |-> 0, updated |-> 0]

Governed ==
    [pc : {"idle", "ask", "sleep", "call", "fold"},
     task : BOOLEAN,                 \* a call; otherwise only the pre-flight of a task
     est : Nat, waited : Nat, tries : 0 .. MaxAttempts - 1,
     i : 1 .. Len(Chain),            \* the model asked about, then the one used
     at : Nat,                       \* when the sleep is over
     reset : Nat, soonest : 0 .. Len(Chain),   \* the passed-over model that is free first
     fold : Learned]                 \* what record_error will write

Resting == [pc |-> "idle", task |-> FALSE, est |-> 0, waited |-> 0, tries |-> 0, i |-> 1, at |-> 0,
            reset |-> 0, soonest |-> 0, fold |-> Unknown]

GovernorTypeOK ==
    /\ now \in 0 .. MaxTime
    /\ calls \in [Models -> Seq(Rows)] /\ learned \in [Models -> Learned]
    /\ gov \in [Governors -> Governed]

GovernorInit ==
    /\ now = 0 /\ calls = [m \in Models |-> <<>>] /\ learned = [m \in Models |-> Unknown]
    /\ gov = [g \in Governors |-> Resting]

-----------------------------------------------------------------------------
(* The policy.                                                             *)

\* The rows later than t: the ledger's are in the order of their times.
Newer(rows, t) == SubSeq(rows, Cardinality({k \in DOMAIN rows : rows[k].at <= t}) + 1, Len(rows))
Since(m, t, span) == Newer(calls[m], t - span)

\* The tokens of the first k rows, for every k.
Spent(rows) ==
    LET upTo[k \in 0 .. Len(rows)] == IF k = 0 THEN 0 ELSE upTo[k - 1] + rows[k].tokens IN upTo
Tokens(rows) == Spent(rows)[Len(rows)]

\* effective_factor: it recovers while nothing goes wrong.
Factor(l, t) == Min({100, l.factor + (Recover * (t - l.updated)) \div Minute})
Cap(limit, m, l, t) == IF limit = 0 THEN 0 ELSE Max({1, (limit * Limits[m].headroom * Factor(l, t)) \div 10000})

\* When the window has room for one more request; 0 if it has, or has no cap.
RequestsFreeAtFull(rows, cap, span) ==      \* mutant: the window may be overfull
    IF cap = 0 \/ Len(rows) <= cap THEN 0 ELSE rows[Len(rows) - cap + 1].at + span
RequestsFreeAtEarly(rows, cap, span) ==     \* mutant: the oldest row is waited for, however many
    IF cap = 0 \/ Len(rows) < cap THEN 0 ELSE rows[1].at + span
RequestsFreeAt(rows, cap, span) ==
    IF cap = 0 \/ Len(rows) < cap THEN 0 ELSE rows[Len(rows) - cap + 1].at + span

\* When enough tokens have aged out for est more. A call larger than the cap
\* goes once the window is empty.
TokensFreeAt(rows, cap, est, span) ==
    LET excess == Tokens(rows) + est - cap
        enough == {n \in 1 .. Len(rows) : Spent(rows)[n] >= excess}
    IN  IF cap = 0 \/ excess <= 0 \/ rows = <<>> THEN 0
        ELSE rows[IF enough = {} THEN Len(rows) ELSE Min(enough)].at + span

\* decide's first half: until when the model is exhausted, 0 if it is not.
OutUntil(m, est, t) ==
    LET rows == Since(m, t, Day)
        requests == RequestsFreeAt(rows, Limits[m].rpd, Day)
    IN  IF learned[m].exhausted > t THEN learned[m].exhausted
        ELSE IF requests # 0 THEN requests ELSE TokensFreeAt(rows, Limits[m].tpd, est, Day)

\* and its second: until when to wait for it, 0 if it may be called.
BusyUntil(m, est, t) ==
    LET rows == Since(m, t, Minute)
        l == learned[m]
    IN  Max({IF l.cooldown > t THEN l.cooldown ELSE 0,
             RequestsFreeAt(rows, Cap(Limits[m].rpm, m, l, t), Minute),
             TokensFreeAt(rows, Cap(Limits[m].tpm, m, l, t), est, Minute)})

\* Mutant: the limit may be scaled down without end.
AdaptEndless(l, kind, retry) ==
    [l EXCEPT !.factor = Factor(l, now) \div 2, !.cooldown = now + Cooldown, !.updated = now]
\* adapt: a refusal folded into what is known.
Adapt(l, kind, retry) ==
    CASE kind = "throttle" ->
            [l EXCEPT !.factor = Max({MinFactor, Factor(l, now) \div 2}),
                      !.cooldown = Max({@, now + (IF retry > 0 THEN retry ELSE Cooldown)}),
                      !.updated = now]
      [] kind = "quota" ->
            [l EXCEPT !.exhausted = Max({@, now + (IF retry > Minute THEN retry ELSE Backoff)}),
                      !.updated = now]

-----------------------------------------------------------------------------
(* The governed LLMs.                                                      *)

Count == MapThenSumSet(LAMBDA m : Len(calls[m]), Models)
GovIs(g, h) == gov' = [gov EXCEPT ![g] = h]
Asking(h) == [h EXCEPT !.pc = "ask", !.i = 1, !.at = 0, !.reset = 0, !.soonest = 0]

\* _govern begins a call; preflight asks for the next task's first one.
Begins(g) ==
    /\ gov[g].pc = "idle" /\ Count < MaxCalls
    /\ \/ \E est \in Sizes : GovIs(g, Asking([Resting EXCEPT !.task = TRUE, !.est = est]))
       \/ GovIs(g, Asking(Resting))
    /\ UNCHANGED <<now, calls, learned>>

\* What _admit does with its answer: a pre-flight is content with any.
Calling(h) == [h EXCEPT !.pc = "call", !.reset = 0, !.soonest = 0]
Admitted(g, h) == GovIs(g, IF h.task THEN Calling(h) ELSE Resting)
Sleeps(g, h, until) ==
    LET step == Min({until - now, Slice})
    IN  GovIs(g, IF h.task THEN [h EXCEPT !.pc = "sleep", !.waited = @ + step, !.at = now + step,
                                          !.i = 1, !.reset = 0, !.soonest = 0]
                 ELSE Resting)

\* The model is exhausted, or busy for longer than its wait budget. After the
\* last one: wait for the one that is free first, or pause the crew.
PassedOver(g, h, free) ==
    LET sooner == h.soonest = 0 \/ free < h.reset
        k == [h EXCEPT !.reset = IF sooner THEN free ELSE @, !.soonest = IF sooner THEN h.i ELSE @]
    IN  \/ h.i < Len(Chain) /\ GovIs(g, [k EXCEPT !.i = @ + 1])
        \/ /\ h.i = Len(Chain) /\ k.reset - now <= Limits[Chain[1]].wait - h.waited
           /\ Sleeps(g, k, k.reset)
        \/ /\ h.i = Len(Chain) /\ k.reset - now > Limits[Chain[1]].wait - h.waited
           /\ GovIs(g, Resting)                                        \* QuotaPaused

\* _admit, one model of the chain: usage and what is learned are read, and if
\* our own count says the day is spent every process is told.
Asks(g) ==
    LET h == gov[g]
        m == Chain[h.i]
        out == OutUntil(m, h.est, now)
        busy == BusyUntil(m, h.est, now)
    IN  /\ h.pc = "ask"
        /\ \/ out = 0 /\ busy = 0 /\ Admitted(g, h)
           \/ out = 0 /\ busy # 0 /\ busy - now <= Limits[m].wait /\ Sleeps(g, h, busy)
           \/ out = 0 /\ busy # 0 /\ busy - now > Limits[m].wait /\ PassedOver(g, h, busy)
           \/ out # 0 /\ PassedOver(g, h, out)
        /\ learned' = IF out # 0 /\ learned[m].exhausted <= now
                      THEN [learned EXCEPT ![m].exhausted = Max({@, out}), ![m].updated = now] ELSE learned
        /\ UNCHANGED <<now, calls>>

Wakes(g) ==
    /\ gov[g].pc = "sleep" /\ now >= gov[g].at /\ GovIs(g, Asking(gov[g]))
    /\ UNCHANGED <<now, calls, learned>>

\* record_call: rows older than Keep go.
Recorded(m, tokens) ==
    calls' = [calls EXCEPT ![m] = Newer(Append(@, [at |-> now, tokens |-> tokens]), now - Keep - 1)]

Answers(g) ==
    /\ gov[g].pc = "call"
    /\ \E tokens \in Sizes : Recorded(Chain[gov[g].i], tokens)
    /\ GovIs(g, Resting)
    /\ UNCHANGED <<now, learned>>

\* record_error reads what is learned and counts the call ...
Refused(g) ==
    LET m == Chain[gov[g].i] IN
    /\ gov[g].pc = "call" /\ Count < MaxCalls
    /\ \E kind \in {"throttle", "quota"}, retry \in Retries :
          GovIs(g, [gov[g] EXCEPT !.pc = "fold", !.fold = Adapt(learned[m], kind, retry)])
    /\ Recorded(m, 0)
    /\ UNCHANGED <<now, learned>>

\* ... and writes, whatever was learned since; then the call is tried again.
Folds(g) ==
    LET h == [gov[g] EXCEPT !.tries = @ + 1, !.fold = Unknown] IN
    /\ gov[g].pc = "fold"
    /\ learned' = [learned EXCEPT ![Chain[gov[g].i]] = gov[g].fold]
    /\ GovIs(g, IF h.tries = MaxAttempts THEN Resting ELSE Asking(h))
    /\ UNCHANGED <<now, calls>>

\* The call fails otherwise, or the crew is stopped while it waits.
GivesUp(g) ==
    /\ gov[g].pc \in {"call", "sleep"} /\ GovIs(g, Resting)
    /\ UNCHANGED <<now, calls, learned>>

\* relife llm reset, POST /llms/{model}/reset.
Forget(m) ==
    /\ learned[m] # Unknown /\ learned' = [learned EXCEPT ![m] = Unknown]
    /\ UNCHANGED <<now, calls, gov>>

\* The ledger's reads and writes are quick: the clock does not tick in them.
Tick ==
    /\ now < MaxTime /\ \A g \in Governors : gov[g].pc \notin {"ask", "fold"}
    /\ now' = now + 1
    /\ UNCHANGED <<calls, learned, gov>>

GovernorNext ==
    \/ \E g \in Governors :
          Begins(g) \/ Asks(g) \/ Wakes(g) \/ Answers(g) \/ Refused(g) \/ Folds(g) \/ GivesUp(g)
    \/ \E m \in Models : Forget(m)
    \/ Tick

GovernorSpec == GovernorInit /\ [][GovernorNext]_governorVars

-----------------------------------------------------------------------------
(* Properties.                                                             *)

Sent(m, span) == Len(Since(m, now, span)) + Cardinality({g \in Governors : gov[g].pc = "call" /\ Chain[gov[g].i] = m})

\* "Two crews on the same model are paced together" (llm_usage.py): in any
\* minute and any day the requests to a model, those under way included, exceed
\* its cap by at most one for each other governor, although each decides by a
\* count that the others' calls are not in yet.
PacedTogether == \A m \in Models :
    LET others == Cardinality(Governors) - 1 IN
    /\ Limits[m].rpm # 0 => Sent(m, Minute) <= Cap(Limits[m].rpm, m, Unknown, now) + others
    /\ Limits[m].rpd # 0 => Sent(m, Day) <= Limits[m].rpd + others

\* A wait is long enough: whoever is told to wait and sleeps that long is not
\* told to wait again because of what was known then.
WaitSuffices == \A m \in Models, est \in Sizes :
    OutUntil(m, est, now) = 0 =>
        LET busy == BusyUntil(m, est, now) IN
        busy # 0 => OutUntil(m, est, busy) = 0 /\ BusyUntil(m, est, busy) = 0

\* A quota error is remembered until its time is up or the user resets it.
\* It does not hold: a second refusal's record_error writes what it read before.
QuotaRemembered == [][\A m \in Models :
    learned[m].exhausted > now /\ learned'[m] # Unknown => learned'[m].exhausted >= learned[m].exhausted]_governorVars
=============================================================================
