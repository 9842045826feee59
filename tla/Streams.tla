------------------------------- MODULE Streams -------------------------------
(***************************************************************************)
(* What one session tells its browsers, and what they answer: the numbered *)
(* events of EventStream with their replay ring and subscribers, the       *)
(* approvals of ApprovalBroker and the grants of a scheduled turn          *)
(* (server/session.py), the SSE and approval routes (server/app.py), and   *)
(* the page that shows the events (web/index.html).                        *)
(*                                                                         *)
(* _publish never suspends, so numbering, the ring and the subscribers     *)
(* change in one step.  The session is put to sleep and woken here in one  *)
(* step each; module Sessions has the steps in between.                    *)
(***************************************************************************)
EXTENDS Integers, FiniteSets, Sequences, SequencesExt

CONSTANTS
    Tabs,                \* browser tabs
    Calls,               \* tool calls that the policy says to ask about
    NoCall,
    Scheduled,           \* the turns that were submitted with grants
    RingMax,             \* _RING_MAX
    QueueMax,            \* _SUB_QUEUE_MAX
    Persist,             \* _PERSIST_EVENTS
    MaxSubs,             \* AGENT_MAX_SUBSCRIBERS
    MaxUses,             \* AGENT_GRANT_MAX_USES
    MaxLog, MaxTurns, MaxCrashes   \* bounds of the model, not of the code

Turns == 1 .. MaxTurns

ASSUME BoundsAssumption ==
    /\ RingMax \in Nat \ {0} /\ QueueMax \in Nat \ {0} /\ Persist \in Nat \ {0}
    /\ MaxSubs \in Nat /\ MaxUses \in Nat
    /\ MaxLog \in Nat /\ MaxTurns \in Nat /\ MaxCrashes \in Nat
ASSUME RingAssumption == Persist <= RingMax /\ RingMax <= QueueMax   \* 300, 500, 1000
ASSUME NamesAssumption ==
    Scheduled \subseteq Turns /\ NoCall \notin Calls /\ IsFiniteSet(Tabs) /\ IsFiniteSet(Calls)

VARIABLES
    log,       \* history: every event the session ever published
    seq,       \* EventStream._seq
    ring,      \* EventStream._ring
    saved,     \* the session's record, if it has one, and its events
    life,      \* the object is in memory, or the session sleeps in its record
    made,      \* turns submitted so far
    queue,     \* _inbound
    worker,    \* the turn at work and its grants
    call,      \* the approvals: _pending, and what became of them
    tab,       \* the browsers
    crashes

vars == <<log, seq, ring, saved, life, made, queue, worker, call, tab, crashes>>

\* A numbered event: its number, and which event of the log it is.
Items == [n : 1 .. MaxLog, k : 1 .. MaxLog]
Events == [kind : {"user", "say", "ask", "settled", "auto", "end"}, call : Calls \cup {NoCall}]

Workers ==
    [turn : 0 .. MaxTurns,       \* 0: it waits for a turn
     grants : BOOLEAN,           \* _turn_grants is not empty
     uses : 0 .. MaxUses]        \* _grant_uses

Approvals ==
    [st : {"none", "pending", "answered", "expired", "over", "gone"},
     turn : 0 .. MaxTurns,                      \* the turn whose tool call it is
     said : {"nothing", "allow", "deny"},       \* the first decision that came
     out : {"none", "allow", "deny", "auto"}]

Browsers ==
    [at : {"off", "on", "deaf"},   \* its stream: none, of the session, of a closed object
     backlog : Seq(Items), queue : Seq(Items),  \* what gen() still has to send
     last : 0 .. MaxLog,           \* Last-Event-ID
     shown : Seq(1 .. MaxLog)]     \* the events on the page

TypeOK ==
    /\ log \in Seq(Events) /\ Len(log) <= MaxLog /\ seq \in 0 .. MaxLog
    /\ ring \in Seq(Items) /\ Len(ring) <= RingMax
    /\ saved \in [kept : BOOLEAN, events : Seq(Items)] /\ Len(saved.events) <= Persist
    /\ life \in {"awake", "asleep"} /\ made \in 0 .. MaxTurns
    /\ queue \in Seq(Turns) /\ worker \in Workers
    /\ call \in [Calls -> Approvals]
    /\ tab \in [Tabs -> Browsers] /\ \A b \in Tabs : Len(tab[b].queue) <= QueueMax
    /\ crashes \in 0 .. MaxCrashes

NoRecord == [kept |-> FALSE, events |-> <<>>]
Resting == [turn |-> 0, grants |-> FALSE, uses |-> 0]
Unasked == [st |-> "none", turn |-> 0, said |-> "nothing", out |-> "none"]
NewTab == [at |-> "off", backlog |-> <<>>, queue |-> <<>>, last |-> 0, shown |-> <<>>]

Init ==
    /\ log = <<>> /\ seq = 0 /\ ring = <<>> /\ saved = NoRecord /\ life = "awake"
    /\ made = 0 /\ queue = <<>> /\ worker = Resting /\ call = [c \in Calls |-> Unasked]
    /\ tab = [b \in Tabs |-> NewTab] /\ crashes = 0

-----------------------------------------------------------------------------
(* EventStream.                                                            *)

Newest(s, n) == SubSeq(s, 1 + IF Len(s) > n THEN Len(s) - n ELSE 0, Len(s))
Open == {c \in Calls : call[c].st \in {"pending", "answered", "expired"}}
Room(n) == Len(log) + Cardinality(Open) + n <= MaxLog      \* a bound of the model

Awake == life = "awake"

\* snapshot()
Snapshot(events) == [kept |-> TRUE, events |-> Newest(events, Persist)]

\* Mutant: the ring grows.
PublishRingUncut(kind, c) ==
    /\ log' = Append(log, [kind |-> kind, call |-> c]) /\ seq' = seq + 1
    /\ ring' = Append(ring, [n |-> seq + 1, k |-> Len(log) + 1]) /\ UNCHANGED tab

\* _publish: a subscriber whose queue is full loses its oldest event.
Publish(kind, c) ==
    LET item == [n |-> seq + 1, k |-> Len(log) + 1]
        told(t) == IF t.at = "on" THEN [t EXCEPT !.queue = Newest(Append(@, item), QueueMax)] ELSE t
    IN  /\ log' = Append(log, [kind |-> kind, call |-> c])
        /\ seq' = seq + 1
        /\ ring' = Newest(Append(ring, item), RingMax)
        /\ tab' = [b \in Tabs |-> told(tab[b])]

Subscribers == {b \in Tabs : tab[b].at = "on"}
\* The backlog of subscribe(): the events of the ring numbered past last.
After(last) ==
    LET first[j \in 0 .. Len(ring)] ==
            IF j = 0 THEN <<>>
            ELSE IF ring[j].n > last THEN Append(first[j - 1], ring[j]) ELSE first[j - 1]
    IN  first[Len(ring)]

Joins(b, t, backlog) ==
    /\ Awake /\ tab[b].at = "off" /\ Cardinality(Subscribers) < MaxSubs
    /\ tab' = [tab EXCEPT ![b] = [t EXCEPT !.at = "on", !.backlog = backlog, !.queue = <<>>]]
    /\ UNCHANGED <<log, seq, ring, saved, life, made, queue, worker, call, crashes>>

\* GET /sessions/{id}/events: a page is loaded, and asks for everything.
Load(b) == Joins(b, NewTab, After(0))

\* Mutant: the event it has seen last is sent again.
ReconnectFromLast(b) == Joins(b, tab[b], After(tab[b].last - 1))

\* Its EventSource reconnects by itself, and sends Last-Event-ID.
Reconnect(b) == Joins(b, tab[b], After(tab[b].last))

\* gen() yields: the backlog first, then what was queued.
Deliver(b) ==
    LET t == tab[b]
        from == IF t.backlog # <<>> THEN t.backlog ELSE t.queue
        item == Head(from)
        rest == IF t.backlog # <<>> THEN [t EXCEPT !.backlog = Tail(@)] ELSE [t EXCEPT !.queue = Tail(@)]
    IN  /\ t.at # "off" /\ from # <<>>
        /\ tab' = [tab EXCEPT ![b] = [rest EXCEPT !.last = item.n, !.shown = Append(@, item.k)]]
        /\ UNCHANGED <<log, seq, ring, saved, life, made, queue, worker, call, crashes>>

Leaves(t) == [t EXCEPT !.at = "off", !.backlog = <<>>, !.queue = <<>>]

Disconnect(b) ==
    /\ tab[b].at # "off" /\ tab' = [tab EXCEPT ![b] = Leaves(@)]
    /\ UNCHANGED <<log, seq, ring, saved, life, made, queue, worker, call, crashes>>

-----------------------------------------------------------------------------
(* Turns.                                                                  *)

\* submit(): a message, or a scheduled prompt with its grants.
Submit ==
    /\ Awake /\ made < MaxTurns /\ made' = made + 1 /\ queue' = Append(queue, made + 1)
    /\ UNCHANGED <<log, seq, ring, saved, life, worker, call, tab, crashes>>

TakeTurn ==
    /\ Awake /\ worker.turn = 0 /\ queue # <<>> /\ Room(1) /\ queue' = Tail(queue)
    /\ worker' = [turn |-> Head(queue), grants |-> Head(queue) \in Scheduled, uses |-> 0]
    /\ Publish("user", NoCall)
    /\ UNCHANGED <<saved, life, made, call, crashes>>

Say ==
    /\ Awake /\ worker.turn # 0 /\ Room(1) /\ Publish("say", NoCall)
    /\ UNCHANGED <<saved, life, made, queue, worker, call, crashes>>

\* The result, which the CLI sends when its calls are answered, or an error at
\* any time; then the `finally', which saves.
EndTurn ==
    /\ Awake /\ worker.turn # 0 /\ Room(1) /\ Publish("end", NoCall)
    /\ worker' = Resting /\ saved' = Snapshot(ring')
    /\ UNCHANGED <<life, made, queue, call, crashes>>

-----------------------------------------------------------------------------
(* make_approval_callback and ApprovalBroker.                              *)

Asks(c) == Awake /\ worker.turn # 0 /\ call[c].st = "none"

\* Mutant: the uses are not counted.
AllowedByGrantUncounted(c) ==
    /\ Asks(c) /\ Room(1) /\ worker.grants /\ worker.uses < MaxUses
    /\ Publish("auto", c)
    /\ call' = [call EXCEPT ![c] = [@ EXCEPT !.st = "over", !.turn = worker.turn, !.out = "auto"]]
    /\ UNCHANGED <<saved, life, made, queue, worker, crashes>>

\* _preauthorize: a grant of the turn allows it.
AllowedByGrant(c) ==
    /\ Asks(c) /\ Room(1) /\ worker.grants /\ worker.uses < MaxUses
    /\ worker' = [worker EXCEPT !.uses = @ + 1] /\ Publish("auto", c)
    /\ call' = [call EXCEPT ![c] = [@ EXCEPT !.st = "over", !.turn = worker.turn, !.out = "auto"]]
    /\ UNCHANGED <<saved, life, made, queue, crashes>>

\* request(): no grant covers it, or the uses are spent.
Ask(c) ==
    /\ Asks(c) /\ Room(2) /\ Publish("ask", c)
    /\ call' = [call EXCEPT ![c] = [@ EXCEPT !.st = "pending", !.turn = worker.turn]]
    /\ UNCHANGED <<saved, life, made, queue, worker, crashes>>

OnPage(b, kind, c) ==
    \E j \in DOMAIN tab[b].shown : log[tab[b].shown[j]] = [kind |-> kind, call |-> c]

\* Mutant: a decided future is decided again.
AnswerAgain(c, d) ==
    /\ Awake /\ call[c].st \in {"pending", "answered"} /\ \E b \in Tabs : OnPage(b, "ask", c)
    /\ call' = [call EXCEPT ![c] = [@ EXCEPT !.st = "answered", !.out = d,
                                             !.said = IF @ = "nothing" THEN d ELSE @]]
    /\ UNCHANGED <<log, seq, ring, saved, life, made, queue, worker, tab, crashes>>

\* POST .../approvals/{id}, resolve(): by whoever has the card; a later one is
\* told `resolved: false' and changes nothing.
Answer(c, d) ==
    /\ Awake /\ call[c].st = "pending" /\ \E b \in Tabs : OnPage(b, "ask", c)
    /\ call' = [call EXCEPT ![c] = [@ EXCEPT !.st = "answered", !.out = d, !.said = d]]
    /\ UNCHANGED <<log, seq, ring, saved, life, made, queue, worker, tab, crashes>>

\* Mutant: the clock of an approval runs while somebody watches.
ExpireWatched(c) ==
    /\ Awake /\ call[c].st \in {"pending", "answered"} /\ Subscribers # {}
    /\ call' = [call EXCEPT ![c] = [@ EXCEPT !.st = "expired", !.out = "deny"]]
    /\ UNCHANGED <<log, seq, ring, saved, life, made, queue, worker, tab, crashes>>

\* wait_for's timer.  One that fires after the answer and before the waiter runs
\* wins with Python 3.12's wait_for and loses with 3.11's.
Expire(c) ==
    /\ Awake /\ call[c].st \in {"pending", "answered"}
    /\ call' = [call EXCEPT ![c] = [@ EXCEPT !.st = "expired", !.out = "deny"]]
    /\ UNCHANGED <<log, seq, ring, saved, life, made, queue, worker, tab, crashes>>

\* Mutant: the card is not taken back.
SettleSilently(c) ==
    /\ Awake /\ call[c].st \in {"answered", "expired"}
    /\ call' = [call EXCEPT ![c].st = "over"]
    /\ UNCHANGED <<log, seq, ring, saved, life, made, queue, worker, tab, crashes>>

\* The waiter runs: the approval leaves _pending, and every page is told.
Settle(c) ==
    /\ Awake /\ call[c].st \in {"answered", "expired"} /\ Publish("settled", c)
    /\ call' = [call EXCEPT ![c].st = "over"]
    /\ UNCHANGED <<saved, life, made, queue, worker, crashes>>

-----------------------------------------------------------------------------
(* Sleep, wake and crash.                                                  *)

\* The object goes: its turns, and its approvals with the client that asked.
Goes ==
    /\ life' = "asleep" /\ seq' = 0 /\ ring' = <<>> /\ queue' = <<>> /\ worker' = Resting
    /\ call' = [c \in Calls |-> IF c \in Open THEN [call[c] EXCEPT !.st = "gone"] ELSE call[c]]
    /\ UNCHANGED <<log, made>>

\* close(): who watches keeps the stream of the closed object.
Sleep ==
    /\ Awake /\ Goes /\ saved' = Snapshot(ring)
    /\ tab' = [b \in Tabs |-> IF tab[b].at = "on" THEN [tab[b] EXCEPT !.at = "deaf"] ELSE tab[b]]
    /\ UNCHANGED crashes

\* Mutant: the events numbered from one again.
WakeRenumbers ==
    /\ life = "asleep" /\ saved.kept /\ life' = "awake" /\ ring' = saved.events
    /\ seq' = Len(saved.events)
    /\ UNCHANGED <<log, saved, made, queue, worker, call, tab, crashes>>

\* restore(), when there is a record: preload() keeps the numbers.
Wake ==
    /\ life = "asleep" /\ saved.kept /\ life' = "awake" /\ ring' = saved.events
    /\ seq' = IF saved.events = <<>> THEN 0 ELSE Last(saved.events).n
    /\ UNCHANGED <<log, saved, made, queue, worker, call, tab, crashes>>

Crash ==
    /\ crashes < MaxCrashes /\ Awake /\ crashes' = crashes + 1 /\ Goes /\ UNCHANGED saved
    /\ tab' = [b \in Tabs |-> Leaves(tab[b])]

-----------------------------------------------------------------------------
Approval(c) == Expire(c) \/ Settle(c)
Page(b) == Load(b) \/ Reconnect(b) \/ Deliver(b) \/ Disconnect(b)

Next ==
    \/ Submit \/ TakeTurn \/ Say \/ EndTurn \/ Sleep \/ Wake \/ Crash
    \/ \E c \in Calls : AllowedByGrant(c) \/ Ask(c) \/ Approval(c)
                        \/ \E d \in {"allow", "deny"} : Answer(c, d)
    \/ \E b \in Tabs : Page(b)

Spec == Init /\ [][Next]_vars

\* The approval's timer fires, its waiter is run and a stream that is read sends
\* what it has.  Nothing is assumed of the users, the agent or the reaper.
Fairness ==
    /\ \A c \in Calls : WF_vars(Approval(c))
    /\ \A b \in Tabs : SF_vars(Deliver(b))
FairSpec == Spec /\ Fairness

-----------------------------------------------------------------------------
(* Properties. *)

InFlight(b) == {(tab[b].backlog \o tab[b].queue)[j].k :
                    j \in 1 .. Len(tab[b].backlog \o tab[b].queue)}
Shown(b) == {tab[b].shown[j] : j \in DOMAIN tab[b].shown}

\* A page never shows an event twice or out of order, through reconnections,
\* overflows of its queue, sleep and wake.
ShownInOrder ==
    \A b \in Tabs : \A i, j \in DOMAIN tab[b].shown : i < j => tab[b].shown[i] < tab[b].shown[j]

\* "no event can slip between the backlog and the queue": a page whose stream is
\* the session's has shown, or will be sent, every event the ring still holds.
\* A crash loses the numbers it knows (LastIdMeansSame), and this with them.
NothingSlips ==
    crashes = 0 => \A b \in Subscribers : \A j \in DOMAIN ring : ring[j].k \in Shown(b) \cup InFlight(b)

\* The first decision is the one that counts, an expired approval is denied, and
\* nothing else is allowed, whatever else is answered before the waiter runs.
FirstAnswerCounts ==
    \A c \in Calls : call[c].st \in {"answered", "over"} /\ call[c].out # "auto" =>
        call[c].out \in {call[c].said, "deny"} /\ (call[c].st = "answered" => call[c].out = call[c].said)

\* The grants of a scheduled turn serve that turn only, AGENT_GRANT_MAX_USES
\* times at most; a typed turn queued behind it has none.
GrantsBounded ==
    \A t \in Turns : Cardinality({c \in Calls : call[c].turn = t /\ call[c].out = "auto"})
                     <= IF t \in Scheduled THEN MaxUses ELSE 0

\* A page that has been sent everything shows the buttons of an approval only
\* while it can still be decided, or until its session was closed. (A record
\* that a crash leaves may hold the question and not the answer.)
CardsSettle ==
    crashes = 0 => \A b \in Subscribers, c \in Calls :
        /\ InFlight(b) = {} /\ OnPage(b, "ask", c) /\ call[c].st = "over"
        /\ \E j \in DOMAIN ring : log[ring[j].k] = [kind |-> "ask", call |-> c]
        => OnPage(b, "settled", c)

\* No tool call waits for ever for a decision: the timeout denies it.
ApprovalEnds == \A c \in Calls : call[c].st = "pending" ~> call[c].st \in {"over", "gone"}

\* session.py:159 "so a browser's Last-Event-ID still means the same event": the
\* number a page has seen last names, in the ring, the event it has shown last.
LastIdMeansSame ==
    \A b \in Tabs : \A j \in DOMAIN ring :
        tab[b].shown # <<>> /\ ring[j].n = tab[b].last => ring[j].k = Last(tab[b].shown)

\* session.py:195 "the ring + Last-Event-ID replay is how a lagging client
\* catches back up": what a page has not shown since its first event is on its
\* way, or would be if it reconnected now.
LaggingCatchesUp ==
    \A b \in Subscribers : Shown(b) # {} =>
        \A k \in tab[b].shown[1] .. Len(log) :
            \/ k \in Shown(b) \cup InFlight(b)
            \/ \E j \in DOMAIN ring : ring[j].k = k /\ ring[j].n > tab[b].last
=============================================================================
