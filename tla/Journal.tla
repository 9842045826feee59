------------------------------ MODULE Journal -------------------------------
(***************************************************************************)
(* What is learned from doing: the log of tool calls (memory/events.py),   *)
(* the hooks that write it and save an episode at the end of a turn        *)
(* (hooks.py), and the half of a consolidation pass that mines it for      *)
(* recurring sequences, saves them as workflows and prunes it              *)
(* (consolidate.py). Chats of all agents write one log, which passes of    *)
(* several processes read and cut.                                         *)
(*                                                                         *)
(* A tool call is its action label. The log keeps here what is pruned, so  *)
(* that what was learned can be compared with what was done.               *)
(***************************************************************************)
EXTENDS Integers, Sequences, FiniteSets, SequencesExt

CONSTANTS
    ChatsOf,                    \* of each space, in the order of their names, its agent's chats
    Labels, LowSignal,          \* action labels, and those without meaning of their own
    Miners,                     \* consolidation passes that may be under way at once
    GramSizes, RecurThreshold,  \* lengths of a sequence; how often it must recur
    EpisodeMin, LogWindow,      \* EPISODE_MIN_EVENTS; the limit of a query
    EventsKeep, ConsolidateEvery,
    Suppliable,                 \* workflows a user or a pack brings
    MaxEvents, MaxCommands      \* bounds of the model, not of the code

JSpaces == DOMAIN ChatsOf
JChats == UNION {ChatsOf[s] : s \in JSpaces}

ASSUME JournalAssumption ==
    /\ ChatsOf \in Seq(SUBSET JChats) \ {<<>>}
    /\ \A s, t \in JSpaces : s # t => ChatsOf[s] \cap ChatsOf[t] = {}
    /\ LowSignal \subseteq Labels /\ GramSizes \subseteq Nat \ {0}
    /\ {RecurThreshold, EpisodeMin, LogWindow, EventsKeep, ConsolidateEvery} \subseteq Nat \ {0}
    /\ {MaxEvents, MaxCommands} \subseteq Nat /\ Suppliable \subseteq JSpaces \X Seq(Labels)

VARIABLES
    events,     \* every call journaled, [chat, label]; its place is its id
    pruned,     \* ids up to this one are deleted
    turns,      \* chat -> [on, start, from]: _last_prompt's watermark; the end of the log then
    episode,    \* the one the latest step saved, if any: [chat, from, upto, ids]
    synthesized, supplied,  \* workflows <<space, steps>>: detected; saved or imported
    watermark,  \* last_event_id (consolidation_state.json)
    unread,     \* calls journaled since a pass last ended
    miner,      \* pass -> [at, space, found, missing]: the space it has read, what it has to write
    commands

journalVars == <<events, pruned, turns, episode, synthesized, supplied, watermark, unread, miner, commands>>

NoEpisode == [chat |-> "none", from |-> 0, upto |-> 0, ids |-> {}]
NoTurn == [on |-> FALSE, start |-> 0, from |-> 0]
NoMining == [at |-> "idle", space |-> 0, found |-> {}, missing |-> {}]
Grams == UNION {[1 .. n -> Labels] : n \in GramSizes}
Workflows == JSpaces \X Grams

JournalTypeOK ==
    /\ events \in Seq([chat : JChats, label : Labels]) /\ pruned \in 0 .. Len(events)
    /\ turns \in [JChats -> [on : BOOLEAN, start : 0 .. MaxEvents, from : 0 .. MaxEvents]]
    /\ episode \in [chat : JChats, from : 0 .. MaxEvents, upto : 0 .. MaxEvents, ids : SUBSET (1 .. MaxEvents)]
                   \cup {NoEpisode}
    /\ synthesized \subseteq Workflows /\ supplied \subseteq JSpaces \X Seq(Labels)
    /\ watermark \in 0 .. Len(events) /\ unread \in 0 .. Len(events)
    /\ commands \in 0 .. MaxCommands
    /\ miner \in [Miners -> [at : {"idle", "mine", "stamp"}, space : 0 .. Len(ChatsOf),
                             found : SUBSET Workflows, missing : SUBSET Workflows]]

JournalInit ==
    /\ events = <<>> /\ pruned = 0 /\ watermark = 0 /\ unread = 0 /\ commands = 0
    /\ turns = [c \in JChats |-> NoTurn] /\ episode = NoEpisode
    /\ synthesized = {} /\ supplied = {}
    /\ miner = [p \in Miners |-> NoMining]

Remaining == pruned + 1 .. Len(events)
Latest(ids) == {i \in ids : Cardinality({j \in ids : j > i}) < LogWindow}

\* for_task, and recent_events of one space.
OfChat(c) == Latest({i \in Remaining : events[i].chat = c})
OfSpace(s) == Latest({i \in Remaining : events[i].chat \in ChatsOf[s]})

\* max_id. Mutant: the number of rows, which sinks when the log is pruned.
LogRows == Cardinality(Remaining)
LogEnd == IF Remaining = {} THEN 0 ELSE Len(events)

-----------------------------------------------------------------------------
(* The hooks of a turn.                                                    *)

HooksOnly == UNCHANGED <<pruned, synthesized, supplied, watermark, miner>>

\* _turn_start_event_id. Mutant: the episode starts where the chat does.
StartOfChat(c) == 0
StartId(c) == IF OfChat(c) = {} THEN 0 ELSE CHOOSE i \in OfChat(c) : \A j \in OfChat(c) : j <= i

\* UserPromptSubmit; 0 when the memory cannot be reached. The turn before may have
\* ended without its Stop.
PromptHook(c) ==
    /\ commands < MaxCommands /\ commands' = commands + 1
    /\ turns' \in {[turns EXCEPT ![c] = [on |-> TRUE, start |-> StartId(c), from |-> Len(events)]],
                   [turns EXCEPT ![c] = [on |-> TRUE, start |-> 0, from |-> 0]]}
    /\ episode' = NoEpisode /\ UNCHANGED <<events, unread>> /\ HooksOnly

\* PostToolUse; a call that cannot be journaled leaves nothing behind.
EventHook(c, label) ==
    /\ turns[c].on /\ Len(events) < MaxEvents
    /\ events' = Append(events, [chat |-> c, label |-> label]) /\ unread' = unread + 1
    /\ episode' = NoEpisode /\ UNCHANGED <<turns, commands>> /\ HooksOnly

\* Stop: an episode of the calls after the watermark, if they are enough.
EpisodeHook(c) ==
    LET ids == {i \in OfChat(c) : i > turns[c].start}
    IN  /\ turns[c].on /\ turns' = [turns EXCEPT ![c] = NoTurn]
        /\ episode' = IF Cardinality(ids) < EpisodeMin THEN NoEpisode
                      ELSE [chat |-> c, from |-> turns[c].from, upto |-> Len(events), ids |-> ids]
        /\ UNCHANGED <<events, unread, commands>> /\ HooksOnly

-----------------------------------------------------------------------------
(* _detect_patterns and what follows it in run_consolidation.              *)

PassTo(p, h) == miner' = [miner EXCEPT ![p] = h] /\ episode' = NoEpisode /\ UNCHANGED <<events, turns, commands>>

\* The actions among some calls: a run of one label is one, and is its first call.
Actions(ids) == {i \in ids : \A j \in ids : (\A k \in ids : k < i <=> k <= j) => events[j].label # events[i].label}

\* From call i on, the next actions are the gram's.
Occurs(gram, ids, i) == \E steps \in [DOMAIN gram -> Actions(ids)] :
    /\ steps[1] = i /\ \A k \in DOMAIN gram : events[steps[k]].label = gram[k]
    /\ \A k \in 1 .. Len(gram) - 1 :
          steps[k] < steps[k + 1] /\ \A j \in Actions(ids) : ~(steps[k] < j /\ j < steps[k + 1])

\* _tool_ngrams: counted chat by chat. Mutant: over all calls of the space.
SeenMixed(s, gram) == Cardinality({i \in OfSpace(s) : Occurs(gram, OfSpace(s), i)})
Seen(s, gram) ==
    Cardinality({i \in OfSpace(s) : Occurs(gram, {j \in OfSpace(s) : events[j].chat = events[i].chat}, i)})

IsMeaningful(gram) == \E k \in DOMAIN gram : gram[k] \notin LowSignal
Recurring(s) == {gram \in Grams : Seen(s, gram) >= RecurThreshold /\ IsMeaningful(gram)}

\* _contains, and the longest win over what they contain.
Within(gram, longer) ==
    \E k \in 0 .. Len(longer) - Len(gram) : SubSeq(longer, k + 1, k + Len(gram)) = gram
Promoted(s) ==
    LET recurring == Recurring(s)
    IN  {gram \in recurring : ~\E longer \in recurring : Len(longer) > Len(gram) /\ Within(gram, longer)}

\* should_auto_run; a pass may also be asked for (relife consolidate).
ShouldAutoRun == LogEnd - watermark >= ConsolidateEvery

FoundIn(s) == [at |-> "mine", space |-> s, found |-> {<<s, gram>> : gram \in Promoted(s)}, missing |-> {}]
AllWritten(h) == h.at = "mine" /\ h.found = {} /\ h.missing = {}

\* _detect_patterns: the window of each space is read when it is the space's turn.
StartMining(p) ==
    /\ miner[p].at = "idle"
    /\ PassTo(p, FoundIn(1)) /\ UNCHANGED <<pruned, synthesized, supplied, watermark, unread>>
MineNext(p) ==
    /\ AllWritten(miner[p]) /\ miner[p].space < Len(ChatsOf)
    /\ PassTo(p, FoundIn(miner[p].space + 1))
    /\ UNCHANGED <<pruned, synthesized, supplied, watermark, unread>>

\* read_workflow, and write_workflow where there was none: whatever is there by
\* then is overwritten.
LookUp(p) ==
    /\ miner[p].missing = {}
    /\ \E w \in miner[p].found :
          PassTo(p, [miner[p] EXCEPT !.found = @ \ {w}, !.missing = {w} \ (synthesized \cup supplied)])
    /\ UNCHANGED <<pruned, synthesized, supplied, watermark, unread>>
WriteWorkflow(p) ==
    LET missing == miner[p].missing IN
    /\ missing # {}
    /\ synthesized' = synthesized \cup missing /\ supplied' = supplied \ missing
    /\ PassTo(p, [miner[p] EXCEPT !.missing = {}]) /\ UNCHANGED <<pruned, watermark, unread>>

\* events.prune, by id whatever the space, and _write_state.
PruneLog(p) ==
    /\ AllWritten(miner[p]) /\ miner[p].space = Len(ChatsOf)
    /\ pruned' = IF LogEnd - EventsKeep > pruned THEN LogEnd - EventsKeep ELSE pruned
    /\ PassTo(p, [miner[p] EXCEPT !.at = "stamp"]) /\ UNCHANGED <<synthesized, supplied, watermark, unread>>
EndMining(p) ==
    /\ miner[p].at = "stamp"
    /\ watermark' = LogEnd /\ unread' = 0
    /\ PassTo(p, NoMining) /\ UNCHANGED <<pruned, synthesized, supplied>>
MinerDies(p) ==
    /\ miner[p].at # "idle"
    /\ PassTo(p, NoMining) /\ UNCHANGED <<pruned, synthesized, supplied, watermark, unread>>

\* write_workflow, for the user or an agent; import_pack and copy_space, where the
\* space lacks it.
SaveWorkflow ==
    /\ commands < MaxCommands /\ commands' = commands + 1
    /\ \E w \in Suppliable : supplied' = supplied \cup {w} /\ synthesized' = synthesized \ {w}
    /\ episode' = NoEpisode
    /\ UNCHANGED <<events, turns, pruned, watermark, unread, miner>>

JournalNext ==
    \/ \E c \in JChats : PromptHook(c) \/ EpisodeHook(c) \/ (\E label \in Labels : EventHook(c, label))
    \/ \E p \in Miners : StartMining(p) \/ MineNext(p) \/ LookUp(p) \/ WriteWorkflow(p)
    \/ \E p \in Miners : PruneLog(p) \/ EndMining(p) \/ MinerDies(p)
    \/ SaveWorkflow

JournalSpec == JournalInit /\ [][JournalNext]_journalVars

-----------------------------------------------------------------------------

\* An episode tells of its own turn: no call of an earlier turn or of another
\* chat, and none of its own is left out but what was pruned or is beyond the
\* window (a chat whose start could not be looked up counts from its beginning).
EpisodesOwn ==
    LET own == {i \in episode.from + 1 .. episode.upto : events[i].chat = episode.chat}
    IN  /\ episode.ids \subseteq own
        /\ \A i \in own \ episode.ids : i <= pruned \/ Cardinality({j \in own : j > i}) >= LogWindow

\* Where one chat of the space began to do these steps, in all it ever did.
DoneBy(s, gram) ==
    {i \in DOMAIN events :
        /\ events[i].chat \in ChatsOf[s]
        /\ Occurs(gram, {j \in DOMAIN events : events[j].chat = events[i].chat}, i)}

\* A synthesized workflow is a sequence that chats of its own space really did,
\* each step by step and as often as the threshold asks, whatever other chats
\* logged in between and however the log was pruned and read meanwhile.
WorkflowsRecur == \A w \in synthesized : Cardinality(DoneBy(w[1], w[2])) >= RecurThreshold /\ IsMeaningful(w[2])

\* Pruning does not stall the throttle: after so many calls since a pass ended,
\* the next turn starts another.
ThrottleFires == unread >= ConsolidateEvery => ShouldAutoRun

\* What is learned is what was done (hooks.py, consolidate.py), and learning goes on.
LearntTruly == EpisodesOwn /\ WorkflowsRecur /\ ThrottleFires
=============================================================================
