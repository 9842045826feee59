------------------------------- MODULE Memory -------------------------------
(***************************************************************************)
(* Long-term memory: one table of memories in spaces (memory/store.py),    *)
(* the scopes agents reach it through (memory/client.py), and the two      *)
(* passes that tidy it while they write: consolidation (consolidate.py),   *)
(* which works through lists read before, and the REM dream (rem.py), which*)
(* waits for a critic in between. Passes run in several processes and keep *)
(* no lock; each may die anywhere.                                         *)
(*                                                                         *)
(* How strong a memory is (kind, importance, use count, age) is left open: *)
(* a memory not used lately may have faded or not, for either tier of      *)
(* forgetting. Texts of one gist are near duplicates of each other.        *)
(***************************************************************************)
EXTENDS FiniteSets, Integers, Functions

CONSTANTS
    MemSpaces,          \* memory spaces
    Scopes,             \* agent -> [write, read]
    Texts, GistOf,      \* what is saved, and text -> what it says
    Passes,             \* consolidation passes that may be under way at once
    RemBatch, PruneOneIn,   \* REM_BATCH_MAX; 1 / REM_MAX_PRUNE_FRACTION
    MaxIds, MaxWrites   \* bounds of the model, not of the code

ASSUME MemoryAssumption ==
    /\ IsFiniteSet(MemSpaces) /\ IsFiniteSet(Texts) /\ IsFiniteSet(Passes)
    /\ \A a \in DOMAIN Scopes : Scopes[a].write \in Scopes[a].read /\ Scopes[a].read \subseteq MemSpaces
    /\ DOMAIN GistOf = Texts /\ PruneOneIn \in Nat \ {0} /\ {RemBatch, MaxIds, MaxWrites} \subseteq Nat

VARIABLES
    mem,        \* id -> [space, text, status, used]; NoRow: no row (ids are not reused)
    nextId, writes,
    marks,      \* space -> id up to which it was deduped (consolidation_state.json)
    pass,       \* pass -> [at, todo, into, marks]: an id to do and its survivor
    dream,      \* [on, newest, doomed]: what it was shown last, what to archive
    reviewed,   \* last_reviewed_id, its watermark
    kept        \* lessons <<space, gist>> saved, and not archived, outside any pass

memoryVars == <<mem, nextId, writes, marks, pass, dream, reviewed, kept>>

Ids == 1 .. MaxIds
Gists == Range(GistOf)
NoRow == [space |-> "none", text |-> "none", status |-> "gone", used |-> FALSE]
Row == [space : MemSpaces, text : Texts, status : {"active", "archived"}, used : BOOLEAN]
NoPass == [at |-> "idle", todo |-> {}, into |-> [i \in Ids |-> 0], marks |-> [s \in MemSpaces |-> 0]]
NoDream == [on |-> FALSE, newest |-> 0, doomed |-> {}]

MemoryTypeOK ==
    /\ mem \in [Ids -> Row \cup {NoRow}] /\ nextId \in 1 .. MaxIds + 1 /\ writes \in 0 .. MaxWrites
    /\ marks \in [MemSpaces -> 0 .. MaxIds] /\ reviewed \in 0 .. MaxIds
    /\ pass \in [Passes -> [at : {"idle", "fade", "delete", "merge", "drop"}, todo : SUBSET Ids,
                            into : [Ids -> 0 .. MaxIds], marks : [MemSpaces -> 0 .. MaxIds]]]
    /\ dream \in [on : BOOLEAN, newest : 0 .. MaxIds, doomed : SUBSET Ids]
    /\ kept \subseteq MemSpaces \X Gists

MemoryInit ==
    /\ mem = [i \in Ids |-> NoRow] /\ nextId = 1 /\ writes = 0 /\ reviewed = 0 /\ kept = {}
    /\ marks = [s \in MemSpaces |-> 0]
    /\ pass = [p \in Passes |-> NoPass] /\ dream = NoDream

Active(s) == {i \in Ids : mem[i].status = "active" /\ mem[i].space = s}
ActiveIds == {i \in Ids : mem[i].status = "active"}
Held(s, text) == {i \in Ids : mem[i].status # "gone" /\ mem[i].space = s /\ mem[i].text = text}
Says(i) == GistOf[mem[i].text]
Lesson(i) == IF mem[i] = NoRow THEN <<>> ELSE <<mem[i].space, Says(i)>>
Quiet == \A p \in Passes : pass[p].at = "idle"

Oldest(set) == {i \in set : \A j \in set : i <= j}
Newest(set) == {i \in set : \A j \in set : i >= j}

\* reinforce, archive and delete: UPDATE and DELETE ... WHERE id = ?.
Reinforced(m, i) == IF m[i] = NoRow THEN m ELSE [m EXCEPT ![i].status = "active", ![i].used = TRUE]
Archived(m, i) == IF m[i] = NoRow THEN m ELSE [m EXCEPT ![i].status = "archived"]
Deleted(m, i) == [m EXCEPT ![i] = NoRow]

-----------------------------------------------------------------------------
(* Agents, each through its scope, and the user.                           *)

Writes == writes < MaxWrites /\ writes' = writes + 1 /\ UNCHANGED <<marks, pass, dream, reviewed>>
Learnt(lessons) == kept' = IF Quiet THEN kept \cup lessons ELSE kept

Insert(s, text) ==
    /\ nextId <= MaxIds /\ nextId' = nextId + 1
    /\ mem' = [mem EXCEPT ![nextId] = [space |-> s, text |-> text, status |-> "active", used |-> TRUE]]

\* save: the text that is held is reinforced, archived or not; a paraphrase that
\* is active may be found by its meaning; else a row is inserted. Nothing locks
\* the table between the look-up and the insert: another's save of the text may
\* come between, which makes a clone.
SaveMemory(a, text) ==
    LET s == Scopes[a].write
        like == {i \in Active(s) : Says(i) = GistOf[text]}
    IN  /\ Writes
        /\ \/ \E i \in IF Held(s, text) # {} THEN Held(s, text) ELSE like :
                 mem' = Reinforced(mem, i) /\ UNCHANGED nextId
           \/ /\ \A i \in Held(s, text) : mem[i].status = "active" /\ mem[i].used
              /\ Insert(s, text)
        /\ Learnt({<<s, GistOf[text]>>})

\* recall with reinforce: what is surfaced from the own space is strengthened.
Recall(a) ==
    /\ Writes /\ UNCHANGED <<nextId, kept>>
    /\ \E i \in ActiveIds :
          /\ mem[i].space \in Scopes[a].read
          /\ mem' = IF mem[i].space = Scopes[a].write THEN Reinforced(mem, i) ELSE mem

\* forget and archive, of the own space only.
ForgetMemory(a) ==
    /\ Writes /\ UNCHANGED nextId
    /\ \E i \in Ids : /\ mem[i].space = Scopes[a].write
                      /\ mem' = Archived(mem, i)
                      /\ kept' = kept \ {<<Scopes[a].write, Says(i)>>}

\* archive_space, when its agent is deleted.
ArchiveAll(s) ==
    /\ Writes /\ UNCHANGED nextId
    /\ mem' = [i \in Ids |-> IF i \in Active(s) THEN Archived(mem, i)[i] ELSE mem[i]]
    /\ kept' = {l \in kept : l[1] # s}

\* copy_space, to fork and to promote, in one transaction: a text that is held is
\* reinforced, and another gets one row, however often it is copied.
CopyMemories(src, dst) ==
    /\ src # dst /\ Writes
    /\ \E ids \in SUBSET Active(src) \ {{}} :
          LET texts == {mem[i].text : i \in ids}
              new == {text \in texts : Held(dst, text) = {}}
              from(text) == {i \in ids : mem[i].text = text}
              copy(text) == [space |-> dst, text |-> text, status |-> "active",
                             used |-> \A i \in from(text) : mem[i].used \/ from(text) # {i}]
          IN  /\ nextId' = nextId + Cardinality(new) /\ nextId' <= MaxIds + 1
              /\ \E put \in Bijection(new, nextId .. nextId' - 1), again \in [texts \ new -> Ids] :
                    /\ \A text \in texts \ new : again[text] \in Newest(Held(dst, text))
                    /\ mem' = [j \in Ids |->
                                 IF j \in nextId .. nextId' - 1 THEN copy(CHOOSE text \in new : put[text] = j)
                                 ELSE IF \E text \in texts \ new : again[text] = j THEN Reinforced(mem, j)[j]
                                 ELSE mem[j]]
              /\ Learnt({<<dst, GistOf[text]>> : text \in texts})

\* Days pass without a use; not while a pass is under way, which takes seconds.
GrowsOld(i) ==
    /\ Quiet /\ mem[i] # NoRow /\ mem[i].used
    /\ mem' = [mem EXCEPT ![i].used = FALSE]
    /\ UNCHANGED <<nextId, writes, marks, pass, dream, reviewed, kept>>

-----------------------------------------------------------------------------
(* run_consolidation: three lists, each read once and worked through.      *)

PassSteps(p, h) == pass' = [pass EXCEPT ![p] = h] /\ UNCHANGED <<nextId, writes, dream, reviewed>>

\* _decay_and_archive: what has faded (should_archive) when the list is read.
StartPass(p) ==
    /\ pass[p].at = "idle"
    /\ \E faded \in SUBSET {i \in ActiveIds : ~mem[i].used} :
          PassSteps(p, [NoPass EXCEPT !.at = "fade", !.todo = faded])
    /\ UNCHANGED <<mem, marks, kept>>
FadeOne(p) ==
    LET h == pass[p] IN
    /\ h.at = "fade"
    /\ \E i \in Oldest(h.todo) :
          /\ mem' = Archived(mem, i) /\ kept' = kept \ {Lesson(i)}
          /\ PassSteps(p, [h EXCEPT !.todo = @ \ {i}])
    /\ UNCHANGED marks

\* What was archived and is idle for long enough (should_hard_delete).
ListCold(p) ==
    /\ pass[p].at = "fade" /\ pass[p].todo = {}
    /\ \E cold \in SUBSET {i \in Ids : mem[i].status = "archived" /\ ~mem[i].used} :
          PassSteps(p, [pass[p] EXCEPT !.at = "delete", !.todo = cold])
    /\ UNCHANGED <<mem, marks, kept>>
DeleteOne(p) ==
    LET h == pass[p] IN
    /\ h.at = "delete"
    /\ \E i \in Oldest(h.todo) :
          /\ mem' = Deleted(mem, i) /\ kept' = kept \ {Lesson(i)}
          /\ PassSteps(p, [h EXCEPT !.todo = @ \ {i}])
    /\ UNCHANGED marks

\* _dedupe_group: a memory is a duplicate of the oldest one of its space that is
\* like it, unless the last pass checked it. Mutant: whatever its space.
AlikeAnywhere(i) == {j \in ActiveIds : Says(j) = Says(i)}
Alike(i) == {j \in Active(mem[i].space) : Says(j) = Says(i)}

\* _valid_mark: the mark's memory still has a row.
ValidMark(s) == IF marks[s] # 0 /\ mem[marks[s]] # NoRow THEN marks[s] ELSE 0

\* _dedupe: the active memories and the marks are read; the pairs to merge and
\* the marks the pass will leave follow from them.
ListActive(p) ==
    LET dups == {i \in ActiveIds : i > ValidMark(mem[i].space) /\ Oldest(Alike(i)) \ {i} # {}}
        into == [i \in Ids |-> IF i \in dups THEN CHOOSE j \in Oldest(Alike(i)) : TRUE ELSE 0]
    IN  /\ pass[p].at = "delete" /\ pass[p].todo = {}
        /\ \E newest \in [MemSpaces -> {0} \cup ActiveIds] :
              /\ \A s \in MemSpaces : newest[s] \in Newest({0} \cup (Active(s) \ dups))
              /\ PassSteps(p, [at |-> "merge", todo |-> dups, into |-> into, marks |-> newest])
        /\ UNCHANGED <<mem, marks, kept>>

\* The survivor is reinforced, then the duplicate is dropped.
MergeOne(p) ==
    LET h == pass[p] IN
    /\ h.at = "merge"
    /\ \E i \in Oldest(h.todo) : mem' = Reinforced(mem, h.into[i])
    /\ PassSteps(p, [h EXCEPT !.at = "drop"]) /\ UNCHANGED <<marks, kept>>
DropOne(p) ==
    LET h == pass[p] IN
    /\ h.at = "drop"
    /\ \E i \in Oldest(h.todo) :
          /\ mem' = Deleted(mem, i)
          /\ PassSteps(p, [h EXCEPT !.at = "merge", !.todo = @ \ {i}, !.into[i] = 0])
    /\ UNCHANGED <<marks, kept>>

EndPass(p) ==
    /\ pass[p].at = "merge" /\ pass[p].todo = {} /\ marks' = pass[p].marks
    /\ PassSteps(p, NoPass) /\ UNCHANGED <<mem, kept>>
PassDies(p) ==
    /\ pass[p].at # "idle" /\ PassSteps(p, NoPass) /\ UNCHANGED <<mem, marks, kept>>

-----------------------------------------------------------------------------
(* run_rem, which the main agent starts.                                   *)

Dreams(d) == dream' = d /\ UNCHANGED <<nextId, writes, marks, pass>>

\* _select_buffer: the most important of what is new, or else what is most
\* recent; _reference_set: what else is established.
Recent(n) == {i \in ActiveIds : Cardinality({j \in ActiveIds : j > i}) < n}
Buffers ==
    LET fresh == {i \in ActiveIds : i > reviewed}
    IN  IF fresh = {} THEN {Recent(RemBatch)}
        ELSE {b \in SUBSET fresh : Cardinality(b) = RemBatch} \cup (IF Cardinality(fresh) <= RemBatch THEN {fresh} ELSE {})
\* What the critic will have archived, up to the cap, is among what it is shown.
StartDream ==
    /\ ~dream.on
    /\ \E b \in Buffers \ {{}} : \E reference \in SUBSET (ActiveIds \ b) :
       \E doomed \in SUBSET (b \cup reference), newest \in Newest(b) :
          /\ Cardinality(doomed) <= Cardinality(b) \div PruneOneIn
          /\ Dreams([on |-> TRUE, newest |-> newest, doomed |-> doomed])
    /\ UNCHANGED <<mem, reviewed, kept>>

\* The critic may fail, and the process may die in the middle.
DreamDies == dream.on /\ Dreams(NoDream) /\ UNCHANGED <<mem, reviewed, kept>>

\* _apply, after the critic has answered; then the watermark.
PruneOne ==
    /\ dream.on
    /\ \E i \in dream.doomed :
          /\ mem' = Archived(mem, i) /\ kept' = kept \ {Lesson(i)}
          /\ Dreams([dream EXCEPT !.doomed = @ \ {i}])
    /\ UNCHANGED reviewed
EndDream ==
    /\ dream.on /\ dream.doomed = {} /\ reviewed' = dream.newest /\ Dreams(NoDream)
    /\ UNCHANGED <<mem, kept>>

-----------------------------------------------------------------------------

MemoryNext ==
    \/ \E a \in DOMAIN Scopes : Recall(a) \/ ForgetMemory(a) \/ \E text \in Texts : SaveMemory(a, text)
    \/ \E s \in MemSpaces : ArchiveAll(s) \/ \E t \in MemSpaces : CopyMemories(s, t)
    \/ \E i \in Ids : GrowsOld(i)
    \/ \E p \in Passes :
          \/ StartPass(p) \/ FadeOne(p) \/ ListCold(p) \/ DeleteOne(p)
          \/ ListActive(p) \/ MergeOne(p) \/ DropOne(p) \/ EndPass(p) \/ PassDies(p)
    \/ StartDream \/ PruneOne \/ EndDream \/ DreamDies

MemorySpec == MemoryInit /\ [][MemoryNext]_memoryVars

-----------------------------------------------------------------------------

\* A lesson is not lost by tidying up: what an agent saved in its space, and
\* neither that agent, the user, the critic nor fading has archived since, is
\* active there in some wording, whatever other agents do in their spaces and
\* however passes that work from old lists cross each other.
LessonsKept == \A l \in kept : \E i \in Active(l[1]) : Says(i) = l[2]
=============================================================================
