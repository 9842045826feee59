---------------------------- MODULE MemoryProofs ----------------------------
(***************************************************************************)
(* That tidying up loses no lesson, for any number of agents, spaces and   *)
(* passes at once. A pass that will drop a memory knew an older one that   *)
(* says the same; that one may itself have been dropped since, but only    *)
(* for one older still: of a lesson nobody archives, some wording stays.   *)
(***************************************************************************)
EXTENDS Memory, FiniteSetTheorems, TLAPS

Merging(p) == pass[p].at \in {"merge", "drop"}

\* What a pass will drop has a row, or had one: its id is not given again.
Issued ==
    /\ \A i \in Ids : i >= nextId => mem[i] = NoRow
    /\ \A p \in Passes : Merging(p) => \A i \in pass[p].todo : i < nextId /\ pass[p].into[i] \in Ids

\* An older memory says the same of every memory a pass will drop.
Older ==
    \A p \in Passes : Merging(p) => \A i \in pass[p].todo :
        mem[i] # NoRow /\ Lesson(i) \in kept =>
            \E k \in Active(mem[i].space) : k < i /\ Says(k) = Says(i)

MemoryInv == MemoryTypeOK /\ Issued /\ Older /\ LessonsKept

-----------------------------------------------------------------------------
(* Types.                                                                  *)

LEMMA RowOrNot == NoRow \notin Row
  BY DEF NoRow, Row

LEMMA ActiveTyped ==
  ASSUME MemoryTypeOK
  PROVE  /\ ActiveIds \subseteq Ids
         /\ \A s : Active(s) \subseteq ActiveIds
         /\ \A i \in ActiveIds : mem[i] \in Row
         /\ \A i \in Ids : mem[i] # NoRow => mem[i] \in Row /\ Lesson(i) = <<mem[i].space, Says(i)>>
                                             /\ Lesson(i) \in MemSpaces \X Gists
  BY MemoryAssumption DEF MemoryTypeOK, ActiveIds, Active, NoRow, Row, Lesson, Says, Gists, Range

\* What reinforce, archive and delete leave of the table.
LEMMA RowUpdates ==
  ASSUME MemoryTypeOK, NEW i \in Ids
  PROVE  /\ Reinforced(mem, i) \in [Ids -> Row \cup {NoRow}]
         /\ Archived(mem, i) \in [Ids -> Row \cup {NoRow}]
         /\ Deleted(mem, i) \in [Ids -> Row \cup {NoRow}]
<1>1. mem \in [Ids -> Row \cup {NoRow}]
  BY DEF MemoryTypeOK
<1>2. CASE mem[i] = NoRow
  BY <1>1, <1>2 DEF Reinforced, Archived, Deleted
<1>3. CASE mem[i] \in Row
  <2>1. [mem[i] EXCEPT !.status = "active", !.used = TRUE] \in Row
    BY <1>3 DEF Row
  <2>2. [mem[i] EXCEPT !.status = "archived"] \in Row
    BY <1>3 DEF Row
  <2>3. Reinforced(mem, i) = [mem EXCEPT ![i] = [mem[i] EXCEPT !.status = "active", !.used = TRUE]]
    BY <1>1, <1>3, RowOrNot DEF Reinforced
  <2>4. Archived(mem, i) = [mem EXCEPT ![i] = [mem[i] EXCEPT !.status = "archived"]]
    BY <1>1, <1>3, RowOrNot DEF Archived
  <2>. QED
    BY <1>1, <2>1, <2>2, <2>3, <2>4 DEF Deleted
<1>. QED
  BY <1>1, <1>2, <1>3

-----------------------------------------------------------------------------
(* Steps that keep what is active of the lessons that count.               *)

\* A row that stays says what it said, and is active still if its lesson counts.
SameRows ==
    /\ \A i \in Ids : i < nextId /\ mem'[i] # NoRow =>
          mem[i] # NoRow /\ mem'[i].space = mem[i].space /\ mem'[i].text = mem[i].text
    /\ \A i \in ActiveIds : Lesson(i) \in kept' => mem'[i] # NoRow /\ mem'[i].status = "active"
\* Lessons are only learnt while no pass is under way.
LearntQuietly ==
    \/ kept' \subseteq kept
    \/ Quiet /\ \A l \in kept' \ kept : \E i \in Ids :
          mem'[i] # NoRow /\ mem'[i].status = "active" /\ mem'[i].space = l[1] /\ GistOf[mem'[i].text] = l[2]
\* A pass gets nothing more to drop.
PassesGoOn ==
    \A p \in Passes : Merging(p)' =>
        Merging(p) /\ pass'[p].todo \subseteq pass[p].todo /\ \A i \in pass'[p].todo : pass'[p].into[i] = pass[p].into[i]

LEMMA Keeps ==
  ASSUME MemoryInv, MemoryTypeOK', SameRows, LearntQuietly, PassesGoOn,
         nextId' >= nextId, \A i \in Ids : i >= nextId' => mem'[i] = NoRow
  PROVE  MemoryInv'
<1>. USE DEF MemoryInv
<1>1. \A i \in ActiveIds : i < nextId /\ i \in Ids /\ mem[i] \in Row /\ mem[i] # NoRow
  BY ActiveTyped, RowOrNot DEF MemoryTypeOK, Issued, Ids
<1>2. Issued'
  <2>1. ASSUME NEW p \in Passes, Merging(p)', NEW i \in pass'[p].todo
        PROVE  i < nextId' /\ pass'[p].into[i] \in Ids
    <3>1. i < nextId /\ pass[p].into[i] \in Ids /\ pass'[p].into[i] = pass[p].into[i] /\ i \in Ids
      BY <2>1 DEF PassesGoOn, Issued, MemoryTypeOK
    <3>. QED
      BY <3>1 DEF MemoryTypeOK, Ids
  <2>. QED
    BY <2>1 DEF Issued
<1>3. Older'
  <2>1. SUFFICES ASSUME NEW p \in Passes, Merging(p)', NEW i \in pass'[p].todo,
                        mem'[i] # NoRow, Lesson(i)' \in kept'
                 PROVE  \E k \in Active(mem[i].space)' : k < i /\ Says(k)' = Says(i)'
    BY DEF Older
  <2>2. Merging(p) /\ i \in pass[p].todo /\ i \in Ids /\ i < nextId
    BY <2>1 DEF PassesGoOn, Issued, MemoryTypeOK
  <2>3. kept' \subseteq kept
    BY <2>2 DEF LearntQuietly, Quiet, Merging
  <2>4. mem[i] # NoRow /\ mem'[i].space = mem[i].space /\ mem'[i].text = mem[i].text
    BY <2>1, <2>2 DEF SameRows
  <2>5. Lesson(i)' = Lesson(i) /\ Says(i)' = Says(i)
    BY <2>1, <2>4 DEF Lesson, Says
  <2>6. PICK k \in Active(mem[i].space) : k < i /\ Says(k) = Says(i)
    BY <2>1, <2>2, <2>3, <2>4, <2>5 DEF Older
  <2>7. k \in ActiveIds /\ mem[k].space = mem[i].space
    BY <2>6 DEF Active, ActiveIds
  <2>8. Lesson(k) = Lesson(i)
    BY <1>1, <2>4, <2>6, <2>7 DEF Lesson
  <2>9. mem'[k] # NoRow /\ mem'[k].status = "active"
    BY <2>1, <2>5, <2>7, <2>8 DEF SameRows
  <2>10. mem'[k].space = mem[k].space /\ mem'[k].text = mem[k].text
    BY <1>1, <2>7, <2>9 DEF SameRows
  <2>11. k \in Active(mem[i].space)' /\ Says(k)' = Says(k)
    BY <1>1, <2>4, <2>7, <2>9, <2>10 DEF Active, Says
  <2>. QED
    BY <2>5, <2>6, <2>11
<1>4. LessonsKept'
  <2>1. SUFFICES ASSUME NEW l \in kept' PROVE \E i \in Active(l[1])' : Says(i)' = l[2]
    BY DEF LessonsKept
  <2>2. CASE l \in kept
    <3>1. PICK i \in Active(l[1]) : Says(i) = l[2]
      BY <2>2 DEF LessonsKept
    <3>2. i \in ActiveIds /\ mem[i].space = l[1]
      BY <3>1 DEF Active, ActiveIds
    <3>3. l = <<l[1], l[2]>>
      BY <2>2 DEF MemoryTypeOK
    <3>4. Lesson(i) = l
      BY <1>1, <3>1, <3>2, <3>3 DEF Lesson
    <3>5. mem'[i] # NoRow /\ mem'[i].status = "active" /\ mem'[i].space = mem[i].space /\ mem'[i].text = mem[i].text
      BY <1>1, <2>1, <3>2, <3>4 DEF SameRows
    <3>6. i \in Active(l[1])' /\ Says(i)' = Says(i)
      BY <1>1, <3>2, <3>5 DEF Active, Says
    <3>. QED
      BY <3>1, <3>6
  <2>3. CASE l \notin kept
    <3>1. PICK i \in Ids : mem'[i] # NoRow /\ mem'[i].status = "active" /\ mem'[i].space = l[1]
                           /\ GistOf[mem'[i].text] = l[2]
      BY <2>1, <2>3 DEF LearntQuietly
    <3>. QED
      BY <3>1 DEF Active, Says
  <2>. QED
    BY <2>2, <2>3
<1>. QED
  BY <1>2, <1>3, <1>4

-----------------------------------------------------------------------------
(* One row changes.                                                        *)

LEMMA ReinforcedRow ==
  ASSUME MemoryTypeOK, NEW i \in Ids, NEW j \in Ids
  PROVE  LET m == Reinforced(mem, i) IN
         /\ mem[j] = NoRow => m[j] = NoRow
         /\ mem[j] # NoRow => m[j] # NoRow /\ m[j].space = mem[j].space /\ m[j].text = mem[j].text
         /\ m[j] = mem[j] \/ m[j].status = "active"
         /\ mem[i] # NoRow => m[i].status = "active"
<1>1. mem \in [Ids -> Row \cup {NoRow}]
  BY DEF MemoryTypeOK
<1>2. CASE mem[i] = NoRow
  BY <1>1, <1>2 DEF Reinforced
<1>3. CASE mem[i] \in Row
  <2>. DEFINE r == [mem[i] EXCEPT !.status = "active", !.used = TRUE]
  <2>1. Reinforced(mem, i) = [mem EXCEPT ![i] = r]
    BY <1>1, <1>3, RowOrNot DEF Reinforced
  <2>2. r \in Row /\ r.space = mem[i].space /\ r.text = mem[i].text /\ r.status = "active"
    BY <1>3 DEF Row
  <2>. HIDE DEF r
  <2>3. Reinforced(mem, i)[j] = IF j = i THEN r ELSE mem[j]
    BY <1>1, <2>1
  <2>4. Reinforced(mem, i)[i] = r
    BY <1>1, <2>1
  <2>5. r # NoRow /\ mem[i] # NoRow
    BY <1>3, <2>2, RowOrNot
  <2>. QED
    BY <2>2, <2>3, <2>4, <2>5
<1>. QED
  BY <1>1, <1>2, <1>3

LEMMA ArchivedRow ==
  ASSUME MemoryTypeOK, NEW i \in Ids, NEW j \in Ids
  PROVE  LET m == Archived(mem, i) IN
         /\ j # i => m[j] = mem[j]
         /\ mem[j] = NoRow => m[j] = NoRow
         /\ mem[j] # NoRow => m[j] # NoRow /\ m[j].space = mem[j].space /\ m[j].text = mem[j].text
<1>1. mem \in [Ids -> Row \cup {NoRow}]
  BY DEF MemoryTypeOK
<1>2. CASE mem[i] = NoRow
  BY <1>1, <1>2 DEF Archived
<1>3. CASE mem[i] \in Row
  <2>. DEFINE r == [mem[i] EXCEPT !.status = "archived"]
  <2>1. Archived(mem, i) = [mem EXCEPT ![i] = r]
    BY <1>1, <1>3, RowOrNot DEF Archived
  <2>2. r \in Row /\ r.space = mem[i].space /\ r.text = mem[i].text
    BY <1>3 DEF Row
  <2>. HIDE DEF r
  <2>3. Archived(mem, i)[j] = IF j = i THEN r ELSE mem[j]
    BY <1>1, <2>1
  <2>4. r # NoRow /\ mem[i] # NoRow
    BY <1>3, <2>2, RowOrNot
  <2>. QED
    BY <2>2, <2>3, <2>4
<1>. QED
  BY <1>1, <1>2, <1>3

\* A step that reinforces a row and learns nothing keeps the invariant.
LEMMA ReinforceKeeps ==
  ASSUME MemoryInv, NEW i \in Ids, mem' = Reinforced(mem, i), kept' = kept, nextId' = nextId,
         MemoryTypeOK', PassesGoOn
  PROVE  MemoryInv'
<1>. USE DEF MemoryInv
<1>1. SameRows
  BY ReinforcedRow, ActiveTyped, RowOrNot DEF SameRows, ActiveIds
<1>2. \A j \in Ids : j >= nextId' => mem'[j] = NoRow
  BY ReinforcedRow DEF Issued
<1>3. nextId' >= nextId
  BY DEF MemoryTypeOK
<1>. QED
  BY <1>1, <1>2, <1>3, Keeps DEF LearntQuietly

\* So does one that archives a row and no longer counts its lesson.
LEMMA ArchiveKeeps ==
  ASSUME MemoryInv, NEW i \in Ids, mem' = Archived(mem, i), kept' \subseteq kept,
         mem[i] # NoRow => Lesson(i) \notin kept', nextId' = nextId, MemoryTypeOK', PassesGoOn
  PROVE  MemoryInv'
<1>. USE DEF MemoryInv
<1>1. SameRows
  <2>1. ASSUME NEW j \in ActiveIds, Lesson(j) \in kept' PROVE mem'[j] # NoRow /\ mem'[j].status = "active"
    <3>1. j \in Ids /\ mem[j] # NoRow /\ mem[j].status = "active"
      BY ActiveTyped, RowOrNot DEF ActiveIds
    <3>2. j # i
      BY <2>1, <3>1
    <3>. QED
      BY <3>1, <3>2, ArchivedRow
  <2>2. ASSUME NEW j \in Ids, mem'[j] # NoRow
        PROVE  mem[j] # NoRow /\ mem'[j].space = mem[j].space /\ mem'[j].text = mem[j].text
    BY <2>2, ArchivedRow
  <2>. QED
    BY <2>1, <2>2 DEF SameRows
<1>2. \A j \in Ids : j >= nextId' => mem'[j] = NoRow
  BY ArchivedRow DEF Issued
<1>3. nextId' >= nextId
  BY DEF MemoryTypeOK
<1>. QED
  BY <1>1, <1>2, <1>3, Keeps DEF LearntQuietly

\* And one that leaves the table as it is.
LEMMA SameTableKeeps ==
  ASSUME MemoryInv, mem' = mem, kept' \subseteq kept, nextId' = nextId, MemoryTypeOK', PassesGoOn
  PROVE  MemoryInv'
<1>. USE DEF MemoryInv
<1>1. SameRows
  BY ActiveTyped, RowOrNot DEF SameRows, ActiveIds
<1>2. nextId' >= nextId /\ \A j \in Ids : j >= nextId' => mem'[j] = NoRow
  BY DEF MemoryTypeOK, Issued
<1>. QED
  BY <1>1, <1>2, Keeps DEF LearntQuietly

LEMMA SamePasses == ASSUME MemoryTypeOK, pass' = pass PROVE PassesGoOn
  BY DEF PassesGoOn, Merging

-----------------------------------------------------------------------------
(* The agents and the user.                                                *)

LEMMA RecallKeeps ==
  ASSUME MemoryInv, NEW a \in DOMAIN Scopes, Recall(a)
  PROVE  MemoryInv'
<1>. USE DEF MemoryInv
<1>1. pass' = pass /\ nextId' = nextId /\ kept' = kept /\ dream' = dream /\ marks' = marks /\ reviewed' = reviewed
      /\ writes < MaxWrites /\ writes' = writes + 1
  BY DEF Recall, Writes
<1>2. PICK i \in ActiveIds : mem' = IF mem[i].space = Scopes[a].write THEN Reinforced(mem, i) ELSE mem
  BY DEF Recall
<1>3. i \in Ids
  BY ActiveTyped
<1>4. mem' = mem \/ mem' = Reinforced(mem, i)
  BY <1>2
<1>5. MemoryTypeOK'
  <2>1. mem' \in [Ids -> Row \cup {NoRow}]
    BY <1>3, <1>4, RowUpdates DEF MemoryTypeOK
  <2>2. writes' \in 0 .. MaxWrites
    BY <1>1, MemoryAssumption DEF MemoryTypeOK
  <2>. QED
    BY <1>1, <2>1, <2>2 DEF MemoryTypeOK
<1>. QED
  BY <1>1, <1>3, <1>4, <1>5, SamePasses, ReinforceKeeps, SameTableKeeps

LEMMA ForgetKeeps ==
  ASSUME MemoryInv, NEW a \in DOMAIN Scopes, ForgetMemory(a)
  PROVE  MemoryInv'
<1>. USE DEF MemoryInv
<1>1. pass' = pass /\ nextId' = nextId /\ dream' = dream /\ marks' = marks /\ reviewed' = reviewed
      /\ writes < MaxWrites /\ writes' = writes + 1
  BY DEF ForgetMemory, Writes
<1>2. PICK i \in Ids : /\ mem[i].space = Scopes[a].write /\ mem' = Archived(mem, i)
                       /\ kept' = kept \ {<<Scopes[a].write, Says(i)>>}
  BY DEF ForgetMemory
<1>3. mem[i] # NoRow => Lesson(i) \notin kept'
  BY <1>2 DEF Lesson
<1>4. MemoryTypeOK'
  <2>1. mem' \in [Ids -> Row \cup {NoRow}]
    BY <1>2, RowUpdates
  <2>2. writes' \in 0 .. MaxWrites
    BY <1>1, MemoryAssumption DEF MemoryTypeOK
  <2>. QED
    BY <1>1, <1>2, <2>1, <2>2 DEF MemoryTypeOK
<1>. QED
  BY <1>1, <1>2, <1>3, <1>4, SamePasses, ArchiveKeeps

LEMMA ArchiveAllKeeps ==
  ASSUME MemoryInv, NEW s \in MemSpaces, ArchiveAll(s)
  PROVE  MemoryInv'
<1>. USE DEF MemoryInv
<1>1. pass' = pass /\ nextId' = nextId /\ dream' = dream /\ marks' = marks /\ reviewed' = reviewed
      /\ writes < MaxWrites /\ writes' = writes + 1
  BY DEF ArchiveAll, Writes
<1>2. /\ mem' = [i \in Ids |-> IF i \in Active(s) THEN Archived(mem, i)[i] ELSE mem[i]]
      /\ kept' = {l \in kept : l[1] # s}
  BY DEF ArchiveAll
<1>3. \A i \in Ids : Archived(mem, i)[i] \in Row \cup {NoRow}
  BY RowUpdates
<1>4. MemoryTypeOK'
  <2>1. mem' \in [Ids -> Row \cup {NoRow}]
    BY <1>2, <1>3 DEF MemoryTypeOK
  <2>2. writes' \in 0 .. MaxWrites
    BY <1>1, MemoryAssumption DEF MemoryTypeOK
  <2>. QED
    BY <1>1, <1>2, <2>1, <2>2 DEF MemoryTypeOK
<1>5. SameRows
  <2>1. ASSUME NEW i \in Ids, mem'[i] # NoRow
        PROVE  mem[i] # NoRow /\ mem'[i].space = mem[i].space /\ mem'[i].text = mem[i].text
    <3>1. mem'[i] = mem[i] \/ mem'[i] = Archived(mem, i)[i]
      BY <1>2
    <3>. QED
      BY <2>1, <3>1, ArchivedRow
  <2>2. ASSUME NEW i \in ActiveIds, Lesson(i) \in kept' PROVE mem'[i] # NoRow /\ mem'[i].status = "active"
    <3>1. i \in Ids /\ mem[i] # NoRow /\ mem[i].status = "active" /\ Lesson(i) = <<mem[i].space, Says(i)>>
      BY ActiveTyped, RowOrNot DEF ActiveIds
    <3>2. mem[i].space # s
      BY <1>2, <2>2, <3>1
    <3>. QED
      BY <1>2, <3>1, <3>2 DEF Active
  <2>. QED
    BY <2>1, <2>2 DEF SameRows
<1>6. \A i \in Ids : i >= nextId' => mem'[i] = NoRow
  <2>1. ASSUME NEW i \in Ids, i >= nextId' PROVE mem'[i] = NoRow
    <3>1. mem[i] = NoRow
      BY <1>1, <2>1 DEF Issued
    <3>2. mem'[i] = mem[i] \/ mem'[i] = Archived(mem, i)[i]
      BY <1>2
    <3>. QED
      BY <3>1, <3>2, ArchivedRow
  <2>. QED
    BY <2>1
<1>7. nextId' >= nextId /\ LearntQuietly
  BY <1>1, <1>2 DEF MemoryTypeOK, LearntQuietly
<1>. QED
  BY <1>1, <1>4, <1>5, <1>6, <1>7, SamePasses, Keeps

\* A save reinforces a row of the text, or of its gist, or inserts one.
LEMMA SaveKeeps ==
  ASSUME MemoryInv, NEW a \in DOMAIN Scopes, NEW text \in Texts, SaveMemory(a, text)
  PROVE  MemoryInv'
<1>. USE DEF MemoryInv
<1>. DEFINE s == Scopes[a].write
<1>1. pass' = pass /\ dream' = dream /\ marks' = marks /\ reviewed' = reviewed
      /\ writes < MaxWrites /\ writes' = writes + 1
  BY DEF SaveMemory, Writes
<1>2. s \in MemSpaces /\ <<s, GistOf[text]>> \in MemSpaces \X Gists
  BY MemoryAssumption DEF Gists, Range
<1>3. kept' = IF Quiet THEN kept \cup {<<s, GistOf[text]>>} ELSE kept
  BY DEF SaveMemory, Learnt
<1>4. writes' \in 0 .. MaxWrites /\ kept' \subseteq MemSpaces \X Gists
  BY <1>1, <1>2, <1>3, MemoryAssumption DEF MemoryTypeOK
<1>5. ASSUME NEW i \in Ids, mem'[i] # NoRow, mem'[i].status = "active", mem'[i].space = s,
             GistOf[mem'[i].text] = GistOf[text]
      PROVE  LearntQuietly
  <2>1. \A l \in kept' \ kept : Quiet /\ l[1] = s /\ l[2] = GistOf[text]
    BY <1>3
  <2>. QED
    BY <1>3, <1>5, <2>1 DEF LearntQuietly
<1>6. ASSUME NEW i \in Ids, mem[i] # NoRow, mem[i].space = s, GistOf[mem[i].text] = GistOf[text],
             mem' = Reinforced(mem, i), nextId' = nextId
      PROVE  MemoryInv'
  <2>1. mem' \in [Ids -> Row \cup {NoRow}]
    BY <1>6, RowUpdates
  <2>2. MemoryTypeOK'
    BY <1>1, <1>4, <1>6, <2>1 DEF MemoryTypeOK
  <2>3. SameRows
    BY <1>6, ReinforcedRow, ActiveTyped, RowOrNot DEF SameRows, ActiveIds
  <2>4. LearntQuietly
    BY <1>5, <1>6, ReinforcedRow
  <2>5. \A j \in Ids : j >= nextId' => mem'[j] = NoRow
    BY <1>6, ReinforcedRow DEF Issued
  <2>6. nextId' >= nextId
    BY <1>6 DEF MemoryTypeOK
  <2>. QED
    BY <1>1, <2>2, <2>3, <2>4, <2>5, <2>6, SamePasses, Keeps
<1>7. ASSUME Insert(s, text) PROVE MemoryInv'
  <2>. DEFINE r == [space |-> s, text |-> text, status |-> "active", used |-> TRUE]
  <2>1. nextId \in Ids /\ nextId' = nextId + 1 /\ mem' = [mem EXCEPT ![nextId] = r]
    BY <1>7 DEF Insert, Ids, MemoryTypeOK
  <2>2. r \in Row /\ r.space = s /\ r.text = text /\ r.status = "active"
    BY <1>2 DEF Row
  <2>. HIDE DEF r, s
  <2>3. r # NoRow
    BY <2>2, RowOrNot
  <2>4. \A j \in Ids : mem'[j] = IF j = nextId THEN r ELSE mem[j]
    BY <2>1 DEF MemoryTypeOK
  <2>5. MemoryTypeOK'
    <3>1. mem' \in [Ids -> Row \cup {NoRow}]
      BY <2>1, <2>2 DEF MemoryTypeOK
    <3>2. nextId' \in 1 .. MaxIds + 1
      BY <2>1, MemoryAssumption DEF Ids
    <3>. QED
      BY <1>1, <1>4, <3>1, <3>2 DEF MemoryTypeOK
  <2>6. SameRows
    <3>1. \A i \in ActiveIds : mem[i] # NoRow /\ i \in Ids /\ mem[i].status = "active"
      BY ActiveTyped, RowOrNot DEF ActiveIds
    <3>. QED
      BY <2>1, <2>2, <2>3, <2>4, <3>1 DEF SameRows, Ids
  <2>7. LearntQuietly
    BY <1>5, <2>1, <2>2, <2>3, <2>4
  <2>8. \A j \in Ids : j >= nextId' => mem'[j] = NoRow
    BY <2>1, <2>4 DEF Issued, Ids
  <2>9. nextId' >= nextId
    BY <2>1 DEF Ids
  <2>. QED
    BY <1>1, <2>5, <2>6, <2>7, <2>8, <2>9, SamePasses, Keeps
<1>8. CASE \E i \in IF Held(s, text) # {} THEN Held(s, text) ELSE {i \in Active(s) : Says(i) = GistOf[text]} :
              mem' = Reinforced(mem, i) /\ UNCHANGED nextId
  <2>1. PICK i \in Held(s, text) \cup {i \in Active(s) : Says(i) = GistOf[text]} :
               mem' = Reinforced(mem, i) /\ nextId' = nextId
    BY <1>8
  <2>2. i \in Ids /\ mem[i] # NoRow /\ mem[i].space = s /\ GistOf[mem[i].text] = GistOf[text]
    BY <2>1 DEF Held, Active, Says, NoRow
  <2>. QED
    BY <1>6, <2>1, <2>2
<1>. QED
  BY <1>7, <1>8 DEF SaveMemory

\* A copy gives each text that is not held a row of its own, and reinforces the others.
LEMMA CopyKeeps ==
  ASSUME MemoryInv, NEW src \in MemSpaces, NEW dst \in MemSpaces, CopyMemories(src, dst)
  PROVE  MemoryInv'
<1>. USE DEF MemoryInv
<1>1. pass' = pass /\ dream' = dream /\ marks' = marks /\ reviewed' = reviewed
      /\ writes < MaxWrites /\ writes' = writes + 1
  BY DEF CopyMemories, Writes
<1>2. PICK ids \in SUBSET Active(src) :
        LET texts == {mem[i].text : i \in ids}
            new == {text \in texts : Held(dst, text) = {}}
            from(text) == {i \in ids : mem[i].text = text}
            copy(text) == [space |-> dst, text |-> text, status |-> "active",
                           used |-> \A i \in from(text) : mem[i].used \/ from(text) # {i}]
        IN  /\ nextId' = nextId + Cardinality(new) /\ nextId' <= MaxIds + 1
            /\ \E put \in Bijection(new, nextId .. nextId' - 1), again \in [texts \ new -> Ids] :
                  /\ \A text \in texts \ new : again[text] \in Newest(Held(dst, text))
                  /\ mem' = [j \in Ids |->
                               IF j \in nextId .. nextId' - 1 THEN copy(CHOOSE text \in new : put[text] = j)
                               ELSE IF \E text \in texts \ new : again[text] = j THEN Reinforced(mem, j)[j]
                               ELSE mem[j]]
            /\ Learnt({<<dst, GistOf[text]>> : text \in texts})
  BY DEF CopyMemories
<1>. DEFINE texts == {mem[i].text : i \in ids}
            new == {text \in texts : Held(dst, text) = {}}
            from(text) == {i \in ids : mem[i].text = text}
            copy(text) == [space |-> dst, text |-> text, status |-> "active",
                           used |-> \A i \in from(text) : mem[i].used \/ from(text) # {i}]
<1>3. nextId' = nextId + Cardinality(new) /\ nextId' <= MaxIds + 1 /\ Learnt({<<dst, GistOf[text]>> : text \in texts})
  BY <1>2
<1>4. PICK put \in Bijection(new, nextId .. nextId' - 1), again \in [texts \ new -> Ids] :
        /\ \A text \in texts \ new : again[text] \in Newest(Held(dst, text))
        /\ mem' = [j \in Ids |->
                     IF j \in nextId .. nextId' - 1 THEN copy(CHOOSE text \in new : put[text] = j)
                     ELSE IF \E text \in texts \ new : again[text] = j THEN Reinforced(mem, j)[j]
                     ELSE mem[j]]
  BY <1>2
<1>5. texts \subseteq Texts /\ new \subseteq texts
  BY ActiveTyped DEF Row
<1>6. \A text \in texts : copy(text) \in Row /\ copy(text).space = dst /\ copy(text).text = text
                           /\ copy(text).status = "active"
  BY <1>5 DEF Row
<1>. HIDE DEF copy, from
<1>7. put \in [new -> nextId .. nextId' - 1] /\ (\A t, u \in new : put[t] = put[u] => t = u)
      /\ \A j \in nextId .. nextId' - 1 : \E text \in new : put[text] = j
  BY <1>4 DEF Bijection, Injection, Surjection, IsInjective
<1>8. Cardinality(new) \in Nat
  <2>1. IsFiniteSet(Texts) /\ new \subseteq Texts
    BY <1>5, MemoryAssumption
  <2>. HIDE DEF new, texts
  <2>2. IsFiniteSet(new)
    BY <2>1, FS_Subset
  <2>. QED
    BY <2>2, FS_CardinalityType
<1>. DEFINE chosen(j) == CHOOSE text \in new : put[text] = j
<1>9. \A j \in nextId .. nextId' - 1 : chosen(j) \in new /\ put[chosen(j)] = j
  BY <1>7
<1>10. nextId \in Nat \ {0} /\ MaxIds \in Nat /\ nextId' \in Nat /\ nextId' >= nextId /\ nextId' \in 1 .. MaxIds + 1
       /\ nextId .. nextId' - 1 \subseteq Ids
  <2>1. nextId \in Nat \ {0} /\ MaxIds \in Nat
    BY MemoryAssumption DEF MemoryTypeOK
  <2>. HIDE DEF new
  <2>. QED
    BY <1>3, <1>8, <2>1 DEF Ids
<1>11. \A text \in texts \ new : /\ again[text] \in Ids /\ mem[again[text]] # NoRow
                                  /\ mem[again[text]].space = dst /\ mem[again[text]].text = text
                                  /\ again[text] < nextId
  <2>1. \A text \in texts \ new : again[text] \in Ids /\ again[text] \in Held(dst, text)
    BY <1>4 DEF Newest
  <2>2. \A text \in texts \ new : /\ again[text] \in Ids /\ mem[again[text]] # NoRow
                                  /\ mem[again[text]].space = dst /\ mem[again[text]].text = text
    BY <2>1 DEF Held, NoRow
  <2>. QED
    BY <1>10, <2>2 DEF Issued, Ids
<1>12. \A j \in Ids :
          /\ j \in nextId .. nextId' - 1 => mem'[j] = copy(chosen(j))
          /\ j \notin nextId .. nextId' - 1 => mem'[j] = mem[j] \/ mem'[j] = Reinforced(mem, j)[j]
          /\ j \notin nextId .. nextId' - 1 /\ (\E text \in texts \ new : again[text] = j) => mem'[j] = Reinforced(mem, j)[j]
  BY <1>4
<1>. HIDE DEF texts, new, chosen
<1>13. mem' \in [Ids -> Row \cup {NoRow}]
  <2>1. \A j \in Ids : mem'[j] \in Row \cup {NoRow}
    <3>1. SUFFICES ASSUME NEW j \in Ids PROVE mem'[j] \in Row \cup {NoRow}
      OBVIOUS
    <3>2. CASE j \in nextId .. nextId' - 1
      <4>1. chosen(j) \in texts
        BY <1>5, <1>9, <3>2
      <4>. QED
        BY <1>6, <1>12, <3>2, <4>1
    <3>3. CASE j \notin nextId .. nextId' - 1
      <4>1. mem[j] \in Row \cup {NoRow} /\ Reinforced(mem, j)[j] \in Row \cup {NoRow}
        BY RowUpdates DEF MemoryTypeOK
      <4>2. mem'[j] = mem[j] \/ mem'[j] = Reinforced(mem, j)[j]
        BY <1>12, <3>3
      <4>. QED
        BY <4>1, <4>2
    <3>. QED
      BY <3>2, <3>3
  <2>2. DOMAIN mem' = Ids /\ mem' = [j \in DOMAIN mem' |-> mem'[j]]
    BY <1>4
  <2>. QED
    BY <2>1, <2>2
<1>14. {<<dst, GistOf[text]>> : text \in texts} \subseteq MemSpaces \X Gists
  BY <1>5, MemoryAssumption DEF Gists, Range
<1>15. MemoryTypeOK'
  <2>1. kept' \subseteq MemSpaces \X Gists
    BY <1>3, <1>14 DEF Learnt, MemoryTypeOK
  <2>2. writes' \in 0 .. MaxWrites
    BY <1>1, MemoryAssumption DEF MemoryTypeOK
  <2>. QED
    BY <1>1, <1>10, <1>13, <2>1, <2>2 DEF MemoryTypeOK
<1>16. SameRows
  <2>1. ASSUME NEW j \in Ids, j < nextId PROVE mem'[j] = mem[j] \/ mem'[j] = Reinforced(mem, j)[j]
    <3>1. ~(j >= nextId)
      BY <1>10, <2>1 DEF Ids
    <3>2. j \notin nextId .. nextId' - 1
      BY <3>1
    <3>. QED
      BY <1>12, <3>2
  <2>2. ASSUME NEW j \in Ids, j < nextId, mem'[j] # NoRow
        PROVE  mem[j] # NoRow /\ mem'[j].space = mem[j].space /\ mem'[j].text = mem[j].text
    BY <2>1, <2>2, ReinforcedRow
  <2>3. ASSUME NEW j \in ActiveIds PROVE mem'[j] # NoRow /\ mem'[j].status = "active"
    <3>1. j \in Ids /\ mem[j] # NoRow /\ mem[j].status = "active"
      BY ActiveTyped, RowOrNot DEF ActiveIds
    <3>2. j < nextId
      BY <1>10, <3>1 DEF Issued, Ids
    <3>. QED
      BY <2>1, <3>1, <3>2, ReinforcedRow
  <2>. QED
    BY <2>2, <2>3 DEF SameRows
<1>17. \A text \in texts : \E j \in Ids :
          mem'[j] # NoRow /\ mem'[j].status = "active" /\ mem'[j].space = dst /\ mem'[j].text = text
  <2>1. SUFFICES ASSUME NEW text \in texts
                 PROVE  \E j \in Ids : mem'[j] # NoRow /\ mem'[j].status = "active" /\ mem'[j].space = dst
                                       /\ mem'[j].text = text
    OBVIOUS
  <2>2. CASE text \in new
    <3>1. put[text] \in nextId .. nextId' - 1 /\ put[text] \in Ids
      BY <1>7, <1>10, <2>2
    <3>2. chosen(put[text]) = text
      BY <1>7, <1>9, <2>2, <3>1
    <3>3. mem'[put[text]] = copy(text)
      BY <1>12, <3>1, <3>2
    <3>4. copy(text) # NoRow
      BY <1>6, RowOrNot
    <3>. QED
      BY <1>6, <3>1, <3>3, <3>4
  <2>3. CASE text \notin new
    <3>1. again[text] \in Ids /\ again[text] \notin nextId .. nextId' - 1
      BY <1>10, <1>11, <2>3 DEF Ids
    <3>2. mem'[again[text]] = Reinforced(mem, again[text])[again[text]]
      BY <1>12, <2>3, <3>1
    <3>. QED
      BY <1>11, <2>3, <3>1, <3>2, ReinforcedRow
  <2>. QED
    BY <2>2, <2>3
<1>18. LearntQuietly
  <2>1. CASE ~Quiet
    BY <1>3, <2>1 DEF Learnt, LearntQuietly
  <2>2. CASE Quiet
    <3>1. \A l \in kept' \ kept : \E text \in texts : l = <<dst, GistOf[text]>>
      BY <1>3 DEF Learnt
    <3>. QED
      BY <1>17, <2>2, <3>1 DEF LearntQuietly
  <2>. QED
    BY <2>1, <2>2
<1>19. \A j \in Ids : j >= nextId' => mem'[j] = NoRow
  <2>1. ASSUME NEW j \in Ids, j >= nextId' PROVE mem'[j] = NoRow
    <3>1. j \notin nextId .. nextId' - 1 /\ mem[j] = NoRow
      BY <1>10, <2>1 DEF Issued, Ids
    <3>. QED
      BY <1>12, <3>1, ReinforcedRow
  <2>. QED
    BY <2>1
<1>. QED
  BY <1>1, <1>10, <1>15, <1>16, <1>18, <1>19, SamePasses, Keeps

-----------------------------------------------------------------------------
(* The passes.                                                             *)

PassState == [at : {"idle", "fade", "delete", "merge", "drop"}, todo : SUBSET Ids,
              into : [Ids -> 0 .. MaxIds], marks : [MemSpaces -> 0 .. MaxIds]]

LEMMA IdlePass == NoPass \in PassState
  BY MemoryAssumption DEF NoPass, PassState

LEMMA PassTyped ==
  ASSUME MemoryTypeOK, NEW p \in Passes, NEW h \in PassState, PassSteps(p, h),
         mem' \in [Ids -> Row \cup {NoRow}], marks' \in [MemSpaces -> 0 .. MaxIds], kept' \subseteq kept
  PROVE  /\ MemoryTypeOK' /\ nextId' = nextId
         /\ \A q \in Passes : pass'[q] = IF q = p THEN h ELSE pass[q]
<1>1. pass \in [Passes -> PassState]
  BY DEF MemoryTypeOK, PassState
<1>2. pass' \in [Passes -> PassState] /\ \A q \in Passes : pass'[q] = IF q = p THEN h ELSE pass[q]
  BY <1>1 DEF PassSteps
<1>3. nextId' = nextId /\ writes' = writes /\ dream' = dream /\ reviewed' = reviewed
  BY DEF PassSteps
<1>4. kept' \subseteq MemSpaces \X Gists
  BY DEF MemoryTypeOK
<1>. QED
  BY <1>2, <1>3, <1>4 DEF MemoryTypeOK, PassState

\* A pass that merges no more, or has less to merge than before.
LEMMA PassGoesOn ==
  ASSUME MemoryTypeOK, NEW p \in Passes, NEW h \in PassState,
         \A q \in Passes : pass'[q] = IF q = p THEN h ELSE pass[q],
         h.at \in {"merge", "drop"} =>
            Merging(p) /\ h.todo \subseteq pass[p].todo /\ \A i \in h.todo : h.into[i] = pass[p].into[i]
  PROVE  PassesGoOn
  BY DEF PassesGoOn, Merging

LEMMA PassFields ==
  ASSUME MemoryTypeOK, NEW p \in Passes
  PROVE  /\ pass[p] \in PassState /\ pass[p].todo \subseteq Ids /\ pass[p].into \in [Ids -> 0 .. MaxIds]
         /\ mem \in [Ids -> Row \cup {NoRow}] /\ marks \in [MemSpaces -> 0 .. MaxIds]
         /\ \A i \in Ids : i \in 0 .. MaxIds
  BY DEF MemoryTypeOK, PassState, Ids

LEMMA StartPassKeeps ==
  ASSUME MemoryInv, NEW p \in Passes, StartPass(p) \/ ListCold(p)
  PROVE  MemoryInv'
<1>. USE DEF MemoryInv
<1>1. CASE StartPass(p)
  <2>1. PICK faded \in SUBSET {i \in ActiveIds : ~mem[i].used} :
               PassSteps(p, [NoPass EXCEPT !.at = "fade", !.todo = faded])
    BY <1>1 DEF StartPass
  <2>. DEFINE h == [NoPass EXCEPT !.at = "fade", !.todo = faded]
  <2>2. h \in PassState /\ h.at = "fade"
    BY IdlePass, ActiveTyped DEF PassState
  <2>3. mem' = mem /\ marks' = marks /\ kept' = kept /\ PassSteps(p, h)
    BY <1>1, <2>1 DEF StartPass
  <2>. HIDE DEF h
  <2>4. MemoryTypeOK' /\ nextId' = nextId /\ \A q \in Passes : pass'[q] = IF q = p THEN h ELSE pass[q]
    BY <2>2, <2>3, PassTyped, PassFields
  <2>5. PassesGoOn
    BY <2>2, <2>4, PassGoesOn
  <2>. QED
    BY <2>3, <2>4, <2>5, SameTableKeeps
<1>2. CASE ListCold(p)
  <2>1. PICK cold \in SUBSET {i \in Ids : mem[i].status = "archived" /\ ~mem[i].used} :
               PassSteps(p, [pass[p] EXCEPT !.at = "delete", !.todo = cold])
    BY <1>2 DEF ListCold
  <2>. DEFINE h == [pass[p] EXCEPT !.at = "delete", !.todo = cold]
  <2>2. h \in PassState /\ h.at = "delete"
    BY PassFields DEF PassState
  <2>3. mem' = mem /\ marks' = marks /\ kept' = kept /\ PassSteps(p, h)
    BY <1>2, <2>1 DEF ListCold
  <2>. HIDE DEF h
  <2>4. MemoryTypeOK' /\ nextId' = nextId /\ \A q \in Passes : pass'[q] = IF q = p THEN h ELSE pass[q]
    BY <2>2, <2>3, PassTyped, PassFields
  <2>5. PassesGoOn
    BY <2>2, <2>4, PassGoesOn
  <2>. QED
    BY <2>3, <2>4, <2>5, SameTableKeeps
<1>. QED
  BY <1>1, <1>2

LEMMA FadeKeeps ==
  ASSUME MemoryInv, NEW p \in Passes, FadeOne(p)
  PROVE  MemoryInv'
<1>. USE DEF MemoryInv
<1>1. PICK i \in Oldest(pass[p].todo) :
             /\ mem' = Archived(mem, i) /\ kept' = kept \ {Lesson(i)}
             /\ PassSteps(p, [pass[p] EXCEPT !.todo = @ \ {i}])
  BY DEF FadeOne
<1>. DEFINE h == [pass[p] EXCEPT !.todo = @ \ {i}]
<1>2. i \in Ids /\ h \in PassState /\ h.at = "fade"
  BY PassFields DEF Oldest, PassState, FadeOne
<1>3. PassSteps(p, h) /\ marks' = marks
  BY <1>1 DEF FadeOne
<1>. HIDE DEF h
<1>4. mem' \in [Ids -> Row \cup {NoRow}]
  BY <1>1, <1>2, RowUpdates
<1>5. MemoryTypeOK' /\ nextId' = nextId /\ \A q \in Passes : pass'[q] = IF q = p THEN h ELSE pass[q]
  BY <1>1, <1>2, <1>3, <1>4, PassTyped, PassFields
<1>6. PassesGoOn
  BY <1>2, <1>5, PassGoesOn
<1>. QED
  BY <1>1, <1>2, <1>5, <1>6, ArchiveKeeps

\* One row goes, and its lesson is not counted any more.
LEMMA DeleteKeeps ==
  ASSUME MemoryInv, NEW p \in Passes, DeleteOne(p)
  PROVE  MemoryInv'
<1>. USE DEF MemoryInv
<1>1. PICK i \in Oldest(pass[p].todo) :
             /\ mem' = Deleted(mem, i) /\ kept' = kept \ {Lesson(i)}
             /\ PassSteps(p, [pass[p] EXCEPT !.todo = @ \ {i}])
  BY DEF DeleteOne
<1>. DEFINE h == [pass[p] EXCEPT !.todo = @ \ {i}]
<1>2. i \in Ids /\ h \in PassState /\ h.at = "delete"
  BY PassFields DEF Oldest, PassState, DeleteOne
<1>3. PassSteps(p, h) /\ marks' = marks
  BY <1>1 DEF DeleteOne
<1>. HIDE DEF h
<1>4. mem' \in [Ids -> Row \cup {NoRow}] /\ \A j \in Ids : mem'[j] = IF j = i THEN NoRow ELSE mem[j]
  BY <1>1, <1>2, PassFields DEF Deleted
<1>5. MemoryTypeOK' /\ nextId' = nextId /\ \A q \in Passes : pass'[q] = IF q = p THEN h ELSE pass[q]
  BY <1>1, <1>2, <1>3, <1>4, PassTyped, PassFields
<1>6. PassesGoOn
  BY <1>2, <1>5, PassGoesOn
<1>7. SameRows
  <2>1. ASSUME NEW j \in ActiveIds, Lesson(j) \in kept' PROVE mem'[j] # NoRow /\ mem'[j].status = "active"
    <3>1. j \in Ids /\ j # i /\ mem[j] # NoRow /\ mem[j].status = "active"
      BY <1>1, <2>1, ActiveTyped, RowOrNot DEF ActiveIds
    <3>. QED
      BY <1>4, <3>1
  <2>. QED
    BY <1>4, <2>1 DEF SameRows
<1>8. \A j \in Ids : j >= nextId' => mem'[j] = NoRow
  BY <1>4, <1>5 DEF Issued
<1>9. nextId' >= nextId /\ LearntQuietly
  BY <1>1, <1>5 DEF MemoryTypeOK, LearntQuietly
<1>. QED
  BY <1>5, <1>6, <1>7, <1>8, <1>9, Keeps

LEMMA MergeKeeps ==
  ASSUME MemoryInv, NEW p \in Passes, MergeOne(p)
  PROVE  MemoryInv'
<1>. USE DEF MemoryInv
<1>1. PICK i \in Oldest(pass[p].todo) : mem' = Reinforced(mem, pass[p].into[i])
  BY DEF MergeOne
<1>. DEFINE h == [pass[p] EXCEPT !.at = "drop"]
<1>2. h \in PassState /\ h.at = "drop" /\ h.todo = pass[p].todo /\ h.into = pass[p].into
  BY PassFields DEF PassState
<1>3. PassSteps(p, h) /\ marks' = marks /\ kept' = kept /\ Merging(p)
  BY DEF MergeOne, Merging
<1>. HIDE DEF h
<1>4. pass[p].into[i] \in Ids
  BY <1>1, <1>3 DEF Oldest, Issued
<1>5. mem' \in [Ids -> Row \cup {NoRow}]
  BY <1>1, <1>4, RowUpdates
<1>6. MemoryTypeOK' /\ nextId' = nextId /\ \A q \in Passes : pass'[q] = IF q = p THEN h ELSE pass[q]
  BY <1>2, <1>3, <1>5, PassTyped, PassFields
<1>7. PassesGoOn
  BY <1>2, <1>3, <1>6, PassGoesOn
<1>. QED
  BY <1>1, <1>3, <1>4, <1>6, <1>7, ReinforceKeeps

LEMMA EndPassKeeps ==
  ASSUME MemoryInv, NEW p \in Passes, EndPass(p) \/ PassDies(p)
  PROVE  MemoryInv'
<1>. USE DEF MemoryInv
<1>1. PassSteps(p, NoPass) /\ mem' = mem /\ kept' = kept /\ (marks' = marks \/ marks' = pass[p].marks)
  BY DEF EndPass, PassDies
<1>2. NoPass \in PassState /\ NoPass.at = "idle"
  BY IdlePass DEF NoPass
<1>3. mem' \in [Ids -> Row \cup {NoRow}] /\ marks' \in [MemSpaces -> 0 .. MaxIds]
  BY <1>1, PassFields DEF PassState
<1>4. MemoryTypeOK' /\ nextId' = nextId /\ \A q \in Passes : pass'[q] = IF q = p THEN NoPass ELSE pass[q]
  BY <1>1, <1>2, <1>3, PassTyped
<1>5. PassesGoOn
  BY <1>2, <1>4, PassGoesOn
<1>. QED
  BY <1>1, <1>4, <1>5, SameTableKeeps

\* What a pass lists to drop follows an older memory of the same space and gist.
LEMMA ListKeeps ==
  ASSUME MemoryInv, NEW p \in Passes, ListActive(p)
  PROVE  MemoryInv'
<1>. USE DEF MemoryInv
<1>. DEFINE dups == {i \in ActiveIds : i > ValidMark(mem[i].space) /\ Oldest(Alike(i)) \ {i} # {}}
            into == [i \in Ids |-> IF i \in dups THEN CHOOSE j \in Oldest(Alike(i)) : TRUE ELSE 0]
<1>1. PICK newest \in [MemSpaces -> {0} \cup ActiveIds] :
             PassSteps(p, [at |-> "merge", todo |-> dups, into |-> into, marks |-> newest])
  BY DEF ListActive
<1>. DEFINE h == [at |-> "merge", todo |-> dups, into |-> into, marks |-> newest]
<1>2. \A i \in dups : /\ i \in ActiveIds /\ i \in Ids /\ into[i] \in Oldest(Alike(i))
                      /\ into[i] \in Active(mem[i].space) /\ into[i] < i /\ Says(into[i]) = Says(i)
  <2>1. SUFFICES ASSUME NEW i \in dups
                 PROVE  /\ i \in Ids /\ into[i] \in Oldest(Alike(i))
                        /\ into[i] \in Active(mem[i].space) /\ into[i] < i /\ Says(into[i]) = Says(i)
    OBVIOUS
  <2>2. i \in Ids /\ i \in ActiveIds /\ i \in Alike(i)
    BY ActiveTyped DEF Alike, Active, ActiveIds
  <2>3. into[i] = CHOOSE j \in Oldest(Alike(i)) : TRUE
    BY <2>2
  <2>4. PICK j \in Oldest(Alike(i)) : j # i
    OBVIOUS
  <2>5. into[i] \in Oldest(Alike(i))
    BY <2>3, <2>4
  <2>. HIDE DEF into, dups
  <2>6. into[i] \in Alike(i) /\ j \in Alike(i) /\ into[i] <= j /\ j <= into[i] /\ j <= i
    BY <2>2, <2>4, <2>5 DEF Oldest
  <2>7. \A k \in Alike(i) : k \in Int
    BY DEF Alike, Active, Ids
  <2>8. into[i] < i
    BY <2>2, <2>4, <2>6, <2>7
  <2>. QED
    BY <2>2, <2>5, <2>6, <2>8 DEF Alike
<1>3. into \in [Ids -> 0 .. MaxIds] /\ \A i \in dups : into[i] \in Ids
  <2>. HIDE DEF dups, into
  <2>1. \A i \in dups : into[i] \in Ids
    BY <1>2, ActiveTyped
  <2>2. \A i \in Ids \ dups : into[i] = 0
    BY DEF into
  <2>3. 0 \in 0 .. MaxIds /\ Ids \subseteq 0 .. MaxIds
    BY MemoryAssumption DEF Ids
  <2>4. \A i \in Ids : into[i] \in 0 .. MaxIds
    BY <2>1, <2>2, <2>3
  <2>. QED
    BY <2>1, <2>4 DEF into
<1>4. dups \subseteq Ids
  BY <1>2
<1>5. newest \in [MemSpaces -> 0 .. MaxIds]
  BY ActiveTyped, MemoryAssumption DEF Ids
<1>. HIDE DEF dups, into
<1>6. h \in PassState
  BY <1>3, <1>4, <1>5 DEF PassState
<1>7. PassSteps(p, h) /\ mem' = mem /\ marks' = marks /\ kept' = kept
  BY <1>1 DEF ListActive
<1>8. h.at = "merge" /\ h.todo = dups /\ h.into = into
  OBVIOUS
<1>. HIDE DEF h
<1>9. MemoryTypeOK' /\ nextId' = nextId /\ \A q \in Passes : pass'[q] = IF q = p THEN h ELSE pass[q]
  BY <1>6, <1>7, PassTyped, PassFields
<1>10. Issued'
  <2>1. \A i \in dups : i < nextId
    BY <1>2, ActiveTyped, RowOrNot DEF Issued, Ids, MemoryTypeOK
  <2>. QED
    BY <1>3, <1>7, <1>8, <1>9, <2>1 DEF Issued, Merging
<1>11. Older'
  <2>1. SUFFICES ASSUME NEW q \in Passes, Merging(q)', NEW i \in pass'[q].todo, mem[i] # NoRow, Lesson(i) \in kept
                 PROVE  \E k \in Active(mem[i].space) : k < i /\ Says(k) = Says(i)
    BY <1>7 DEF Older, Lesson, Active, Says
  <2>2. CASE q = p
    BY <1>2, <1>8, <1>9, <2>1, <2>2
  <2>3. CASE q # p
    BY <1>9, <2>1, <2>3 DEF Older, Merging
  <2>. QED
    BY <2>2, <2>3
<1>12. LessonsKept'
  BY <1>7 DEF LessonsKept, Active, Says
<1>. QED
  BY <1>9, <1>10, <1>11, <1>12

\* What is dropped leaves an older memory, which stands in for it everywhere.
LEMMA DropKeeps ==
  ASSUME MemoryInv, NEW p \in Passes, DropOne(p)
  PROVE  MemoryInv'
<1>. USE DEF MemoryInv
<1>1. PICK i \in Oldest(pass[p].todo) :
             /\ mem' = Deleted(mem, i)
             /\ PassSteps(p, [pass[p] EXCEPT !.at = "merge", !.todo = @ \ {i}, !.into[i] = 0])
  BY DEF DropOne
<1>. DEFINE h == [pass[p] EXCEPT !.at = "merge", !.todo = @ \ {i}, !.into[i] = 0]
<1>2. i \in Ids /\ i \in pass[p].todo /\ pass[p].todo \subseteq Ids
  BY PassFields DEF Oldest
<1>3. /\ h.at = "merge" /\ h.todo = pass[p].todo \ {i} /\ h.into = [pass[p].into EXCEPT ![i] = 0]
      /\ h.marks = pass[p].marks /\ DOMAIN h = {"at", "todo", "into", "marks"}
  BY PassFields DEF PassState
<1>4. h \in PassState
  <2>. HIDE DEF h
  <2>1. [pass[p].into EXCEPT ![i] = 0] \in [Ids -> 0 .. MaxIds]
    <3>1. pass[p].into \in [Ids -> 0 .. MaxIds]
      BY PassFields
    <3>2. 0 \in 0 .. MaxIds
      BY MemoryAssumption
    <3>. QED
      BY <3>1, <3>2
  <2>2. pass[p] \in PassState
    BY PassFields
  <2>. QED
    BY <1>2, <2>1, <2>2 DEF PassState, h
<1>5. PassSteps(p, h) /\ marks' = marks /\ kept' = kept /\ Merging(p)
  BY <1>1 DEF DropOne, Merging
<1>. HIDE DEF h
<1>6. mem' \in [Ids -> Row \cup {NoRow}] /\ \A j \in Ids : mem'[j] = IF j = i THEN NoRow ELSE mem[j]
  BY <1>1, <1>2, PassFields DEF Deleted
<1>7. MemoryTypeOK' /\ nextId' = nextId /\ \A q \in Passes : pass'[q] = IF q = p THEN h ELSE pass[q]
  BY <1>4, <1>5, <1>6, PassTyped, PassFields
<1>8. PassesGoOn
  BY <1>2, <1>3, <1>4, <1>5, <1>7, PassGoesOn, PassFields
<1>9. Issued'
  <2>1. \A j \in Ids : j >= nextId' => mem'[j] = NoRow
    BY <1>6, <1>7 DEF Issued
  <2>2. ASSUME NEW q \in Passes, Merging(q)', NEW j \in pass'[q].todo
        PROVE  j < nextId' /\ pass'[q].into[j] \in Ids
    BY <1>7, <1>8, <2>2 DEF Issued, PassesGoOn
  <2>. QED
    BY <2>1, <2>2 DEF Issued
\* Every lesson that counts and is active is active in a memory other than i.
<1>10. ASSUME NEW s, NEW n \in Int, NEW g, <<s, g>> \in kept,
              NEW k \in Active(s), k < n, Says(k) = g
       PROVE  \E k2 \in Active(s)' : k2 < n /\ Says(k2)' = g
  <2>1. k \in Ids /\ mem[k] # NoRow /\ Lesson(k) = <<s, g>> /\ mem[k].space = s
    BY <1>10, ActiveTyped, RowOrNot DEF Active
  <2>2. CASE k # i
    BY <1>6, <1>10, <2>1, <2>2 DEF Active, Says
  <2>3. CASE k = i
    <3>1. PICK k2 \in Active(s) : k2 < i /\ Says(k2) = g
      BY <1>2, <1>5, <1>10, <2>1, <2>3 DEF Older
    <3>2. k2 \in Ids /\ k2 # i /\ k2 < n
      BY <1>2, <1>10, <2>3, <3>1 DEF Active, Ids
    <3>. QED
      BY <1>6, <3>1, <3>2 DEF Active, Says
  <2>. QED
    BY <2>2, <2>3
<1>11. Older'
  <2>1. SUFFICES ASSUME NEW q \in Passes, Merging(q)', NEW j \in pass'[q].todo, mem'[j] # NoRow, Lesson(j)' \in kept'
                 PROVE  \E k \in Active(mem[j].space)' : k < j /\ Says(k)' = Says(j)'
    BY DEF Older
  <2>2. j \in Ids /\ Merging(q) /\ j \in pass[q].todo
    BY <1>7, <1>8, <2>1 DEF PassesGoOn, MemoryTypeOK
  <2>3. j # i /\ mem'[j] = mem[j]
    BY <1>6, <2>1, <2>2
  <2>4. mem[j] # NoRow /\ Lesson(j) \in kept /\ Says(j)' = Says(j) /\ Lesson(j) = <<mem[j].space, Says(j)>>
    BY <1>5, <2>1, <2>3 DEF Lesson, Says
  <2>5. PICK k \in Active(mem[j].space) : k < j /\ Says(k) = Says(j)
    BY <2>2, <2>4 DEF Older
  <2>6. \E k2 \in Active(mem[j].space)' : k2 < j /\ Says(k2)' = Says(j)
    <3>1. j \in Int /\ <<mem[j].space, Says(j)>> \in kept
      BY <2>2, <2>4 DEF Ids
    <3>2. PICK k2 \in Ids : /\ mem'[k2].status = "active" /\ mem'[k2].space = mem[j].space
                            /\ k2 < j /\ GistOf[mem'[k2].text] = Says(j)
      BY <1>10, <2>5, <3>1 DEF Active, Says
    <3>. QED
      BY <2>3, <3>2 DEF Active, Says
  <2>. QED
    BY <2>4, <2>6
<1>12. LessonsKept'
  <2>1. SUFFICES ASSUME NEW l \in kept PROVE \E j \in Active(l[1])' : Says(j)' = l[2]
    BY <1>5 DEF LessonsKept
  <2>2. l = <<l[1], l[2]>>
    BY DEF MemoryTypeOK
  <2>3. PICK k \in Active(l[1]) : Says(k) = l[2]
    BY DEF LessonsKept
  <2>4. k + 1 \in Int /\ k < k + 1
    BY <2>3 DEF Active, Ids
  <2>. QED
    BY <1>10, <2>2, <2>3, <2>4
<1>. QED
  BY <1>7, <1>9, <1>11, <1>12

-----------------------------------------------------------------------------
(* Days that pass, and the dream.                                          *)

LEMMA GrowsOldKeeps ==
  ASSUME MemoryInv, NEW i \in Ids, GrowsOld(i)
  PROVE  MemoryInv'
<1>. USE DEF MemoryInv
<1>1. /\ nextId' = nextId /\ writes' = writes /\ marks' = marks /\ pass' = pass /\ dream' = dream
      /\ reviewed' = reviewed /\ kept' = kept /\ mem[i] # NoRow /\ mem' = [mem EXCEPT ![i].used = FALSE]
  BY DEF GrowsOld
<1>. DEFINE r == [mem[i] EXCEPT !.used = FALSE]
<1>2. /\ r \in Row /\ r.space = mem[i].space /\ r.text = mem[i].text /\ r.status = mem[i].status
      /\ mem' = [mem EXCEPT ![i] = r]
  BY <1>1, ActiveTyped DEF Row
<1>. HIDE DEF r
<1>3. mem' \in [Ids -> Row \cup {NoRow}] /\ \A j \in Ids : mem'[j] = IF j = i THEN r ELSE mem[j]
  BY <1>2 DEF MemoryTypeOK
<1>4. MemoryTypeOK'
  BY <1>1, <1>3 DEF MemoryTypeOK
<1>5. SameRows
  <2>1. r # NoRow
    BY <1>2, RowOrNot
  <2>2. \A j \in ActiveIds : j \in Ids /\ mem[j] # NoRow /\ mem[j].status = "active"
    BY ActiveTyped, RowOrNot DEF ActiveIds
  <2>. QED
    BY <1>1, <1>2, <1>3, <2>1, <2>2 DEF SameRows
<1>6. \A j \in Ids : j >= nextId' => mem'[j] = NoRow
  BY <1>1, <1>3 DEF Issued
<1>7. nextId' >= nextId /\ LearntQuietly
  BY <1>1 DEF MemoryTypeOK, LearntQuietly
<1>. QED
  BY <1>1, <1>4, <1>5, <1>6, <1>7, SamePasses, Keeps

DreamState == [on : BOOLEAN, newest : 0 .. MaxIds, doomed : SUBSET Ids]

LEMMA DreamTyped ==
  ASSUME MemoryTypeOK, NEW d \in DreamState, Dreams(d),
         mem' \in [Ids -> Row \cup {NoRow}], reviewed' \in 0 .. MaxIds, kept' \subseteq kept
  PROVE  MemoryTypeOK' /\ nextId' = nextId /\ PassesGoOn
<1>1. pass' = pass /\ nextId' = nextId /\ writes' = writes /\ marks' = marks /\ dream' = d
  BY DEF Dreams
<1>2. kept' \subseteq MemSpaces \X Gists
  BY DEF MemoryTypeOK
<1>3. MemoryTypeOK'
  BY <1>1, <1>2 DEF MemoryTypeOK, DreamState
<1>. QED
  BY <1>1, <1>3, SamePasses

LEMMA StartDreamKeeps ==
  ASSUME MemoryInv, StartDream
  PROVE  MemoryInv'
<1>. USE DEF MemoryInv
<1>1. PICK b \in Buffers \ {{}} : \E reference \in SUBSET (ActiveIds \ b) :
        \E doomed \in SUBSET (b \cup reference), newest \in Newest(b) :
           Dreams([on |-> TRUE, newest |-> newest, doomed |-> doomed])
  BY DEF StartDream
<1>2. b \subseteq Ids
  <2>1. b \subseteq ActiveIds
    BY <1>1 DEF Buffers, Recent
  <2>. QED
    BY <2>1, ActiveTyped
<1>3. PICK reference \in SUBSET (ActiveIds \ b) :
        \E doomed \in SUBSET (b \cup reference), newest \in Newest(b) :
           Dreams([on |-> TRUE, newest |-> newest, doomed |-> doomed])
  BY <1>1
<1>4. PICK doomed \in SUBSET (b \cup reference), newest \in Newest(b) :
        Dreams([on |-> TRUE, newest |-> newest, doomed |-> doomed])
  BY <1>3
<1>5. doomed \subseteq Ids /\ newest \in 0 .. MaxIds
  BY <1>2, ActiveTyped DEF Newest, Ids
<1>6. [on |-> TRUE, newest |-> newest, doomed |-> doomed] \in DreamState
  BY <1>5 DEF DreamState
<1>7. mem' = mem /\ reviewed' = reviewed /\ kept' = kept
  BY DEF StartDream
<1>8. MemoryTypeOK' /\ nextId' = nextId /\ PassesGoOn
  BY <1>4, <1>6, <1>7, DreamTyped DEF MemoryTypeOK
<1>. QED
  BY <1>7, <1>8, SameTableKeeps

LEMMA EndDreamKeeps ==
  ASSUME MemoryInv, EndDream \/ DreamDies
  PROVE  MemoryInv'
<1>. USE DEF MemoryInv
<1>1. Dreams(NoDream) /\ mem' = mem /\ kept' = kept /\ (reviewed' = reviewed \/ reviewed' = dream.newest)
  BY DEF EndDream, DreamDies
<1>2. NoDream \in DreamState
  BY MemoryAssumption DEF NoDream, DreamState
<1>3. reviewed' \in 0 .. MaxIds /\ mem' \in [Ids -> Row \cup {NoRow}]
  BY <1>1 DEF MemoryTypeOK
<1>4. MemoryTypeOK' /\ nextId' = nextId /\ PassesGoOn
  BY <1>1, <1>2, <1>3, DreamTyped
<1>. QED
  BY <1>1, <1>4, SameTableKeeps

LEMMA PruneKeeps ==
  ASSUME MemoryInv, PruneOne
  PROVE  MemoryInv'
<1>. USE DEF MemoryInv
<1>1. PICK i \in dream.doomed :
        /\ mem' = Archived(mem, i) /\ kept' = kept \ {Lesson(i)}
        /\ Dreams([dream EXCEPT !.doomed = @ \ {i}])
  BY DEF PruneOne
<1>2. i \in Ids /\ [dream EXCEPT !.doomed = @ \ {i}] \in DreamState
  BY DEF MemoryTypeOK, DreamState
<1>3. reviewed' \in 0 .. MaxIds /\ mem' \in [Ids -> Row \cup {NoRow}]
  BY <1>1, <1>2, RowUpdates DEF MemoryTypeOK, PruneOne
<1>4. MemoryTypeOK' /\ nextId' = nextId /\ PassesGoOn
  BY <1>1, <1>2, <1>3, DreamTyped
<1>. QED
  BY <1>1, <1>2, <1>4, ArchiveKeeps

-----------------------------------------------------------------------------

LEMMA MemoryInitInv == MemoryInit => MemoryInv
<1>1. SUFFICES ASSUME MemoryInit PROVE MemoryInv
  OBVIOUS
<1>2. 0 \in 0 .. MaxIds /\ 0 \in 0 .. MaxWrites /\ 1 \in 1 .. MaxIds + 1
  BY MemoryAssumption
<1>3. pass \in [Passes -> PassState] /\ \A p \in Passes : pass[p].at = "idle"
  <2>1. pass = [p \in Passes |-> NoPass] /\ NoPass.at = "idle"
    BY <1>1 DEF MemoryInit, NoPass
  <2>. QED
    BY <2>1, IdlePass
<1>4. dream \in DreamState
  BY <1>1, <1>2 DEF MemoryInit, NoDream, DreamState
<1>5. MemoryTypeOK
  BY <1>1, <1>2, <1>3, <1>4 DEF MemoryInit, MemoryTypeOK, PassState, DreamState
<1>6. Issued /\ Older /\ LessonsKept
  BY <1>1, <1>3 DEF MemoryInit, Issued, Older, Merging, LessonsKept
<1>. QED
  BY <1>5, <1>6 DEF MemoryInv

LEMMA MemoryStepInv == MemoryInv /\ [MemoryNext]_memoryVars => MemoryInv'
<1>1. SUFFICES ASSUME MemoryInv, [MemoryNext]_memoryVars PROVE MemoryInv'
  OBVIOUS
<1>2. ASSUME NEW a \in DOMAIN Scopes, Recall(a) PROVE MemoryInv'
  BY <1>1, <1>2, RecallKeeps
<1>3. ASSUME NEW a \in DOMAIN Scopes, ForgetMemory(a) PROVE MemoryInv'
  BY <1>1, <1>3, ForgetKeeps
<1>4. ASSUME NEW a \in DOMAIN Scopes, NEW text \in Texts, SaveMemory(a, text) PROVE MemoryInv'
  BY <1>1, <1>4, SaveKeeps
<1>5. ASSUME NEW s \in MemSpaces, ArchiveAll(s) PROVE MemoryInv'
  BY <1>1, <1>5, ArchiveAllKeeps
<1>6. ASSUME NEW s \in MemSpaces, NEW t \in MemSpaces, CopyMemories(s, t) PROVE MemoryInv'
  BY <1>1, <1>6, CopyKeeps
<1>7. ASSUME NEW i \in Ids, GrowsOld(i) PROVE MemoryInv'
  BY <1>1, <1>7, GrowsOldKeeps
<1>8. ASSUME NEW p \in Passes,
             \/ StartPass(p) \/ FadeOne(p) \/ ListCold(p) \/ DeleteOne(p)
             \/ ListActive(p) \/ MergeOne(p) \/ DropOne(p) \/ EndPass(p) \/ PassDies(p)
      PROVE  MemoryInv'
  BY <1>1, <1>8, StartPassKeeps, FadeKeeps, DeleteKeeps, ListKeeps, MergeKeeps, DropKeeps, EndPassKeeps
<1>9. CASE StartDream \/ PruneOne \/ EndDream \/ DreamDies
  BY <1>1, <1>9, StartDreamKeeps, PruneKeeps, EndDreamKeeps
<1>10. CASE UNCHANGED memoryVars
  <2>1. PassesGoOn
    BY <1>1, <1>10, SamePasses DEF memoryVars, MemoryInv
  <2>2. MemoryTypeOK'
    BY <1>1, <1>10 DEF memoryVars, MemoryInv, MemoryTypeOK
  <2>. QED
    BY <1>1, <1>10, <2>1, <2>2, SameTableKeeps DEF memoryVars
<1>. QED
  BY <1>1, <1>2, <1>3, <1>4, <1>5, <1>6, <1>7, <1>8, <1>9, <1>10 DEF MemoryNext

\* However many agents write and however many passes tidy up at once, the table,
\* the marks and what the passes and the dream hold keep their types.
THEOREM MemoryTyped == MemorySpec => []MemoryTypeOK
<1>1. MemoryInv => MemoryTypeOK
  BY DEF MemoryInv
<1>. QED
  BY <1>1, MemoryInitInv, MemoryStepInv, PTL DEF MemorySpec

\* For any agents, spaces and passes: what was saved and not archived stays
\* active in its space in some wording (store.save, consolidate._dedupe_group,
\* rem._apply), though passes drop what they listed before others did.
THEOREM LessonsStay == MemorySpec => []LessonsKept
<1>1. MemoryInv => LessonsKept
  BY DEF MemoryInv
<1>. QED
  BY <1>1, MemoryInitInv, MemoryStepInv, PTL DEF MemorySpec
=============================================================================
