------------------------------ MODULE Registry ------------------------------
(***************************************************************************)
(* The agent registry (agents.py): one JSON file of profiles, changed by   *)
(* commands, routes and a crew's worker in several processes. An operation *)
(* reads the file, works out the new profile, and puts it under the file   *)
(* lock (_filelock.py), where it reads again what the others have written. *)
(*                                                                         *)
(* Every operation opens a store of its own, as the routes and commands    *)
(* do. The backup of a broken file is assumed to succeed.                  *)
(***************************************************************************)
EXTENDS FiniteSets, Integers

CONSTANTS
    Names,              \* agents, and the spaces named after them
    Pools, Pool,        \* the collective spaces, and the global one
    MainSpace,          \* DEFAULT_SPACE
    Writers,            \* operations under way
    NoAgent, Hidden,    \* no record; a record that does not read
    MaxInherits,        \* MAX_INHERITS
    MaxEdits            \* bound of the model, not of the code

ASSUME RegistryAssumption ==
    /\ IsFiniteSet(Names) /\ Pool \in Pools /\ MainSpace \notin Names \cup Pools
    /\ Names \cap Pools = {} /\ {MaxInherits, MaxEdits} \subseteq Nat /\ NoAgent \notin Names

VARIABLES
    file,       \* name -> what agents.json says of it
    writer,     \* see Writing
    aside,      \* the names in the copy the last write has kept aside
    shelved,    \* spaces whose memories are archived
    edits

registryVars == <<file, writer, aside, shelved, edits>>

Spaces == Names \cup Pools \cup {MainSpace}
AgentSpaces == Spaces \ {MainSpace}
Profiles == [mode : {"individual", "collective"}, home : AgentSpaces, inherits : SUBSET AgentSpaces,
             isolated : BOOLEAN, token : BOOLEAN]

ASSUME NoRecordAssumption == NoAgent \notin Profiles /\ Hidden \notin Profiles

\* from_dict: what is read or put obeys this.
Valid(p) ==
    /\ p.mode = "collective" => p.home \in Pools
    /\ p.home \notin p.inherits /\ Cardinality(p.inherits) <= MaxInherits

\* scope: an agent writes its home and reads what it inherits and what is shared.
Scope(p) == [write |-> p.home,
             read |-> {p.home} \cup p.inherits \cup (IF p.isolated THEN {} ELSE {Pool, MainSpace})]

Registered(items) == {n \in Names : items[n] \in Profiles}
Broken == \E n \in Names : file[n] = Hidden

\* A store and its operation: what it has read, the profile to put, then the
\* space to copy from or to archive.
Writing == [pc : {"idle", "put", "remove", "copy", "archive"}, name : Names \cup {NoAgent}, held : [Names -> Profiles \cup {NoAgent}],
            new : BOOLEAN, put : Profiles \cup {NoAgent}, space : Spaces, keep : BOOLEAN]
Nothing == [pc |-> "idle", name |-> NoAgent, held |-> [n \in Names |-> NoAgent],
            new |-> FALSE, put |-> NoAgent, space |-> MainSpace, keep |-> FALSE]

RegistryTypeOK ==
    /\ file \in [Names -> Profiles \cup {NoAgent, Hidden}]
    /\ \A n \in Registered(file) : Valid(file[n])
    /\ writer \in [Writers -> Writing]
    /\ aside \subseteq Names /\ shelved \subseteq AgentSpaces /\ edits \in 0 .. MaxEdits

RegistryInit ==
    /\ file = [n \in Names |-> NoAgent] /\ writer = [w \in Writers |-> Nothing]
    /\ aside = {} /\ shelved = {} /\ edits = 0

-----------------------------------------------------------------------------
(* What an operation makes of the profiles it has read.                    *)

Readable == [n \in Names |-> IF file[n] = Hidden THEN NoAgent ELSE file[n]]
Home(items, other) == IF items[other] = NoAgent THEN other ELSE items[other].home
Clean(p) == [p EXCEPT !.inherits = @ \ {p.home}]
Lineage(items, parents) == UNION {{items[n].home} \cup items[n].inherits : n \in parents}

\* An operation on n that has read the file: the record it will put, if any.
Intent(pc, n, p, new, space, keep) ==
    [pc |-> pc, name |-> n, held |-> Readable, new |-> new, put |-> p, space |-> space, keep |-> keep]

Opens(w, h) ==
    /\ writer[w].pc = "idle" /\ edits < MaxEdits /\ edits' = edits + 1
    /\ writer' = [writer EXCEPT ![w] = h]
    /\ UNCHANGED <<file, aside, shelved>>
Puts(w, n, p) == Valid(p) /\ Opens(w, Intent("put", n, p, FALSE, MainSpace, FALSE))

\* create_agent: it reads what its parents read, and what the one it forks
\* from has inherited; a member of a collective cannot fork.
CreateAgent(w, n) ==
    \E parents \in SUBSET Registered(Readable), forks \in SUBSET Registered(Readable),
       home \in {n} \cup AgentSpaces, mode \in {"individual", "collective"}, isolated \in BOOLEAN :
       LET inherited == Lineage(Readable, parents) \cup UNION {Readable[m].inherits : m \in forks}
           p == Clean([mode |-> mode, home |-> home, inherits |-> inherited, isolated |-> isolated, token |-> FALSE])
           source == IF forks = {} THEN MainSpace ELSE Readable[CHOOSE m \in forks : TRUE].home
       IN  /\ Readable[n] = NoAgent /\ Cardinality(forks) <= 1
           /\ mode = "collective" => forks = {}
           /\ Valid(p)
           /\ Opens(w, Intent("put", n, p, TRUE, source, FALSE))

\* attach, to another agent's memory or to a space of that name.
Attach(w, n) ==
    /\ Readable[n] # NoAgent
    /\ \E space \in {Home(Readable, m) : m \in Names} \cup Pools :
          /\ space \notin {Readable[n].home} \cup Readable[n].inherits
          /\ Puts(w, n, [Readable[n] EXCEPT !.inherits = @ \cup {space}])

Detach(w, n) ==
    /\ Readable[n] # NoAgent
    /\ \E space \in {Home(Readable, m) : m \in Names} \cup Pools :
          Puts(w, n, [Readable[n] EXCEPT !.inherits = @ \ {space}])

\* set_memory: the home it leaves stays readable.
SetMemory(w, n) ==
    LET p == Readable[n] IN
    /\ p # NoAgent
    /\ \E mode \in {"individual", "collective"}, pool \in Pools :
          LET home == IF mode = "collective" THEN pool ELSE IF p.mode = "collective" THEN n ELSE p.home
              moved == Clean([p EXCEPT !.mode = mode, !.home = home])
          IN  Puts(w, n, IF home = p.home THEN moved ELSE [moved EXCEPT !.inherits = @ \cup {p.home}])

\* issue_token, revoke_token.
SetToken(w, n) ==
    /\ Readable[n] # NoAgent
    /\ \E token \in BOOLEAN : Puts(w, n, [Readable[n] EXCEPT !.token = token])

\* delete_agent, with or without its memory.
DeleteAgent(w, n) ==
    /\ Readable[n] # NoAgent
    /\ \E keep \in BOOLEAN :
          Opens(w, Intent("remove", n, NoAgent, FALSE, Readable[n].home, keep))

\* promote: the agent's memory is copied, and the copies are active.
Promote(n) ==
    /\ Readable[n] # NoAgent
    /\ \E to \in Spaces \ {Readable[n].home} : shelved' = shelved \ {to}
    /\ UNCHANGED <<file, writer, aside, edits>>

-----------------------------------------------------------------------------
(* Under the lock.                                                         *)

\* Mutant: the file is not read again.
RefreshedNever(w) == writer[w].held
\* _refresh: what the others have saved, unless it does not read.
Refreshed(w) == IF Broken THEN writer[w].held ELSE file

\* save, after _preserve_original if the file was broken, then or when opened.
Saved(items) ==
    /\ file' = items
    /\ aside' = IF Broken THEN {n \in Names : file[n] # NoAgent} ELSE {}

Goes(w, pc) == writer' = [writer EXCEPT ![w] = IF pc = "idle" THEN Nothing ELSE [@ EXCEPT !.pc = pc]]

Put(w) ==
    LET h == writer[w] IN
    /\ h.pc = "put"
    /\ ~(h.new /\ Refreshed(w)[h.name] # NoAgent)
    /\ Saved([Refreshed(w) EXCEPT ![h.name] = h.put])
    /\ Goes(w, IF h.new /\ h.space # MainSpace THEN "copy" ELSE "idle")
    /\ UNCHANGED <<shelved, edits>>

\* The name was taken meanwhile, or another process holds the lock.
PutFails(w) ==
    /\ writer[w].pc \in {"put", "remove"} /\ Goes(w, "idle")
    /\ UNCHANGED <<file, aside, shelved, edits>>

\* Its memory is archived unless another agent writes there, or everyone.
RemoveProfile(w) ==
    LET h == writer[w]
        items == [Refreshed(w) EXCEPT ![h.name] = NoAgent]
        shared == \E n \in Registered(items) : items[n].home = h.space
    IN  /\ h.pc = "remove"
        /\ IF Refreshed(w)[h.name] = NoAgent THEN UNCHANGED <<file, aside>> ELSE Saved(items)
        /\ Goes(w, IF h.keep \/ shared \/ h.space \in Pools THEN "idle" ELSE "archive")
        /\ UNCHANGED <<shelved, edits>>

CopySpace(w) ==
    /\ writer[w].pc = "copy" /\ shelved' = shelved \ {writer[w].put.home} /\ Goes(w, "idle")
    /\ UNCHANGED <<file, aside, edits>>

ArchiveSpace(w) ==
    /\ writer[w].pc = "archive" /\ shelved' = shelved \cup {writer[w].space} /\ Goes(w, "idle")
    /\ UNCHANGED <<file, aside, edits>>

\* The process of an operation dies; the lock goes with it.
Dies(w) ==
    /\ writer[w].pc \in {"copy", "archive"} /\ Goes(w, "idle")
    /\ UNCHANGED <<file, aside, shelved, edits>>

\* The file is edited by hand, and some of it reads no more.
Breaks ==
    /\ edits < MaxEdits /\ edits' = edits + 1
    /\ \E bad \in SUBSET Registered(file) \ {{}} : file' = [n \in Names |-> IF n \in bad THEN Hidden ELSE file[n]]
    /\ UNCHANGED <<writer, aside, shelved>>

RegistryNext ==
    \/ \E w \in Writers, n \in Names :
          CreateAgent(w, n) \/ Attach(w, n) \/ Detach(w, n) \/ SetMemory(w, n) \/ SetToken(w, n) \/ DeleteAgent(w, n)
    \/ \E n \in Names : Promote(n)
    \/ \E w \in Writers : Put(w) \/ PutFails(w) \/ RemoveProfile(w) \/ CopySpace(w) \/ ArchiveSpace(w) \/ Dies(w)
    \/ Breaks

RegistrySpec == RegistryInit /\ [][RegistryNext]_registryVars

-----------------------------------------------------------------------------

\* The writer's own copy is what remains of an agent once the file does not read:
\* _refresh keeps "the records this store already holds", so that one another
\* writer deleted since comes back.
Returns(w, n) ==
    Broken /\ file[n] = NoAgent /\ file'[n] = writer[w].held[n] /\ writer'[w] # writer[w]

\* "One writer never drops another's agent" (agents.py), a create never
\* replaces an agent that was created meanwhile, and what a broken file held is
\* in the copy kept aside: a record changes only by an operation on its agent,
\* or returns over a file that does not read.
WritersApart == [][\A n \in Names : file'[n] # file[n] =>
    \/ file'[n] = Hidden
    \/ n \in aside'
    \/ \E w \in Writers :
          \/ writer'[w] # writer[w] /\ writer[w].name = n /\ (writer[w].new => file[n] = NoAgent)
          \/ Returns(w, n)]_registryVars

\* A token that was revoked stays so until one is issued. It does not hold: an
\* operation that read the profile before puts the old token back.
RevokedStays == [][\A n \in Names :
    /\ file[n] \in Profiles /\ file'[n] \in Profiles /\ ~file[n].token /\ file'[n].token
    => \E w \in Writers : writer'[w] # writer[w] /\ writer[w].name = n /\ ~writer[w].held[n].token]_registryVars
=============================================================================
