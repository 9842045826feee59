------------------------------- MODULE Policy -------------------------------
(***************************************************************************)
(* The permission policy (permissions.py): whether a tool call runs by     *)
(* itself, by a grant of the schedule whose turn it is, or only once a     *)
(* person says so. One call is asked about, decided and, if asked,         *)
(* answered.                                                               *)
(*                                                                         *)
(* A call is what the code recognises in it: the words of a tool name, the *)
(* paths a command line writes and deletes, the layers of a command line   *)
(* handed to another shell. That the patterns recognise it is assumed.     *)
(***************************************************************************)
EXTENDS FiniteSets, Integers, Sequences

CONSTANTS
    Addresses,      \* e-mail addresses
    Branches,       \* [repo, branch] pairs a pull request may be opened from
    MaxLayers       \* command lines in a call: the whole, and those nested in it

ASSUME PolicyAssumption == IsFiniteSet(Addresses) /\ MaxLayers \in Nat \ {0}

VARIABLES
    call, grants, confined,     \* what is asked, in whose turn
    person,     \* what the card was answered: yes, no, nothing in time; unasked
    verdict     \* "open", then "run" or "denied"

policyVars == <<call, grants, confined, person, verdict>>

\* Where a path leads: a variable is known at run time only, and "varpath" is
\* one that names a directory too.
Paths == {"inside", "outside", "var", "varpath"}
AtMostOne(set) == {{}} \cup {{x} : x \in set}
\* What a command line is recognised to do: reach off the machine, install
\* packages, have GitHub's CLI change something, or write and delete at a path.
\* Each is judged by itself, so one at most of a line.
Outward == <<"outward", "-">>
GlobalInstall == <<"installs", "-">>
GhOutward == <<"gh", "-">>
WriteTargets == {"writes"} \X Paths
DeleteTargets == {"deletes"} \X Paths
Traits == {Outward, GlobalInstall, GhOutward} \cup WriteTargets \cup DeleteTargets
Layer == AtMostOne(Traits)
Services == {"mail", "calendar", "files"}
\* What the words of a connector's operation say, in the patterns' terms.
Words == {"read", "write", "send", "event", "never"}
NoPull == [repo |-> "none", branch |-> "none"]

ReadCalls == [tool : {"read"}, path : {"inside", "outside", "none"}] \cup [tool : {"plan"}]
FileCalls == [tool : {"file"}, path : {"inside", "outside", "none"}]
\* Only a single line can be `gh pr create` with nothing else in it.
ShellCalls == {c \in [tool : {"shell"}, layers : UNION {[1 .. n -> Layer] : n \in 1 .. MaxLayers},
                      pull : Branches \cup {NoPull}] :
               c.pull # NoPull => c.layers = <<{GhOutward}>>}
ConnectorCalls == {c \in [tool : {"connector"}, service : Services, draftRead : BOOLEAN, words : SUBSET Words,
                          to : SUBSET Addresses, junk : BOOLEAN, hidden : BOOLEAN] :
                   "send" \in c.words \/ "event" \in c.words \/ "never" \in c.words => "write" \in c.words}
OtherCalls == [tool : {"relife", "unknown"}]
Calls == ReadCalls \cup FileCalls \cup ShellCalls \cup ConnectorCalls \cup OtherCalls

\* normalize_grants: at most one of a kind, an e-mail grant with an address; the pull
\* request is bound to the turn's branch (or to none).
Mail(allowed) == [kind |-> "email", allowed |-> allowed]
Event(allowed) == [kind |-> "calendar", allowed |-> allowed]
Pull(bound) == [kind |-> "pull_request", bound |-> bound]
Grants == {Mail(a) : a \in SUBSET Addresses \ {{}}} \cup {Event(a) : a \in SUBSET Addresses}
          \cup {Pull(b) : b \in Branches \cup {NoPull}}
GrantSets ==
    {mail \cup event \cup pull : mail \in AtMostOne({g \in Grants : g.kind = "email"}),
                                event \in AtMostOne({g \in Grants : g.kind = "calendar"}),
                                pull \in AtMostOne({g \in Grants : g.kind = "pull_request"})}

PolicyTypeOK ==
    /\ call \in Calls /\ grants \in GrantSets /\ confined \in BOOLEAN
    /\ person \in {"unasked", "yes", "no", "away"} /\ verdict \in {"open", "run", "denied"}

\* Confined is the policy for the machine tools of a crew's member, whose turn no
\* schedule grants anything to.
PolicyInit ==
    /\ \/ confined = FALSE /\ call \in Calls /\ grants \in GrantSets
       \/ confined = TRUE /\ call \in ReadCalls \cup FileCalls \cup ShellCalls /\ grants = {}
    /\ person = "unasked" /\ verdict = "open"

-----------------------------------------------------------------------------

\* _escapes: a path that leads away, or may; strict for what is deleted, while
\* a bare variable may be written to.
Escapes(layer, trait, strict) ==
    \E p \in Paths : /\ <<trait, p>> \in layer
                     /\ p \in {"outside", "varpath"} \/ (strict /\ p = "var")

LayerAllowed(layer) ==
    /\ layer \cap {Outward, GlobalInstall, GhOutward} = {}
    /\ ~Escapes(layer, "writes", FALSE) /\ ~Escapes(layer, "deletes", TRUE)

\* Mutant: the command line is judged, and not what it hands to another shell.
OuterAllowed(layers) == LayerAllowed(layers[1])
\* Nested command lines are judged like the whole one (_inner_commands).
ShellAllowed(layers) == \A i \in DOMAIN layers : LayerAllowed(layers[i])

\* A draft is a thing that is read, and a word for writing one.
ConnectorAllowed(c) == c.draftRead \/ ("write" \notin c.words /\ "read" \in c.words)

Classify ==
    \/ call.tool \in {"read", "plan", "relife"}
    \/ call.tool = "file" /\ call.path = "inside"
    \/ call.tool = "shell" /\ ShellAllowed(call.layers)
    \/ call.tool = "connector" /\ ConnectorAllowed(call)

\* classify_confined: what a crew's member reads is sent to its provider.
ClassifyConfined == Classify /\ (call.tool = "read" => call.path = "inside")

Policy == IF confined THEN ClassifyConfined ELSE Classify

\* _pr_create_matches: exactly the branch the grant is bound to.
PullMatches(g) == g.kind = "pull_request" /\ g.bound # NoPull /\ call.pull = g.bound

\* grant_allows: the operation, and everyone it names.
OperationFits(g) ==
    \/ g.kind = "email" /\ call.service = "mail" /\ "send" \in call.words
    \/ g.kind = "calendar" /\ call.service = "calendar" /\ "event" \in call.words
PeopleFit(g) ==
    /\ ~call.junk /\ call.to \subseteq g.allowed
    /\ g.kind = "email" => ~call.hidden /\ call.to # {}
GrantAllows ==
    \/ call.tool = "shell" /\ \E g \in grants : PullMatches(g)
    \/ call.tool = "connector" /\ "never" \notin call.words
       /\ \E g \in grants : OperationFits(g) /\ PeopleFit(g)

\* can_use_tool: the policy, the turn's grants, then the person at the card.
RunsAlone ==
    /\ verdict = "open" /\ (Policy \/ GrantAllows) /\ verdict' = "run"
    /\ UNCHANGED <<call, grants, confined, person>>
\* Nobody there in time is a no.
AsksFirst ==
    /\ verdict = "open" /\ ~Policy /\ ~GrantAllows
    /\ person' \in {"yes", "no", "away"}
    /\ verdict' = IF person' = "yes" THEN "run" ELSE "denied"
    /\ UNCHANGED <<call, grants, confined>>

PolicyNext == RunsAlone \/ AsksFirst
PolicySpec == PolicyInit /\ [][PolicyNext]_policyVars

-----------------------------------------------------------------------------
(* What a call does, whoever decides on it.                                *)

\* A variable that is deleted may hold anything; one that is written to is taken
\* for a file of the workspace.
Harmless == {<<"writes", "inside">>, <<"writes", "var">>, <<"deletes", "inside">>}
ShellDoes == {trait[1] : trait \in (UNION {call.layers[i] : i \in DOMAIN call.layers}) \ Harmless}
ConnectorDoes ==
    IF call.draftRead \/ (call.words # {} /\ call.words \subseteq {"read"}) THEN {}
    ELSE IF "write" \in call.words THEN {"acts outside"} ELSE {"unknown"}
Does ==
    CASE call.tool = "shell" -> ShellDoes
      [] call.tool = "connector" -> ConnectorDoes
      [] call.tool = "file" -> IF call.path = "inside" THEN {} ELSE {"writes"}
      [] call.tool = "read" -> IF confined /\ call.path # "inside" THEN {"discloses"} ELSE {}
      [] call.tool = "unknown" -> {"unknown"}
      [] OTHER -> {}

\* Who it reaches, as far as its grant could know.
Vouched ==
    \E g \in grants :
        \/ call.tool = "shell" /\ g.kind = "pull_request" /\ call.pull \in Branches /\ call.pull = g.bound /\ Does = {"gh"}
        \/ /\ call.tool = "connector" /\ Does = {"acts outside"} /\ "never" \notin call.words
           /\ <<g.kind, call.service>> \in {<<"email", "mail">>, <<"calendar", "calendar">>} /\ call.to \subseteq g.allowed /\ ~call.junk
           /\ g.kind = "email" => ~call.hidden /\ call.to # {}

\* Nothing acts outside the workspace without a person or a grant that vouches
\* for everyone it reaches, however a command line is wrapped and whatever other
\* grants the turn has; and nobody is asked about what stays inside.
PolicySound ==
    /\ verdict = "run" /\ person # "yes" => Does = {} \/ Vouched
    /\ person # "unasked" => Does # {}
=============================================================================
