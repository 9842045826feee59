---------------------------- MODULE ComponentsMC ----------------------------
(***************************************************************************)
(* Eight components that share no state, each checked on a small instance  *)
(* of its own: a behaviour takes the steps of the one in focus, and the    *)
(* others stay at their first state.                                       *)
(***************************************************************************)
EXTENDS Governor, Budget, BuildLedger, Registry, Memory, Policy, Cadence, Journal, TLC

VARIABLE focus

BigLimits == [rpm |-> 2, rpd |-> 3, tpm |-> 0, tpd |-> 0, headroom |-> 80, wait |-> 1]
SmallLimits == [rpm |-> 0, rpd |-> 0, tpm |-> 1, tpd |-> 3, headroom |-> 100, wait |-> 2]
ScopesOfTwo == [main |-> [write |-> "main", read |-> {"main"}], agent |-> [write |-> "agent", read |-> {"main", "agent"}]]
OneGist == [t \in Texts |-> "gist"]
OneBranch == {[repo |-> "r", branch |-> "b"]}
ChatsOfTwo == <<Writers, {}>>
OneWorkflow == {<<1, <<"edit", "deploy">>>>}
ChainOfTwo == <<"big", "small">>
LimitsOfTwo == [m \in {"big", "small"} |-> IF m = "big" THEN BigLimits ELSE SmallLimits]

sideVars == <<governorVars, budgetVars, buildVars, registryVars, memoryVars, policyVars, cadenceVars,
              journalVars>>

Parts == {"governor", "budget", "build", "registry", "memory", "policy", "cadence", "journal"}

\* The policy's and the cadence's questions are only opened in their own focus.
SideInit ==
    /\ focus \in Parts
    /\ GovernorInit /\ BudgetInit /\ BuildInit /\ RegistryInit /\ MemoryInit /\ JournalInit
    /\ IF focus = "policy" THEN PolicyInit
       ELSE call = [tool |-> "plan"] /\ grants = {} /\ confined = FALSE /\ person = "unasked" /\ verdict = "open"
    /\ IF focus = "cadence" THEN CadenceInit
       ELSE asked = [kind |-> "at", hour |-> 0, days |-> {}] /\ spec = NotYet /\ at = 1 /\ next = 0

SideNext ==
    /\ UNCHANGED focus
    /\ \/ focus = "governor" /\ GovernorNext
          /\ UNCHANGED <<budgetVars, buildVars, registryVars, memoryVars, policyVars, cadenceVars, journalVars>>
       \/ focus = "budget" /\ BudgetNext
          /\ UNCHANGED <<governorVars, buildVars, registryVars, memoryVars, policyVars, cadenceVars, journalVars>>
       \/ focus = "build" /\ BuildNext
          /\ UNCHANGED <<governorVars, budgetVars, registryVars, memoryVars, policyVars, cadenceVars, journalVars>>
       \/ focus = "registry" /\ RegistryNext
          /\ UNCHANGED <<governorVars, budgetVars, buildVars, memoryVars, policyVars, cadenceVars, journalVars>>
       \/ focus = "memory" /\ MemoryNext
          /\ UNCHANGED <<governorVars, budgetVars, buildVars, registryVars, policyVars, cadenceVars, journalVars>>
       \/ focus = "policy" /\ PolicyNext
          /\ UNCHANGED <<governorVars, budgetVars, buildVars, registryVars, memoryVars, cadenceVars, journalVars>>
       \/ focus = "cadence" /\ CadenceNext
          /\ UNCHANGED <<governorVars, budgetVars, buildVars, registryVars, memoryVars, policyVars, journalVars>>
       \/ focus = "journal" /\ JournalNext
          /\ UNCHANGED <<governorVars, budgetVars, buildVars, registryVars, memoryVars, policyVars, cadenceVars>>

SideSpec == SideInit /\ [][SideNext]_<<focus, sideVars>>

\* The processes, and what they name, are the same model values in every part.
Symmetries == Permutations(Writers) \cup Permutations(Names)

\* Every variable of the component in focus has its type.
SideTypeOK ==
    /\ focus = "governor" => GovernorTypeOK
    /\ focus = "budget" => BudgetTypeOK
    /\ focus = "build" => BuildTypeOK
    /\ focus = "registry" => RegistryTypeOK
    /\ focus = "memory" => MemoryTypeOK
    /\ focus = "policy" => PolicyTypeOK
    /\ focus = "cadence" => CadenceTypeOK
    /\ focus = "journal" => JournalTypeOK
=============================================================================
