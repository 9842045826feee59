------------------------------- MODULE Budget -------------------------------
(***************************************************************************)
(* The daily budget (budget.py): one ledger of what was spent by day, the  *)
(* cap that is asked before work is accepted, and the meters that turn a   *)
(* client's running total into what each turn cost. Turns of a session     *)
(* wait in its queue after they were accepted.                             *)
(*                                                                         *)
(* What a turn costs is decided outside (the Claude CLI), in whole units.  *)
(* A turn that ends without a result reports no cost, then or later.       *)
(***************************************************************************)
EXTENDS Integers, FiniteSets

CONSTANTS
    Clients,        \* SDK clients: sessions, chats, a crew's or a build's one turn
    BudgetCap,      \* DAILY_BUDGET_USD; 0: off
    MaxQueued,      \* AGENT_MAX_QUEUED_TURNS
    MaxCost,        \* what a single turn may cost
    MaxDays, MaxTotal   \* bounds of the model, not of the code

ASSUME BudgetAssumption ==
    IsFiniteSet(Clients) /\ {BudgetCap, MaxQueued, MaxCost, MaxTotal} \subseteq Nat /\ MaxDays \in Nat \ {0}

VARIABLES
    day,
    spent,      \* the ledger: day -> the sum of its rows
    client      \* [up, queue, busy, total, last]: the turns accepted, the one at
                \* work, the CLI's running total and the meter's last one

budgetVars == <<day, spent, client>>

Days == 1 .. MaxDays
Client == [up : BOOLEAN, queue : 0 .. MaxQueued, busy : BOOLEAN, total : Nat, last : Nat]
Away == [up |-> FALSE, queue |-> 0, busy |-> FALSE, total |-> 0, last |-> 0]

BudgetTypeOK ==
    /\ day \in Days /\ spent \in [Days -> Nat] /\ client \in [Clients -> Client]

BudgetInit ==
    /\ day = 1 /\ spent = [d \in Days |-> 0] /\ client = [c \in Clients |-> Away]

\* check, exceeded.
Exceeded == BudgetCap # 0 /\ spent[day] >= BudgetCap

\* The first accepted work of a session, chat, crew or build makes its client
\* and its meter; a typed or scheduled turn of a session is queued behind.
Accept(c) ==
    /\ ~Exceeded /\ client[c].total < MaxTotal
    /\ client[c].queue < MaxQueued
    /\ client' = [client EXCEPT ![c].up = TRUE, ![c].queue = @ + 1]
    /\ UNCHANGED <<day, spent>>

\* The worker takes the next turn: nobody asks for the budget again.
TakesTurn(c) ==
    /\ client[c].queue > 0 /\ ~client[c].busy
    /\ client' = [client EXCEPT ![c].queue = @ - 1, ![c].busy = TRUE]
    /\ UNCHANGED <<day, spent>>

\* Mutant: the running total is recorded, as the turn's own cost.
ObserveTotal(h, total) == total
\* CostMeter.observe: a lower total is a fresh process's.
Observe(h, total) == IF total >= h.last THEN total - h.last ELSE total

\* The turn's result: the meter is fed, and the ledger may fail to keep it.
TurnEnds(c) ==
    LET h == client[c] IN
    /\ h.busy
    /\ \E cost \in 0 .. MaxCost :
          /\ client' = [client EXCEPT ![c].busy = FALSE, ![c].total = @ + cost, ![c].last = h.total + cost]
          /\ \/ spent' = [spent EXCEPT ![day] = @ + Observe(h, h.total + cost)]
             \/ UNCHANGED spent
    /\ UNCHANGED day

TurnFails(c) ==
    /\ client[c].busy
    /\ client' = [client EXCEPT ![c].busy = FALSE]
    /\ UNCHANGED <<day, spent>>

\* The client goes with its session or process, and its queue with it.
Gone(c) ==
    /\ client[c].up /\ client' = [client EXCEPT ![c] = Away]
    /\ UNCHANGED <<day, spent>>

Midnight == day < MaxDays /\ day' = day + 1 /\ UNCHANGED <<spent, client>>

BudgetNext ==
    \/ \E c \in Clients : Accept(c) \/ TakesTurn(c) \/ TurnEnds(c) \/ TurnFails(c) \/ Gone(c)
    \/ Midnight

BudgetSpec == BudgetInit /\ [][BudgetNext]_budgetVars

-----------------------------------------------------------------------------

\* "Once today's spend reaches it, new work is refused": what is spent in a day
\* exceeds the cap by no more than the turns that had been accepted before, one
\* at work and those queued for each client, whatever was accepted the day
\* before and however often a meter's client starts anew.
OvershootBounded ==
    BudgetCap # 0 => \A d \in Days :
        spent[d] <= (BudgetCap - 1) + Cardinality(Clients) * (MaxQueued + 1) * MaxCost
=============================================================================
