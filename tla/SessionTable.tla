---------------------------- MODULE SessionTable ----------------------------
(***************************************************************************)
(* What the session manager promises of its table (server/session.py),     *)
(* without handlers, awaits, records and workers: an id names at most one  *)
(* object, the newest made for it; an object runs from its entry in the    *)
(* table until somebody closes it, and never again; another is made only   *)
(* for an id that names none; and there is room for so many.               *)
(***************************************************************************)
EXTENDS Naturals, FiniteSets

CONSTANTS Sids, Room    \* session ids; AGENT_MAX_SESSIONS

VARIABLES
    named,      \* id -> the number of its object in the table, 0 if absent
    made,       \* id -> how many objects were made for it
    running     \* the objects that were started and that nobody is closing

tableVars == <<named, made, running>>

TableInit == named = [i \in Sids |-> 0] /\ made = [i \in Sids |-> 0] /\ running = {}

Make(i) == named[i] = 0 /\ made' = [made EXCEPT ![i] = @ + 1] /\ UNCHANGED <<named, running>>

Enter(i) ==
    /\ named[i] = 0 /\ made[i] # 0 /\ Cardinality({j \in Sids : named[j] # 0}) < Room
    /\ named' = [named EXCEPT ![i] = made[i]] /\ running' = running \cup {<<i, made[i]>>}
    /\ UNCHANGED made

\* A session that is closed leaves the table at once; the shutdown, which closes
\* them all, empties it when it is through.
Leave(i) ==
    /\ named[i] # 0 /\ running' = running \ {<<i, named[i]>>}
    /\ named' \in {named, [named EXCEPT ![i] = 0]}
    /\ UNCHANGED made

\* The process ends.
Empty == named' = [i \in Sids |-> 0] /\ running' = {} /\ UNCHANGED made

TableNext == (\E i \in Sids : Make(i) \/ Enter(i) \/ Leave(i)) \/ Empty

TableSpec == TableInit /\ [][TableNext]_tableVars
=============================================================================
