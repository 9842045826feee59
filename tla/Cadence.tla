------------------------------ MODULE Cadence ------------------------------
(***************************************************************************)
(* When a schedule fires next (server/schedules.py, next_run): every so    *)
(* often, or at a wall-clock time on some weekdays, on a clock that is put *)
(* forward once and back once. A day, a week, the hour by which the clock  *)
(* changes and the units of an interval are constants.                     *)
(***************************************************************************)
EXTENDS FiniteSets, Integers, FiniteSetsExt

CONSTANTS
    DayLength, WeekLength,  \* 24 hours, 7 days
    Units,                  \* seconds in an s, m, h and d, each dividing the next
    MinInterval,            \* AGENT_SCHEDULE_MIN_INTERVAL
    Forward, Back, Shift,   \* the instants at which the clock is put forward and back, and by how much
    Horizon                 \* bound of the model, not of the code

ASSUME CadenceAssumption ==
    /\ {DayLength, WeekLength, MinInterval} \subseteq Nat \ {0}
    /\ IsFiniteSet(Units) /\ Units \subseteq Nat \ {0} /\ 1 \in Units
    /\ {Forward, Back, Shift, Horizon} \subseteq Nat /\ Forward + Shift < Back
    /\ Shift <= DayLength

VARIABLES
    asked,  \* the spec the user gave
    spec,   \* its canonical form; NotYet
    at,     \* when it is asked
    next    \* what next_run answered; 0: not asked yet

cadenceVars == <<asked, spec, at, next>>

NotYet == [kind |-> "none"]
Weekdays == 0 .. WeekLength - 1
Every == [kind : {"every"}, count : 1 .. 2 * DayLength, unit : Units]
At == [kind : {"at"}, hour : 0 .. DayLength - 1, days : SUBSET Weekdays]

CadenceTypeOK ==
    /\ asked \in Every \cup At /\ spec \in Every \cup At \cup {NotYet}
    /\ at \in 1 .. Horizon /\ next \in Nat

CadenceInit == asked \in Every \cup At /\ spec = NotYet /\ at \in 1 .. Horizon /\ next = 0

\* The local clock at an instant, and the instant of a local time: the first of
\* two, and for a time that is skipped, as if the clock had not been put forward
\* (datetime.fromtimestamp and naive timestamp).
Wall(t) == IF t >= Forward /\ t < Back THEN t + Shift ELSE t
Instant(wall) == IF wall >= Forward + Shift /\ wall < Back + Shift THEN wall - Shift ELSE wall

Weekday(wall) == (wall \div DayLength) % WeekLength
Seconds(s) == s.count * s.unit

\* _fmt_seconds: the largest unit that divides it.
Canonical(s) ==
    LET unit == Max({u \in Units : Seconds(s) % u = 0})
    IN  [s EXCEPT !.count = Seconds(s) \div unit, !.unit = unit]

\* normalize_spec: too short an interval is refused.
Normalize ==
    /\ spec = NotYet
    /\ asked.kind = "every" => Seconds(asked) >= MinInterval
    /\ spec' = IF asked.kind = "every" THEN Canonical(asked) ELSE asked
    /\ UNCHANGED <<asked, at, next>>

\* Today's slot and those of the days that follow. Mutant: a slot that is now.
SlotsIncluding(s, wall) ==
    {c \in {(wall \div DayLength + i) * DayLength + s.hour : i \in 0 .. WeekLength} :
        c >= wall /\ (s.days = {} \/ Weekday(c) \in s.days)}
Slots(s, wall) ==
    {c \in {(wall \div DayLength + i) * DayLength + s.hour : i \in 0 .. WeekLength} :
        c > wall /\ (s.days = {} \/ Weekday(c) \in s.days)}

NextRun ==
    /\ spec # NotYet /\ next = 0
    /\ next' = IF spec.kind = "every" THEN at + Seconds(spec) ELSE Instant(Min(Slots(spec, Wall(at))))
    /\ UNCHANGED <<asked, spec, at>>

CadenceNext == Normalize \/ NextRun

CadenceSpec == CadenceInit /\ [][CadenceNext]_cadenceVars

-----------------------------------------------------------------------------

\* The second time round of the hour that is repeated.
Repeated(t) == t >= Back /\ t < Back + Shift

\* A clock that shows this time is at a slot.
IsSlot(wall) == wall % DayLength = asked.hour /\ (asked.days = {} \/ Weekday(wall) \in asked.days)

\* A schedule fires strictly after now and no slot too late: none comes in
\* between, whether the clock was changed or not, and the clock then shows a slot
\* or has just skipped one; an interval is the one that was asked for, in
\* whatever form it is stored. Asked in the hour that is repeated, next_run may
\* name an instant that is past.
FiresNext ==
    next # 0 =>
        IF asked.kind = "every" THEN next = at + Seconds(asked)
        ELSE ~Repeated(at) =>
            /\ next > at
            /\ IsSlot(Wall(next)) \/ (next \in Forward .. Forward + Shift - 1 /\ IsSlot(next))
            /\ \A t \in at + 1 .. next - 1 : IsSlot(Wall(t)) => Repeated(t)
=============================================================================
