---------------------------- MODULE ActiveShift ----------------------------
(***************************************************************************)
(* ShiftsService.getActiveShift (src/src/modules/shifts/                   *)
(* shifts.service.ts, lines 230-264), with the local dates and times of    *)
(* src/src/utils/timezone.ts: the shift a punch of an employee belongs to, *)
(* while the schedule and the time zone of the branch may change.          *)
(* Instants are minutes, DayLength of which make a day. A time zone is its *)
(* distance from UTC; zones that change it in the course of a year are not *)
(* modelled.                                                               *)
(***************************************************************************)
EXTENDS Integers

CONSTANTS
    DayLength,  \* minutes of a day
    Days,       \* dates of the schedule
    Instants,   \* bound: the instants of the punches
    Offsets,    \* time zones
    Shifts,     \* the shifts that may be scheduled
    None

ASSUME DayAssumption == DayLength \in Nat \ {0}
ASSUME DomainAssumption ==
    /\ Days \subseteq Int /\ Instants \subseteq Int /\ Offsets \subseteq Int
    /\ Shifts \subseteq [start : 0 .. DayLength - 1, end : 0 .. DayLength - 1,
                         gracePeriodMins : 0 .. DayLength, isOvernight : BOOLEAN]
    /\ None \notin Shifts

VARIABLES
    schedule,   \* schedule[d]: the shift of the SCHEDULED assignment of date d
    timezone,   \* the time zone of the employee's branch
    pc,         \* where the call is
    punchAt,    \* its argument
    local,      \* the time zone it read
    today,      \* the assignment it read for the day of the punch
    answer,     \* what it returned
    steady,     \* history: the dates whose assignment did not change since the
                \* call began
    settled     \* history: did the time zone stay?

tables == <<schedule, timezone>>
history == <<steady, settled>>
vars == <<tables, pc, punchAt, local, today, answer, history>>

TypeOK ==
    /\ schedule \in [Days -> Shifts \cup {None}]
    /\ timezone \in Offsets
    /\ pc \in {"idle", "timezone", "today", "yesterday", "done"}
    /\ punchAt \in Instants
    /\ local \in Offsets
    /\ today \in Shifts \cup {None}
    /\ answer \in Shifts \cup {None}
    /\ steady \subseteq Days
    /\ settled \in BOOLEAN

Init ==
    /\ schedule \in [Days -> Shifts \cup {None}]
    /\ timezone \in Offsets
    /\ pc = "idle"
    /\ punchAt \in Instants
    /\ local = timezone
    /\ today = None
    /\ answer = None
    /\ steady = {}
    /\ settled = FALSE

-----------------------------------------------------------------------------
(***************************************************************************)
(* The pure part. Variants that no action uses stand before some helpers:  *)
(* plausible mistakes, kept to show that a property would catch them.      *)
(***************************************************************************)

\* timezone.ts: the date and the time of an instant in a zone.
localDateForUtc(t, zone) == t \div DayLength
localDateFor(t, zone) == (t + zone) \div DayLength
localTimeFor(t, zone) == (t + zone) % DayLength
previousDay(day) == day - 1

\* findFirst: no row for a date outside the schedule.
Assigned(day) == IF day \in Days THEN schedule[day] ELSE None

\* A time of day, too: it wraps at midnight.
plusGrace(shift) == (shift.end + shift.gracePeriodMins) % DayLength

TodayOnly(first, second, time) == first
WithGrace(first, second, time) ==
    IF second # None /\ second.isOvernight /\ time <= plusGrace(second)
    THEN [second EXCEPT !.end = plusGrace(second)]
    ELSE first
Chosen(first, second, time) ==
    IF second # None /\ second.isOvernight /\ time <= plusGrace(second)
    THEN second
    ELSE first

-----------------------------------------------------------------------------

\* Any change of the schedule between two statements of the call, and a change
\* of the branch or of its time zone.
Reschedule(d, s) ==
    /\ schedule[d] # s
    /\ schedule' = [schedule EXCEPT ![d] = s]
    /\ steady' = steady \ {d}
    /\ UNCHANGED <<timezone, pc, punchAt, local, today, answer, settled>>

MoveZone(o) ==
    /\ timezone # o
    /\ timezone' = o
    /\ settled' = FALSE
    /\ UNCHANGED <<schedule, pc, punchAt, local, today, answer, steady>>

Call(t) ==
    /\ pc = "idle"
    /\ pc' = "timezone"
    /\ punchAt' = t
    /\ steady' = Days
    /\ settled' = TRUE
    /\ UNCHANGED <<tables, local, today, answer>>

\* timezoneFor.
ReadTimezone ==
    /\ pc = "timezone"
    /\ pc' = "today"
    /\ local' = timezone
    /\ UNCHANGED <<tables, punchAt, today, answer, history>>

\* The two statements of the transaction each see what is committed by then.
ReadToday ==
    /\ pc = "today"
    /\ pc' = "yesterday"
    /\ today' = Assigned(localDateFor(punchAt, local))
    /\ UNCHANGED <<tables, punchAt, local, answer, history>>

ReadYesterday ==
    /\ pc = "yesterday"
    /\ pc' = "done"
    /\ LET yesterday == Assigned(previousDay(localDateFor(punchAt, local)))
       IN  answer' = Chosen(today, yesterday, localTimeFor(punchAt, local))
    /\ UNCHANGED <<tables, punchAt, local, today, history>>

Return ==
    /\ pc = "done"
    /\ pc' = "idle"
    /\ today' = None
    /\ answer' = None
    /\ UNCHANGED <<tables, punchAt, local, history>>

Next ==
    \/ \E d \in Days, s \in Shifts \cup {None} : Reschedule(d, s)
    \/ \E o \in Offsets : MoveZone(o)
    \/ \E t \in Instants : Call(t)
    \/ ReadTimezone \/ ReadToday \/ ReadYesterday \/ Return

Spec == Init /\ [][Next]_vars

-----------------------------------------------------------------------------
(***************************************************************************)
(* The reference: the time a shift scheduled for a date takes, counted in  *)
(* minutes of local time from a fixed midnight, and nothing wrapped.       *)
(***************************************************************************)

Start(d) == d * DayLength + schedule[d].start
Finish(d) ==
    d * DayLength + schedule[d].end + schedule[d].gracePeriodMins
        + (IF schedule[d].isOvernight THEN DayLength ELSE 0)

Covers(d) ==
    /\ schedule[d] # None
    /\ punchAt + timezone \in Start(d) .. Finish(d)

\* Shifts that end with their grace within the day, and whose isOvernight is
\* what their times say.
Plain(d) ==
    schedule[d] # None =>
        /\ schedule[d].isOvernight <=> schedule[d].end <= schedule[d].start
        /\ schedule[d].end + schedule[d].gracePeriodMins < DayLength

\* The dates that getActiveShift looks at.
Relevant ==
    LET day == localDateFor(punchAt, timezone) IN {day, previousDay(day)} \cap Days

\* A punch in the time of one scheduled shift, and of no other, belongs to that
\* shift, overnight or not and in every time zone (lines 230-264): the
\* assignments of these dates may change before and after the call, those of
\* other dates at any moment.
CoveredIsAttributed ==
    pc = "done" /\ settled =>
        \A d \in Days :
            (/\ Covers(d)
             /\ \A e \in Relevant \cup {d} : Plain(e) /\ e \in steady
             /\ \A e \in Relevant \ {d} : ~Covers(e))
            => answer = schedule[d]

\* A punch in the time of a shift that stays scheduled is never left without
\* one, whatever happens meanwhile to the assignments of the other dates.
CoveredIsNotLost ==
    pc = "done" /\ settled =>
        \A d \in steady : Covers(d) /\ Plain(d) => answer # None

\* An overnight shift is attributed until its end and grace have passed
\* (src/src/modules/shifts/shifts.service.spec.ts, line 363, "ignores yesterday
\* overnight shift once it has ended (past end + grace)").
OvernightUntilGrace ==
    pc = "done" /\ settled =>
        \A d \in steady :
            (/\ Covers(d)
             /\ schedule[d].isOvernight
             /\ d = previousDay(localDateFor(punchAt, timezone)))
            => answer = schedule[d]
=============================================================================
