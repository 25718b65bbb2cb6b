--------------------------- MODULE AttendanceData ---------------------------
(***************************************************************************)
(* The rows of the two attendance tables and the clock they are stamped    *)
(* with (prisma/schema.prisma, models AttendancePunch and AttendanceLog).  *)
(* Shared by what the daily log promises (AttendanceLedger) and by the     *)
(* handler that keeps the promise (Attendance).                            *)
(***************************************************************************)
EXTENDS Integers

CONSTANTS
    Employees,      \* rows of the Employee table
    Calls,          \* POST /attendance/check calls; a call stores at most one
                    \* punch, so a call also names the punch it stored
    None,           \* SQL NULL, and "no such row"
    MaxClock,       \* bound: the last instant of the model
    DayLength,      \* instants in a calendar day of UTC
    Midnights,      \* the instants at which a calendar day of the server begins,
                    \* in its own time zone, summer time included
    HundredthHour   \* instants in 0.01 h, the precision of totalHours

ASSUME ClockAssumption ==
    /\ MaxClock \in Nat
    /\ DayLength \in Nat \ {0}
    /\ HundredthHour \in Nat \ {0}

Time == 0 .. MaxClock

\* Every instant is on a day of the server.
ASSUME CalendarAssumption ==
    /\ Midnights \subseteq Int
    /\ \A t \in Time :
           \E m \in Midnights : m <= t /\ \A n \in Midnights : n <= t => n <= m

\* today.setHours(0, 0, 0, 0): the last local midnight.
LocalMidnight(t) ==
    CHOOSE m \in Midnights : m <= t /\ \A n \in Midnights : n <= t => n <= m

\* What a @db.Date column keeps of an instant: its date in UTC.
UtcDate(i) == i \div DayLength

\* The date that a day is stored under. East of UTC it is the day before the one
\* on the server's wall, and two days that begin on one date of UTC share it.
DayOf(t) == UtcDate(LocalMidnight(t))

Days == {DayOf(t) : t \in Time}

\* parseFloat((diffMs / 3600000).toFixed(2)), in hundredths of an hour:
\* rounded to the nearest, halves away from zero, the sign kept.
TotalHours(diff) ==
    LET Round(d) == (2 * d + HundredthHour) \div (2 * HundredthHour)
    IN  IF diff >= 0 THEN Round(diff) ELSE -Round(-diff)

Hours == {TotalHours(diff) : diff \in -MaxClock .. MaxClock}

LogRow == [checkIn : Time, checkOut : Time \cup {None},
           totalHours : Hours \cup {None}, punchId : Calls]

PunchRow == [employee : Employees \cup {None}, timestamp : Time]

ASSUME NoneAssumption ==
    None \notin Employees \cup Calls \cup Time \cup Hours \cup PunchRow \cup LogRow

\* The two tables. AttendanceLog is keyed by its unique pair (employeeId, date).
PunchTable == [Calls -> PunchRow \cup {None}]
LogTable == [Employees \X Days -> LogRow \cup {None}]

Open(row) == row # None /\ row.checkOut = None
Closed(row) == row # None /\ row.checkOut # None
=============================================================================
