----------------------------- MODULE Attendance -----------------------------
(***************************************************************************)
(* POST /attendance/check: AttendanceService.checkIn                       *)
(* (src/src/modules/attendance/attendance.service.ts, lines 29-125).       *)
(* A call runs without interruption between two awaits; at an await the    *)
(* other calls, the clock and the rest of the API run. Each step below is  *)
(* one database statement with the code around it, and every statement is  *)
(* atomic on its own: the handler opens no transaction.                    *)
(* Left out: the image, direction, method, confidence and the status they  *)
(* give the punch, none of which decides what is written to the log.       *)
(***************************************************************************)
EXTENDS AttendanceData

VARIABLES
    clock,      \* new Date()
    employees,  \* rows of the Employee table
    punches,    \* rows of AttendancePunch
    logs,       \* rows of AttendanceLog
    pc,         \* where each call is
    local,      \* each call's local variables
    arrival     \* history: what the employee's days looked like on arrival

tables == <<employees, punches, logs>>
vars == <<clock, employees, punches, logs, pc, local, arrival>>

\* "answered": a 2xx response left; "notFound": 404; "failed": 500 from a
\* constraint violation; "lost": the database connection or the process died.
InFlight == {"insertPunch", "takeDay", "findLog", "createLog", "updateLog"}
Over == {"answered", "notFound", "failed", "lost"}
Stages == {"idle"} \cup InFlight \cup Over

\* employee (dto.employeeId), now, today and existing are the code's names.
Locals == [employee : Employees \cup {None}, now : Time,
           today : Days, existing : LogRow \cup {None}]

DayState(row) ==
    IF row = None THEN "none" ELSE IF row.checkOut = None THEN "open" ELSE "closed"

TypeOK ==
    /\ clock \in Time
    /\ employees \subseteq Employees
    /\ punches \in PunchTable
    /\ logs \in LogTable
    /\ pc \in [Calls -> Stages]
    /\ local \in [Calls -> Locals]
    /\ arrival \in [Calls -> [Days -> {"none", "open", "closed"}]]

Init ==
    /\ clock = 0
    /\ employees = Employees
    /\ punches = [c \in Calls |-> None]
    /\ logs = [k \in Employees \X Days |-> None]
    /\ pc = [c \in Calls |-> "idle"]
    /\ local = [c \in Calls |-> [employee |-> None, now |-> 0,
                                 today |-> DayOf(0), existing |-> None]]
    /\ arrival = [c \in Calls |-> [d \in Days |-> "none"]]

-----------------------------------------------------------------------------
(***************************************************************************)
(* The steps. Some helpers have variants before them that no action uses:  *)
(* each is a plausible mistake in the code the helper stands for, kept to  *)
(* show that a property below would catch it (README, "Mutants").          *)
(***************************************************************************)

Goto(c, stage) == pc' = [pc EXCEPT ![c] = stage]

\* The AttendanceLog row the call is about.
Key(c) == <<local[c].employee, local[c].today>>

\* The call arrives. An employee id is looked up in the tenant (404 when
\* absent); `now` is read as soon as the lookup resolves. Nothing between the
\* two reads can change the outcome except the employee's deletion, which the
\* insert that follows meets in the same way, so they are one step.
Arrive(c, e) ==
    /\ pc[c] = "idle"
    /\ Goto(c, IF e = None \/ e \in employees THEN "insertPunch" ELSE "notFound")
    /\ local' = [local EXCEPT ![c].employee = e, ![c].now = clock]
    /\ arrival' = [arrival EXCEPT ![c] =
                       [d \in Days |-> IF e = None THEN "none" ELSE DayState(logs[<<e, d>>])]]
    /\ UNCHANGED <<clock, tables>>

\* attendancePunch.create: committed on its own. The foreign key fails when
\* the employee has been deleted meanwhile.
InsertPunch(c) ==
    /\ pc[c] = "insertPunch"
    /\ LET e == local[c].employee
       IN  IF e = None \/ e \in employees
           THEN /\ punches' = [punches EXCEPT ![c] = [employee |-> e, timestamp |-> local[c].now]]
                /\ Goto(c, IF e = None THEN "answered" ELSE "takeDay")
           ELSE /\ Goto(c, "failed")
                /\ UNCHANGED punches
    /\ UNCHANGED <<clock, employees, logs, local, arrival>>

\* const today = new Date(); today.setHours(0, 0, 0, 0)
TodayUntruncated == clock
TodayAtStartup == DayOf(0)
Today == DayOf(clock)

\* The clock is read a second time, for the day.
TakeDay(c) ==
    /\ pc[c] = "takeDay"
    /\ local' = [local EXCEPT ![c].today = Today]
    /\ Goto(c, "findLog")
    /\ UNCHANGED <<clock, tables, arrival>>

\* The branch taken on the row found: open the day, close it, or leave it.
BranchOnAnyRow(existing) == IF existing = None THEN "createLog" ELSE "updateLog"
BranchOnNoRow(existing) == IF existing = None THEN "createLog" ELSE "answered"
Branch(existing) ==
    CASE existing = None -> "createLog"
      [] Open(existing)  -> "updateLog"
      [] OTHER           -> "answered"

\* attendanceLog.findUnique
FindLog(c) ==
    /\ pc[c] = "findLog"
    /\ local' = [local EXCEPT ![c].existing = logs[Key(c)]]
    /\ Goto(c, Branch(logs[Key(c)]))
    /\ UNCHANGED <<clock, tables, arrival>>

\* The row a first punch creates.
NewLogRestamped(c) ==
    [checkIn |-> clock, checkOut |-> None, totalHours |-> None, punchId |-> c]
NewLog(c) ==
    [checkIn |-> local[c].now, checkOut |-> None, totalHours |-> None, punchId |-> c]

\* What the table accepts: unique (employeeId, date), foreign key on the employee.
LogAcceptedTwice(c) == local[c].employee \in employees
LogAccepted(c) == logs[Key(c)] = None /\ local[c].employee \in employees

\* attendanceLog.create
CreateLog(c) ==
    /\ pc[c] = "createLog"
    /\ IF LogAccepted(c)
       THEN /\ logs' = [logs EXCEPT ![Key(c)] = NewLog(c)]
            /\ Goto(c, "answered")
       ELSE /\ Goto(c, "failed")
            /\ UNCHANGED logs
    /\ UNCHANGED <<clock, employees, punches, local, arrival>>

\* The row a later punch leaves: its check-out is not looked at again, and the
\* hours come from the row that was read, not from the row that is there.
ClosedAtMidnight(c) ==
    [logs[Key(c)] EXCEPT !.checkOut = local[c].today * DayLength]
ClosedWithOldHours(c) ==
    [logs[Key(c)] EXCEPT !.checkOut = local[c].now,
                         !.totalHours = IF @ = None
                                        THEN TotalHours(local[c].now - local[c].existing.checkIn)
                                        ELSE @]
ClosedLog(c) ==
    [logs[Key(c)] EXCEPT !.checkOut = local[c].now,
                         !.totalHours = TotalHours(local[c].now - local[c].existing.checkIn)]

\* attendanceLog.update by id: fails only when the row is gone.
UpdateLog(c) ==
    /\ pc[c] = "updateLog"
    /\ IF logs[Key(c)] # None
       THEN /\ logs' = [logs EXCEPT ![Key(c)] = ClosedLog(c)]
            /\ Goto(c, "answered")
       ELSE /\ Goto(c, "failed")
            /\ UNCHANGED logs
    /\ UNCHANGED <<clock, employees, punches, local, arrival>>

\* The pending statement rejects or the process dies: what was committed stays.
\* A crash that takes every call along is this step once for each of them.
Lose(c) ==
    /\ pc[c] \in InFlight
    /\ Goto(c, "lost")
    /\ UNCHANGED <<clock, tables, local, arrival>>

\* AttendanceLog.employee: onDelete Cascade.
LogsKept(e) == logs
LogsWithout(e) == [k \in Employees \X Days |-> IF k[1] = e THEN None ELSE logs[k]]

\* DELETE /employees/:id (EmployeesService.remove): its logs cascade, its
\* punches keep their row with employeeId set to NULL.
DeleteEmployee(e) ==
    /\ e \in employees
    /\ employees' = employees \ {e}
    /\ punches' = [c \in Calls |->
                       IF punches[c] # None /\ punches[c].employee = e
                       THEN [punches[c] EXCEPT !.employee = None]
                       ELSE punches[c]]
    /\ logs' = LogsWithout(e)
    /\ UNCHANGED <<clock, pc, local, arrival>>

\* MaxClock bounds the clock.
Tick ==
    /\ clock < MaxClock
    /\ clock' = clock + 1
    /\ UNCHANGED <<tables, pc, local, arrival>>

CallStep(c) ==
    \/ \E e \in Employees \cup {None} : Arrive(c, e)
    \/ InsertPunch(c)
    \/ TakeDay(c)
    \/ FindLog(c)
    \/ CreateLog(c)
    \/ UpdateLog(c)
    \/ Lose(c)

Next ==
    \/ \E c \in Calls : CallStep(c)
    \/ \E e \in Employees : DeleteEmployee(e)
    \/ Tick

Spec == Init /\ [][Next]_vars

-----------------------------------------------------------------------------
(***************************************************************************)
(* What the two tables promise, whatever calls overlap, fail or die.       *)
(***************************************************************************)

\* The check-in of a day is the time of the punch the row points to, which is
\* a punch of that employee: although the row is written two awaits after the
\* punch, by one of several calls racing to open the day (lines 54-89).
CheckInIsItsPunch ==
    \A e \in Employees, d \in Days :
        LET row == logs[<<e, d>>]
        IN  row # None =>
                punches[row.punchId] = [employee |-> e, timestamp |-> row.checkIn]

\* A check-out is the time of another punch of the same employee, and the hours
\* are those between the two: although they are computed from a row read before
\* an await, and overlapping calls overwrite each other's (lines 90-102).
CheckOutIsAnotherPunch ==
    \A e \in Employees, d \in Days :
        LET row == logs[<<e, d>>]
        IN  Closed(row) =>
                /\ row.totalHours = TotalHours(row.checkOut - row.checkIn)
                /\ \E c \in Calls \ {row.punchId} :
                       punches[c] = [employee |-> e, timestamp |-> row.checkOut]

\* No punch that was stored is missing from its day, unless the call was lost:
\* a call that was answered opened the day or found it opened by another punch
\* and left it closed; a call that got a 500 after storing its punch lost the
\* race to open a day that is there (lines 54-103).
StoredPunchHasItsDay ==
    \A c \in Calls :
        LET e == local[c].employee
        IN  (pc[c] \in {"answered", "failed"} /\ punches[c] # None /\ e \in employees) =>
                LET row == logs[Key(c)]
                IN  /\ row # None
                    /\ pc[c] = "answered" => row.punchId = c \/ Closed(row)

\* A day already closed when a call arrives is final for that call: only calls
\* that overlap the closing one can move its check-out (lines 74, 90).
ClosedDayIsFinal ==
    \A c \in Calls :
        (pc[c] \in {"createLog", "updateLog"} /\ local[c].employee \in employees) =>
            arrival[c][local[c].today] # "closed"

\* Action property: a call that found the day open on arrival never records a
\* check-out earlier than the check-in: times run backwards only between
\* overlapping calls (lines 44, 74, 93-99).
SequentialPunchesInOrder ==
    [][\A c \in Calls :
           (/\ pc[c] = "updateLog"
            /\ pc'[c] = "answered"
            /\ arrival[c][local[c].today] = "open") =>
               logs'[Key(c)].checkIn <= logs'[Key(c)].checkOut]_vars

\* Instant t, or a later one that has come, was on a day stored as d.
WasDaySince(t, d) == \E i \in t .. clock : d = DayOf(i)

\* A row is under the date of the local day of its punches, or of a later day
\* that had begun by then: the time and the day are two readings of the clock,
\* so that a day may get the punch of the evening before, but never the punch of
\* a later day than its own, nor a row ahead of its time. That holds of the
\* check-out too, which another call writes (lines 44, 71-85, 93-99). What the
\* dates of two days are is up to DayOf.
DayIsOfItsPunches ==
    \A e \in Employees, d \in Days :
        LET row == logs[<<e, d>>]
        IN  row # None => /\ WasDaySince(row.checkIn, d)
                          /\ Closed(row) => WasDaySince(row.checkOut, d)

\* What one step may do to a recorded day: advance it, or remove it with its
\* employee.
DayAdvances(k) ==
    logs[k] # None =>
        IF k[1] \in employees'
        THEN /\ logs'[k] # None
             /\ logs'[k].checkIn = logs[k].checkIn
             /\ logs'[k].punchId = logs[k].punchId
             /\ Closed(logs[k]) => Closed(logs'[k])
        ELSE logs'[k] = None

\* Action property: the check-in and the punch that opened a day are never
\* rewritten, and a check-out once recorded is never withdrawn, however many
\* calls race for the day; a row goes only with its employee (lines 78-103).
DayOnlyAdvances == [][\A k \in Employees \X Days : DayAdvances(k)]_vars

\* The tables go through no step the ledger does not allow.
Ledger == INSTANCE AttendanceLedger
ImplementsLedger == Ledger!LedgerSpec

\* "Subsequent punch -> record check-out" (line 91): the punch recorded as the
\* check-out came after the check-in. Overlapping calls refute it.
CheckOutIsSubsequent ==
    \A k \in Employees \X Days : Closed(logs[k]) => logs[k].checkIn <= logs[k].checkOut
=============================================================================
