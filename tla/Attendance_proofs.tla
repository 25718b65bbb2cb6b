-------------------------- MODULE Attendance_proofs --------------------------
(***************************************************************************)
(* Proofs about Attendance, for any employees, calls and clock.            *)
(* The argument: a call past its insert owns a punch stamped with its      *)
(* `now`; a day's row was written by a call that is over, so the row a     *)
(* call read can only have changed in its check-out, or gone with its      *)
(* employee. That is AttendanceInv, which is inductive.                    *)
(***************************************************************************)
EXTENDS Attendance, TLAPS

Punched == {"takeDay", "findLog", "createLog", "updateLog"}

\* What a call's place says about its local variables: the branch on the
\* employee and the branch on the row were taken.
CallOK(c) ==
    /\ pc[c] \in Punched => local[c].employee \in Employees
    /\ pc[c] = "updateLog" => local[c].existing # None

TypeInv == TypeOK /\ \A c \in Calls : CallOK(c)

\* What a call's place says about the punch it stored.
PunchOfCall(c) ==
    /\ pc[c] \in {"idle", "insertPunch", "notFound"} => punches[c] = None
    /\ (pc[c] \in Punched /\ local[c].employee \in employees) =>
                punches[c] = [employee |-> local[c].employee, timestamp |-> local[c].now]

\* The row a call is about to update still has the check-in it read.
RowOfCall(c) ==
    (pc[c] = "updateLog" /\ local[c].employee \in employees) =>
            /\ logs[Key(c)] # None
            /\ logs[Key(c)].checkIn = local[c].existing.checkIn

\* A row belongs to an employee who is there, and was written by a call that
\* is over and whose punch it carries.
RowWellFounded(e, d) ==
    LET row == logs[<<e, d>>]
    IN  row # None =>
            /\ e \in employees
            /\ pc[row.punchId] = "answered"
            /\ punches[row.punchId] = [employee |-> e, timestamp |-> row.checkIn]

AttendanceInv ==
    /\ TypeInv
    /\ \A c \in Calls : PunchOfCall(c) /\ RowOfCall(c)
    /\ \A e \in Employees, d \in Days : RowWellFounded(e, d)

-----------------------------------------------------------------------------

\* An update that finds its row replaces it by ClosedLog, which is a row.
LEMMA UpdateWritesRow ==
  ASSUME TypeInv, NEW c \in Calls, UpdateLog(c), logs[Key(c)] # None
  PROVE  /\ Key(c) \in Employees \X Days
         /\ logs[Key(c)] \in LogRow
         /\ ClosedLog(c) \in LogRow
         /\ logs' = [logs EXCEPT ![Key(c)] = ClosedLog(c)]
<1>1. /\ local[c].employee \in Employees
      /\ local[c].today \in Days
      /\ local[c].now \in Time
      /\ local[c].existing \in LogRow
  BY DEF UpdateLog, TypeInv, TypeOK, CallOK, Punched, Locals
<1>2. Key(c) \in Employees \X Days /\ logs[Key(c)] \in LogRow
  BY <1>1 DEF Key, TypeInv, TypeOK, LogTable
<1>3. TotalHours(local[c].now - local[c].existing.checkIn) \in Hours
  <2>1. local[c].existing.checkIn \in Time
    BY <1>1 DEF LogRow
  <2>2. local[c].now - local[c].existing.checkIn \in -MaxClock .. MaxClock
    BY <1>1, <2>1, ClockAssumption DEF Time
  <2>3. QED
    BY <2>2 DEF Hours
<1>4. ClosedLog(c) \in LogRow
  BY <1>1, <1>2, <1>3 DEF ClosedLog, LogRow
<1>5. logs' = [logs EXCEPT ![Key(c)] = ClosedLog(c)]
  BY <1>2 DEF UpdateLog
<1>6. QED
  BY <1>2, <1>4, <1>5

\* Every variable keeps its type, across every step of every call.
LEMMA TypeInvariant == Spec => []TypeInv
<1>1. Init => TypeInv
  BY ClockAssumption
     DEF Init, TypeInv, TypeOK, PunchTable, LogTable, Locals, Stages, Days, Time, CallOK, Punched
<1>2. ASSUME TypeInv, [Next]_vars
      PROVE  TypeInv'
  <2> USE <1>2 DEF TypeInv, TypeOK
  <2>0. ASSUME NEW c \in Calls
        PROVE  /\ local[c].employee \in Employees \cup {None}
               /\ local[c].now \in Time
               /\ local[c].today \in Days
               /\ local[c].existing \in LogRow \cup {None}
               /\ local[c].employee \in Employees =>
                     /\ Key(c) \in Employees \X Days
                     /\ logs[Key(c)] \in LogRow \cup {None}
    BY <2>0 DEF Locals, Key, LogTable
  <2>1. ASSUME NEW c \in Calls, NEW e \in Employees \cup {None}, Arrive(c, e)
        PROVE  TypeInv'
    <3>1. pc' \in [Calls -> Stages]
      BY <2>1 DEF Arrive, Goto, Stages, InFlight, Over
    <3>2. local' \in [Calls -> Locals]
      BY <2>1 DEF Arrive, Locals
    <3>3. arrival' \in [Calls -> [Days -> {"none", "open", "closed"}]]
      BY <2>1 DEF Arrive, DayState
    <3>4. \A b \in Calls : CallOK(b)'
      BY <2>1 DEF Arrive, Goto, CallOK, Punched
    <3>5. QED
      BY <2>1, <3>1, <3>2, <3>3, <3>4 DEF Arrive, tables
  <2>2. ASSUME NEW c \in Calls, InsertPunch(c)
        PROVE  TypeInv'
    <3>1. pc' \in [Calls -> Stages]
      BY <2>2 DEF InsertPunch, Goto, Stages, InFlight, Over
    <3>2. punches' \in PunchTable
      BY <2>0, <2>2 DEF InsertPunch, PunchTable, PunchRow
    <3>3. \A b \in Calls : CallOK(b)'
      BY <2>0, <2>2 DEF InsertPunch, Goto, CallOK, Punched
    <3>4. QED
      BY <2>2, <3>1, <3>2, <3>3 DEF InsertPunch
  <2>3. ASSUME NEW c \in Calls, TakeDay(c)
        PROVE  TypeInv'
    <3>1. pc' \in [Calls -> Stages]
      BY <2>3 DEF TakeDay, Goto, Stages, InFlight, Over
    <3>2. local' \in [Calls -> Locals]
      BY <2>3 DEF TakeDay, Today, Locals, Days
    <3>3. \A b \in Calls : CallOK(b)'
      BY <2>3 DEF TakeDay, Goto, CallOK, Punched, Locals
    <3>4. QED
      BY <2>3, <3>1, <3>2, <3>3 DEF TakeDay, tables
  <2>4. ASSUME NEW c \in Calls, FindLog(c)
        PROVE  TypeInv'
    <3>1. local[c].employee \in Employees
      BY <2>4 DEF FindLog, CallOK, Punched
    <3>2. pc' \in [Calls -> Stages]
      BY <2>4 DEF FindLog, Branch, Goto, Stages, InFlight, Over
    <3>3. local' \in [Calls -> Locals]
      BY <2>0, <2>4, <3>1 DEF FindLog, Locals
    <3>4. \A b \in Calls : CallOK(b)'
      BY <2>4, <3>1 DEF FindLog, Branch, Goto, CallOK, Punched, Open, Locals
    <3>5. QED
      BY <2>4, <3>2, <3>3, <3>4 DEF FindLog, tables
  <2>5. ASSUME NEW c \in Calls, CreateLog(c)
        PROVE  TypeInv'
    <3>1. pc' \in [Calls -> Stages]
      BY <2>5 DEF CreateLog, LogAccepted, NewLog, Goto, Stages, InFlight, Over
    <3>2. logs' \in LogTable
      BY <2>0, <2>5 DEF CreateLog, LogAccepted, NewLog, LogTable, LogRow
    <3>3. \A b \in Calls : CallOK(b)'
      BY <2>5 DEF CreateLog, LogAccepted, NewLog, Goto, CallOK, Punched
    <3>4. QED
      BY <2>5, <3>1, <3>2, <3>3 DEF CreateLog, LogAccepted, NewLog
  <2>6. ASSUME NEW c \in Calls, UpdateLog(c)
        PROVE  TypeInv'
    <3>1. pc' \in [Calls -> Stages]
      BY <2>6 DEF UpdateLog, Goto, Stages, InFlight, Over
    <3>2. logs' \in LogTable
      BY <2>6, UpdateWritesRow DEF UpdateLog, LogTable
    <3>3. \A b \in Calls : CallOK(b)'
      BY <2>6 DEF UpdateLog, Goto, CallOK, Punched
    <3>4. QED
      BY <2>6, <3>1, <3>2, <3>3 DEF UpdateLog
  <2>7. ASSUME NEW c \in Calls, Lose(c)
        PROVE  TypeInv'
    BY <2>7 DEF Lose, Goto, tables, Stages, InFlight, Over, CallOK, Punched
  <2>8. ASSUME NEW e \in Employees, DeleteEmployee(e)
        PROVE  TypeInv'
    <3>1. punches' \in PunchTable
      BY <2>8 DEF DeleteEmployee, LogsWithout, PunchTable, PunchRow
    <3>2. logs' \in LogTable
      BY <2>8 DEF DeleteEmployee, LogsWithout, LogTable
    <3>3. QED
      BY <2>8, <3>1, <3>2 DEF DeleteEmployee, LogsWithout, CallOK
  <2>9. CASE Tick
    BY <2>9, ClockAssumption DEF Tick, tables, Time, CallOK
  <2>10. CASE UNCHANGED vars
    BY <2>10 DEF vars, tables, CallOK
  <2>11. QED
    BY <2>1, <2>2, <2>3, <2>4, <2>5, <2>6, <2>7, <2>8, <2>9, <2>10 DEF Next, CallStep
<1>3. QED
  BY <1>1, <1>2, PTL DEF Spec

THEOREM TypeCorrect == Spec => []TypeOK
  BY TypeInvariant, PTL DEF TypeInv

-----------------------------------------------------------------------------

\* One row of the table, from the table's type.
LEMMA RowType ==
  ASSUME TypeOK, NEW e \in Employees, NEW d \in Days, logs[<<e, d>>] # None
  PROVE  /\ logs[<<e, d>>] \in LogRow
         /\ logs[<<e, d>>].punchId \in Calls
         /\ logs[<<e, d>>].checkIn \in Time
<1>1. logs[<<e, d>>] \in LogRow
  BY DEF TypeOK, LogTable
<1>2. QED
  BY <1>1 DEF LogRow

\* AttendanceInv survives every step.
LEMMA AttendanceInvariant == Spec => []AttendanceInv
<1>1. Init => (TypeInv => AttendanceInv)
  BY DEF Init, AttendanceInv, PunchOfCall, RowOfCall, RowWellFounded, Punched
<1>2. ASSUME AttendanceInv, TypeInv', [Next]_vars
      PROVE  AttendanceInv'
  <2> USE <1>2 DEF AttendanceInv
  <2>0. TypeOK /\ \A c \in Calls : CallOK(c)
    BY DEF TypeInv
  <2>1. ASSUME NEW c \in Calls, NEW x \in Employees \cup {None}, Arrive(c, x)
        PROVE  AttendanceInv'
    <3>1. \A b \in Calls : PunchOfCall(b)' /\ RowOfCall(b)'
      BY <2>0, <2>1 DEF Arrive, Goto, tables, PunchOfCall, RowOfCall, Punched, Key, TypeOK
    <3>2. ASSUME NEW e \in Employees, NEW d \in Days
          PROVE  RowWellFounded(e, d)'
      BY <2>0, <2>1, <3>2, RowType DEF Arrive, Goto, tables, RowWellFounded, TypeOK
    <3>3. QED
      BY <3>1, <3>2
  <2>2. ASSUME NEW c \in Calls, InsertPunch(c)
        PROVE  AttendanceInv'
    <3>1. \A b \in Calls : PunchOfCall(b)' /\ RowOfCall(b)'
      BY <2>0, <2>2 DEF InsertPunch, Goto, PunchOfCall, RowOfCall, Punched, Key, TypeOK, PunchTable
    <3>2. ASSUME NEW e \in Employees, NEW d \in Days
          PROVE  RowWellFounded(e, d)'
      BY <2>0, <2>2, <3>2, RowType DEF InsertPunch, Goto, RowWellFounded, TypeOK, PunchTable
    <3>3. QED
      BY <3>1, <3>2
  <2>3. ASSUME NEW c \in Calls, TakeDay(c)
        PROVE  AttendanceInv'
    <3>1. \A b \in Calls : PunchOfCall(b)' /\ RowOfCall(b)'
      BY <2>0, <2>3 DEF TakeDay, Goto, tables, PunchOfCall, RowOfCall, Punched, Key, TypeOK, Locals
    <3>2. ASSUME NEW e \in Employees, NEW d \in Days
          PROVE  RowWellFounded(e, d)'
      BY <2>0, <2>3, <3>2, RowType DEF TakeDay, Goto, tables, RowWellFounded, TypeOK
    <3>3. QED
      BY <3>1, <3>2
  <2>4. ASSUME NEW c \in Calls, FindLog(c)
        PROVE  AttendanceInv'
    <3>1. \A b \in Calls : PunchOfCall(b)' /\ RowOfCall(b)'
      BY <2>0, <2>4
         DEF FindLog, Branch, Goto, tables, PunchOfCall, RowOfCall, Punched, Key, TypeOK, Locals, Open
    <3>2. ASSUME NEW e \in Employees, NEW d \in Days
          PROVE  RowWellFounded(e, d)'
      BY <2>0, <2>4, <3>2, RowType DEF FindLog, Branch, Goto, tables, RowWellFounded, TypeOK
    <3>3. QED
      BY <3>1, <3>2
  <2>5. ASSUME NEW c \in Calls, CreateLog(c)
        PROVE  AttendanceInv'
    <3>1. CASE LogAccepted(c)
      <4> DEFINE row == [checkIn |-> local[c].now, checkOut |-> None,
                         totalHours |-> None, punchId |-> c]
      <4>1. /\ logs' = [logs EXCEPT ![Key(c)] = row]
            /\ pc' = [pc EXCEPT ![c] = "answered"]
            /\ UNCHANGED <<employees, punches, local>>
        BY <2>5, <3>1 DEF CreateLog, LogAccepted, NewLog, Goto
      <4>2. /\ punches[c] = [employee |-> local[c].employee, timestamp |-> local[c].now]
            /\ local[c].employee \in Employees
            /\ local[c].today \in Days
        BY <2>0, <2>5, <3>1 DEF CreateLog, LogAccepted, NewLog, PunchOfCall, Punched, TypeOK, Locals
      <4>3. row # None
        BY <1>2, <2>0, <4>1, <4>2, NoneAssumption DEF TypeInv, TypeOK, LogTable, LogRow, Locals
      <4>4. ASSUME NEW b \in Calls
            PROVE  PunchOfCall(b)' /\ RowOfCall(b)'
        BY <2>0, <3>1, <4>1, <4>4 DEF LogAccepted, PunchOfCall, RowOfCall, Punched, Key, TypeOK, LogTable
      <4>5. ASSUME NEW e \in Employees, NEW d \in Days
            PROVE  RowWellFounded(e, d)'
        <5>1. CASE <<e, d>> = Key(c)
          <6>1. logs'[<<e, d>>] = row
            BY <2>0, <4>1, <4>2, <5>1 DEF TypeOK, LogTable, Key
          <6>2. e = local[c].employee
            BY <5>1 DEF Key
          <6>3. QED
            BY <2>0, <3>1, <4>1, <4>2, <6>1, <6>2 DEF LogAccepted, RowWellFounded, TypeOK
        <5>2. CASE <<e, d>> # Key(c)
          BY <2>0, <4>1, <4>5, <5>2, RowType DEF RowWellFounded, TypeOK, LogTable
        <5>3. QED
          BY <5>1, <5>2
      <4>6. QED
        BY <4>4, <4>5
    <3>2. CASE ~LogAccepted(c)
      BY <2>0, <2>5, <3>2, RowType
         DEF CreateLog, LogAccepted, NewLog, Goto, PunchOfCall, RowOfCall, RowWellFounded, Punched, Key, TypeOK
    <3>3. QED
      BY <3>1, <3>2
  <2>6. ASSUME NEW c \in Calls, UpdateLog(c)
        PROVE  AttendanceInv'
    <3>1. CASE logs[Key(c)] # None
      <4>1. /\ pc' = [pc EXCEPT ![c] = "answered"]
            /\ UNCHANGED <<employees, punches, local>>
        BY <2>6, <3>1 DEF UpdateLog, Goto
      <4>2. /\ Key(c) \in Employees \X Days
            /\ logs[Key(c)] \in LogRow
            /\ ClosedLog(c) \in LogRow
            /\ logs' = [logs EXCEPT ![Key(c)] = ClosedLog(c)]
        BY <2>6, <3>1, UpdateWritesRow
      <4>3. ASSUME NEW k \in Employees \X Days
            PROVE  /\ (logs'[k] = None) <=> (logs[k] = None)
                   /\ logs[k] # None => /\ logs'[k].checkIn = logs[k].checkIn
                                        /\ logs'[k].punchId = logs[k].punchId
        BY <2>0, <3>1, <4>2, <4>3, NoneAssumption DEF ClosedLog, TypeOK, LogTable, LogRow
      <4>4. ASSUME NEW b \in Calls
            PROVE  PunchOfCall(b)' /\ RowOfCall(b)'
        <5>1. PunchOfCall(b)'
          BY <2>0, <2>6, <4>1, <4>4 DEF UpdateLog, PunchOfCall, Punched, TypeOK
        <5>2. CASE b = c
          BY <2>0, <4>1, <5>1, <5>2 DEF RowOfCall, TypeOK
        <5>3. CASE b # c /\ pc[b] = "updateLog"
          <6>1. Key(b) \in Employees \X Days /\ Key(b)' = Key(b)
            BY <2>0, <4>1, <4>4, <5>3 DEF CallOK, Punched, Key, TypeOK, Locals
          <6>2. QED
            BY <2>0, <4>1, <4>3, <5>1, <5>3, <6>1 DEF RowOfCall, TypeOK
        <5>4. CASE b # c /\ pc[b] # "updateLog"
          BY <2>0, <4>1, <5>1, <5>4 DEF RowOfCall, TypeOK
        <5>5. QED
          BY <5>2, <5>3, <5>4
      <4>5. ASSUME NEW e \in Employees, NEW d \in Days
            PROVE  RowWellFounded(e, d)'
        BY <2>0, <4>1, <4>2, <4>3, <4>5, RowType DEF RowWellFounded, TypeOK
      <4>6. QED
        BY <4>4, <4>5
    <3>2. CASE logs[Key(c)] = None
      BY <2>0, <2>6, <3>2, RowType
         DEF UpdateLog, Goto, PunchOfCall, RowOfCall, RowWellFounded, Punched, Key, TypeOK
    <3>3. QED
      BY <3>1, <3>2
  <2>7. ASSUME NEW c \in Calls, Lose(c)
        PROVE  AttendanceInv'
    <3>1. \A b \in Calls : PunchOfCall(b)' /\ RowOfCall(b)'
      BY <2>0, <2>7 DEF Lose, Goto, tables, InFlight, PunchOfCall, RowOfCall, Punched, Key, TypeOK
    <3>2. ASSUME NEW e \in Employees, NEW d \in Days
          PROVE  RowWellFounded(e, d)'
      BY <2>0, <2>7, <3>2, RowType DEF Lose, Goto, tables, InFlight, RowWellFounded, TypeOK
    <3>3. QED
      BY <3>1, <3>2
  <2>8. ASSUME NEW x \in Employees, DeleteEmployee(x)
        PROVE  AttendanceInv'
    <3>1. ASSUME NEW b \in Calls
          PROVE  PunchOfCall(b)' /\ RowOfCall(b)'
      <4>1. PunchOfCall(b)'
        <5>1. punches'[b] = IF punches[b] # None /\ punches[b].employee = x
                            THEN [punches[b] EXCEPT !.employee = None] ELSE punches[b]
          BY <2>8, <3>1 DEF DeleteEmployee, LogsWithout
        <5>2. CASE pc[b] \in {"idle", "insertPunch", "notFound"}
          BY <2>8, <3>1, <5>1, <5>2 DEF DeleteEmployee, LogsWithout, PunchOfCall, Punched
        <5>3. CASE pc[b] \in Punched /\ local[b].employee \in employees'
          <6>1. local[b].employee \in employees /\ local[b].employee # x
            BY <2>8, <5>3 DEF DeleteEmployee, LogsWithout
          <6>2. punches[b] = [employee |-> local[b].employee, timestamp |-> local[b].now]
            BY <3>1, <5>3, <6>1 DEF PunchOfCall
          <6>3. QED
            BY <2>8, <5>1, <5>3, <6>1, <6>2 DEF DeleteEmployee, LogsWithout, PunchOfCall, Punched
        <5>4. QED
          BY <2>8, <5>2, <5>3 DEF DeleteEmployee, LogsWithout, PunchOfCall
      <4>2. RowOfCall(b)'
        BY <2>0, <2>8, <3>1
           DEF DeleteEmployee, LogsWithout, RowOfCall, CallOK, Punched, Key, TypeOK, Locals, LogTable
      <4>3. QED
        BY <4>1, <4>2
    <3>2. ASSUME NEW e \in Employees, NEW d \in Days
          PROVE  RowWellFounded(e, d)'
      BY <2>0, <2>8, <3>2, RowType, NoneAssumption DEF DeleteEmployee, LogsWithout, RowWellFounded, TypeOK
    <3>3. QED
      BY <3>1, <3>2
  <2>9. CASE Tick
    BY <2>9 DEF Tick, tables, PunchOfCall, RowOfCall, RowWellFounded, Key
  <2>10. CASE UNCHANGED vars
    BY <2>10 DEF vars, tables, PunchOfCall, RowOfCall, RowWellFounded, Key
  <2>11. QED
    BY <2>1, <2>2, <2>3, <2>4, <2>5, <2>6, <2>7, <2>8, <2>9, <2>10 DEF Next, CallStep
<1>3. QED
  BY <1>1, <1>2, TypeInvariant, PTL DEF Spec

-----------------------------------------------------------------------------

\* The check-in of every day is the time of the punch the row points to.
THEOREM CheckInCorrect == Spec => []CheckInIsItsPunch
<1>1. AttendanceInv => CheckInIsItsPunch
  BY DEF AttendanceInv, RowWellFounded, CheckInIsItsPunch
<1>2. QED
  BY <1>1, AttendanceInvariant, PTL

\* One day's part of CheckOutIsAnotherPunch.
ClosedByAnother(e, d) ==
    LET row == logs[<<e, d>>]
    IN  Closed(row) =>
            /\ row.totalHours = TotalHours(row.checkOut - row.checkIn)
            /\ \E c \in Calls \ {row.punchId} :
                   punches[c] = [employee |-> e, timestamp |-> row.checkOut]

\* An update computes the hours from a row that still has the check-in it had
\* when it was read, and its own punch is not the one that opened the day.
LEMMA UpdateCloses ==
  ASSUME AttendanceInv, NEW c \in Calls, UpdateLog(c), logs[Key(c)] # None
  PROVE  /\ local[c].employee \in Employees
         /\ local[c].employee \in employees
         /\ local[c].today \in Days
         /\ logs[Key(c)].checkIn = local[c].existing.checkIn
         /\ logs[Key(c)].punchId \in Calls \ {c}
         /\ punches[c] = [employee |-> local[c].employee, timestamp |-> local[c].now]
<1>1. local[c].employee \in Employees /\ local[c].today \in Days
  BY DEF UpdateLog, AttendanceInv, TypeInv, TypeOK, CallOK, Punched, Locals
<1>2. /\ local[c].employee \in employees
      /\ pc[logs[Key(c)].punchId] = "answered"
  BY <1>1 DEF AttendanceInv, RowWellFounded, Key
<1>3. logs[Key(c)].punchId \in Calls \ {c}
  BY <1>1, <1>2, RowType DEF UpdateLog, AttendanceInv, TypeInv, Key
<1>4. QED
  BY <1>1, <1>2, <1>3 DEF UpdateLog, AttendanceInv, RowOfCall, PunchOfCall, Punched

\* A check-out is the time of another punch of the employee, and the hours are
\* those between check-in and check-out.
THEOREM CheckOutCorrect == Spec => []CheckOutIsAnotherPunch
<1>1. Init => CheckOutIsAnotherPunch
  BY DEF Init, CheckOutIsAnotherPunch, Closed
<1>2. ASSUME AttendanceInv, CheckOutIsAnotherPunch, [Next]_vars
      PROVE  CheckOutIsAnotherPunch'
  <2>0. /\ TypeOK /\ \A c \in Calls : PunchOfCall(c)
        /\ \A e \in Employees, d \in Days : ClosedByAnother(e, d)
    BY <1>2 DEF AttendanceInv, TypeInv, CheckOutIsAnotherPunch, ClosedByAnother
  <2> SUFFICES ASSUME NEW e \in Employees, NEW d \in Days
               PROVE  ClosedByAnother(e, d)'
    BY DEF CheckOutIsAnotherPunch, ClosedByAnother
  <2>a. Closed(logs[<<e, d>>]) => [employee |-> e, timestamp |-> logs[<<e, d>>].checkOut] # None
    <3>1. Closed(logs[<<e, d>>]) => logs[<<e, d>>].checkOut \in Time
      BY <2>0, RowType DEF LogRow, Closed
    <3>2. \A t \in Time : [employee |-> e, timestamp |-> t] # None
      BY NoneAssumption DEF PunchRow
    <3>3. QED
      BY <3>1, <3>2
  <2>1. CASE UNCHANGED <<punches, logs>>
    BY <2>0, <2>1 DEF ClosedByAnother, Closed
  <2>2. ASSUME NEW c \in Calls, InsertPunch(c)
        PROVE  ClosedByAnother(e, d)'
    <3>1. punches[c] = None /\ logs' = logs
      BY <2>0, <2>2 DEF InsertPunch, PunchOfCall
    <3>2. \A b \in Calls \ {c} : punches'[b] = punches[b]
      BY <2>0, <2>2 DEF InsertPunch, TypeOK, PunchTable
    <3>3. QED
      BY <2>0, <2>a, <3>1, <3>2 DEF ClosedByAnother, Closed
  <2>3. ASSUME NEW c \in Calls, CreateLog(c)
        PROVE  ClosedByAnother(e, d)'
    <3>1. logs'[<<e, d>>] = logs[<<e, d>>] \/ logs'[<<e, d>>].checkOut = None
      BY <2>0, <2>3 DEF CreateLog, LogAccepted, NewLog, TypeOK, LogTable
    <3>2. CASE logs'[<<e, d>>] = logs[<<e, d>>]
      BY <2>0, <2>3, <3>2 DEF CreateLog, LogAccepted, NewLog, ClosedByAnother, Closed
    <3>3. CASE logs'[<<e, d>>].checkOut = None
      BY <3>3 DEF ClosedByAnother, Closed
    <3>4. QED
      BY <3>1, <3>2, <3>3
  <2>4. ASSUME NEW c \in Calls, UpdateLog(c)
        PROVE  ClosedByAnother(e, d)'
    <3>1. CASE logs[Key(c)] # None /\ <<e, d>> = Key(c)
      <4>1. logs'[<<e, d>>] = ClosedLog(c) /\ logs[Key(c)] \in LogRow
        BY <1>2, <2>4, <3>1, UpdateWritesRow DEF AttendanceInv, TypeInv, TypeOK, LogTable
      <4>2. /\ ClosedLog(c).checkIn = local[c].existing.checkIn
            /\ ClosedLog(c).punchId # c
            /\ ClosedLog(c).checkOut = local[c].now
            /\ ClosedLog(c).totalHours =
                   TotalHours(local[c].now - local[c].existing.checkIn)
        BY <1>2, <2>4, <3>1, <4>1, UpdateCloses DEF ClosedLog, LogRow
      <4>3. punches'[c] = [employee |-> e, timestamp |-> local[c].now]
        BY <1>2, <2>4, <3>1, UpdateCloses DEF UpdateLog, Key
      <4>4. QED
        BY <4>1, <4>2, <4>3 DEF ClosedByAnother
    <3>2. CASE logs[Key(c)] # None /\ <<e, d>> # Key(c)
      <4>1. logs'[<<e, d>>] = logs[<<e, d>>]
        BY <1>2, <2>4, <3>2, UpdateWritesRow DEF AttendanceInv, TypeInv, TypeOK, LogTable
      <4>2. QED
        BY <2>0, <2>4, <4>1 DEF UpdateLog, ClosedByAnother, Closed
    <3>3. CASE logs[Key(c)] = None
      BY <2>1, <2>4, <3>3 DEF UpdateLog
    <3>4. QED
      BY <3>1, <3>2, <3>3
  <2>5. ASSUME NEW x \in Employees, DeleteEmployee(x)
        PROVE  ClosedByAnother(e, d)'
    <3>1. CASE e = x
      BY <2>5, <3>1 DEF DeleteEmployee, LogsWithout, ClosedByAnother, Closed
    <3>2. CASE e # x
      <4>1. logs'[<<e, d>>] = logs[<<e, d>>]
        BY <2>5, <3>2 DEF DeleteEmployee, LogsWithout
      <4>2. \A b \in Calls : punches[b] # None /\ punches[b].employee = e => punches'[b] = punches[b]
        BY <2>5, <3>2 DEF DeleteEmployee, LogsWithout
      <4>3. QED
        BY <2>0, <2>a, <4>1, <4>2 DEF ClosedByAnother, Closed
    <3>3. QED
      BY <3>1, <3>2
  <2>6. QED
    BY <1>2, <2>1, <2>2, <2>3, <2>4, <2>5
       DEF Next, CallStep, Arrive, TakeDay, FindLog, Lose, Tick, tables, vars
<1>3. QED
  BY <1>1, <1>2, AttendanceInvariant, PTL DEF Spec

-----------------------------------------------------------------------------

\* What a step does to one day.
LEMMA DayStep ==
  ASSUME AttendanceInv, [Next]_vars, NEW k \in Employees \X Days
  PROVE  DayAdvances(k)
<1> SUFFICES ASSUME logs[k] # None
             PROVE  IF k[1] \in employees'
                    THEN /\ logs'[k] # None
                         /\ logs'[k].checkIn = logs[k].checkIn
                         /\ logs'[k].punchId = logs[k].punchId
                         /\ Closed(logs[k]) => Closed(logs'[k])
                    ELSE logs'[k] = None
  BY DEF DayAdvances
<1>0. TypeOK /\ k[1] \in employees
  <2>1. PICK e \in Employees, d \in Days : k = <<e, d>>
    OBVIOUS
  <2>2. QED
    BY <2>1 DEF AttendanceInv, TypeInv, RowWellFounded
<1>1. CASE employees' = employees /\ logs' = logs
  BY <1>0, <1>1
<1>2. ASSUME NEW c \in Calls, CreateLog(c)
      PROVE  employees' = employees /\ logs'[k] = logs[k]
  BY <1>0, <1>2 DEF CreateLog, LogAccepted, NewLog, TypeOK, LogTable
<1>3. ASSUME NEW c \in Calls, UpdateLog(c)
      PROVE  /\ employees' = employees
             /\ logs'[k] # None
             /\ logs'[k].checkIn = logs[k].checkIn
             /\ logs'[k].punchId = logs[k].punchId
             /\ Closed(logs[k]) => Closed(logs'[k])
  <2>1. CASE logs[Key(c)] # None
    <3>1. /\ Key(c) \in Employees \X Days
          /\ logs[Key(c)] \in LogRow
          /\ ClosedLog(c) \in LogRow
          /\ logs' = [logs EXCEPT ![Key(c)] = ClosedLog(c)]
      BY <1>3, <2>1, UpdateWritesRow DEF AttendanceInv
    <3>2. CASE k = Key(c)
      <4>1. logs'[k] = ClosedLog(c)
        BY <1>0, <3>1, <3>2 DEF TypeOK, LogTable
      <4>2. ClosedLog(c).checkOut = local[c].now /\ local[c].now # None
        BY <1>0, <3>1, NoneAssumption DEF ClosedLog, LogRow, TypeOK, Locals
      <4>3. QED
        BY <1>3, <3>1, <3>2, <4>1, <4>2, NoneAssumption DEF UpdateLog, ClosedLog, LogRow, Closed
    <3>3. CASE k # Key(c)
      BY <1>0, <1>3, <3>1, <3>3 DEF UpdateLog, TypeOK, LogTable
    <3>4. QED
      BY <3>2, <3>3
  <2>2. CASE logs[Key(c)] = None
    BY <1>3, <2>2 DEF UpdateLog
  <2>3. QED
    BY <2>1, <2>2
<1>4. ASSUME NEW x \in Employees, DeleteEmployee(x)
      PROVE  /\ k[1] = x => k[1] \notin employees' /\ logs'[k] = None
             /\ k[1] # x => k[1] \in employees' /\ logs'[k] = logs[k]
  BY <1>0, <1>4 DEF DeleteEmployee, LogsWithout
<1>5. CASE \E c \in Calls : CreateLog(c) \/ UpdateLog(c)
  BY <1>0, <1>2, <1>3, <1>5
<1>6. CASE \E x \in Employees : DeleteEmployee(x)
  BY <1>4, <1>6
<1>7. CASE ~(\E c \in Calls : CreateLog(c) \/ UpdateLog(c)) /\ ~(\E x \in Employees : DeleteEmployee(x))
  <2>1. employees' = employees /\ logs' = logs
    BY <1>7
       DEF Next, CallStep, Arrive, InsertPunch, TakeDay, FindLog, Lose, Tick, tables, vars
  <2>2. QED
    BY <1>1, <2>1
<1>8. QED
  BY <1>5, <1>6, <1>7

\* A day's check-in and the punch that opened it are never rewritten, and a
\* check-out is never withdrawn, while the employee is there.
THEOREM DayNeverRewritten == Spec => DayOnlyAdvances
<1>1. AttendanceInv /\ [Next]_vars => [\A k \in Employees \X Days : DayAdvances(k)]_vars
  BY DayStep
<1>2. QED
  BY <1>1, AttendanceInvariant, PTL DEF Spec, DayOnlyAdvances

\* The names of the ledger that stand for the same thing here.
LEMMA LedgerNames ==
  /\ Ledger!Time = Time
  /\ Ledger!Days = Days
  /\ \A n : Ledger!TotalHours(n) = TotalHours(n)
BY DEF Ledger!Time, Ledger!Days, Ledger!DayOf, Ledger!UtcDate,
       Ledger!LocalMidnight, Ledger!TotalHours, Time, Days, DayOf, UtcDate, LocalMidnight, TotalHours

\* Every step of the handler is a step of the ledger, or leaves it alone.
THEOREM LedgerImplemented == Spec => ImplementsLedger
<1>1. Init => Ledger!LedgerInit
  BY LedgerNames DEF Init, Ledger!LedgerInit
<1>2. ASSUME AttendanceInv, [Next]_vars
      PROVE  [Ledger!LedgerNext]_(Ledger!ledgerVars)
  <2>0. TypeOK /\ \A c \in Calls : CallOK(c) /\ PunchOfCall(c)
    BY <1>2 DEF AttendanceInv, TypeInv
  <2>1. ASSUME NEW c \in Calls, InsertPunch(c)
        PROVE  \/ Ledger!RecordPunch(c, local[c].employee, local[c].now)
               \/ UNCHANGED <<punches, logs>>
    BY <2>0, <2>1 DEF InsertPunch, PunchOfCall, Ledger!RecordPunch
  <2>2. ASSUME NEW c \in Calls, CreateLog(c)
        PROVE  \/ Ledger!OpenDay(c, local[c].employee, local[c].today)
               \/ UNCHANGED <<punches, logs>>
    <3>1. CASE LogAccepted(c)
      <4>1. punches[c] = [employee |-> local[c].employee, timestamp |-> local[c].now]
        BY <2>0, <2>2, <3>1 DEF CreateLog, LogAccepted, NewLog, PunchOfCall, Punched
      <4>2. punches[c] # None
        BY <2>0, <2>2, <4>1, NoneAssumption DEF CreateLog, LogAccepted, NewLog, TypeOK, Locals, PunchRow
      <4>3. QED
        BY <2>2, <3>1, <4>1, <4>2 DEF CreateLog, LogAccepted, NewLog, Key, Ledger!OpenDay
    <3>2. CASE ~LogAccepted(c)
      BY <2>2, <3>2 DEF CreateLog, LogAccepted, NewLog
    <3>3. QED
      BY <3>1, <3>2
  <2>3. ASSUME NEW c \in Calls, UpdateLog(c)
        PROVE  \/ Ledger!CloseDay(c, local[c].employee, local[c].today)
               \/ UNCHANGED <<punches, logs>>
    <3>1. CASE logs[Key(c)] # None
      <4>1. /\ logs[Key(c)].checkIn = local[c].existing.checkIn
            /\ logs[Key(c)].punchId # c
            /\ punches[c] = [employee |-> local[c].employee, timestamp |-> local[c].now]
            /\ local[c].employee \in Employees
        BY <1>2, <2>3, <3>1, UpdateCloses
      <4>2. punches[c] # None
        BY <2>0, <4>1, NoneAssumption DEF TypeOK, Locals, PunchRow
      <4>3. \A n : Ledger!TotalHours(n) = TotalHours(n)
        BY DEF Ledger!TotalHours, TotalHours
      <4>4. ClosedLog(c) =
                [logs[Key(c)] EXCEPT
                    !.checkOut = punches[c].timestamp,
                    !.totalHours =
                        Ledger!TotalHours(punches[c].timestamp - logs[Key(c)].checkIn)]
        <5>1. punches[c].timestamp = local[c].now
          BY <4>1
        <5>2. QED
          BY <4>1, <4>3, <5>1 DEF ClosedLog
      <4>5. QED
        BY <2>3, <3>1, <4>1, <4>2, <4>4 DEF UpdateLog, Key, Ledger!CloseDay
    <3>2. CASE logs[Key(c)] = None
      BY <2>3, <3>2 DEF UpdateLog
    <3>3. QED
      BY <3>1, <3>2
  <2>4. ASSUME NEW x \in Employees, DeleteEmployee(x)
        PROVE  Ledger!ForgetEmployee(x)
    BY <2>4, LedgerNames DEF DeleteEmployee, LogsWithout, Ledger!ForgetEmployee
  <2>5. ASSUME NEW c \in Calls
        PROVE  /\ local[c].employee \in Employees \cup {None}
               /\ local[c].now \in Ledger!Time
               /\ local[c].today \in Ledger!Days
               /\ pc[c] \in Punched => local[c].employee \in Employees
    BY <2>0, <2>5, LedgerNames DEF TypeOK, Locals, CallOK
  <2>6. QED
    BY <1>2, <2>1, <2>2, <2>3, <2>4, <2>5
       DEF Next, CallStep, Arrive, TakeDay, FindLog, CreateLog, UpdateLog, Lose, Tick, tables, vars,
           Punched, Ledger!LedgerNext, Ledger!ledgerVars
<1>3. QED
  BY <1>1, <1>2, AttendanceInvariant, PTL DEF Spec, ImplementsLedger, Ledger!LedgerSpec

-----------------------------------------------------------------------------
(***************************************************************************)
(* What a call knew of the employee's days when it arrived, and what it    *)
(* has done for its own.                                                   *)
(***************************************************************************)

\* What was closed stays closed, and what was open has a check-in that came
\* before the call.
KnewDays(c) ==
    LET e == local[c].employee
    IN  (pc[c] # "idle" /\ e \in employees) =>
            \A d \in Days :
                /\ arrival[c][d] = "closed" => Closed(logs[<<e, d>>])
                /\ arrival[c][d] = "open" =>
                       /\ logs[<<e, d>>] # None
                       /\ logs[<<e, d>>].checkIn <= local[c].now

ReadTimes(c) ==
    /\ pc[c] # "idle" => local[c].now <= clock
    /\ pc[c] \in {"findLog", "createLog", "updateLog"} =>
           WasDaySince(local[c].now, local[c].today)

FoundNotClosed(c) ==
    (pc[c] \in {"createLog", "updateLog"} /\ local[c].employee \in employees) =>
        arrival[c][local[c].today] # "closed"

HasItsDay(c) ==
    LET e == local[c].employee
    IN  (pc[c] \in {"answered", "failed"} /\ punches[c] # None /\ e \in employees) =>
            LET row == logs[Key(c)]
            IN  /\ row # None
                /\ pc[c] = "answered" => row.punchId = c \/ Closed(row)

CallInv(c) == KnewDays(c) /\ ReadTimes(c) /\ FoundNotClosed(c) /\ HasItsDay(c)

RowInv(e, d) ==
    logs[<<e, d>>] # None =>
        /\ logs[<<e, d>>].checkIn <= clock
        /\ WasDaySince(logs[<<e, d>>].checkIn, d)
        /\ Closed(logs[<<e, d>>]) => WasDaySince(logs[<<e, d>>].checkOut, d)

\* Employees go and do not come back; the days of those who stay advance.
LEMMA StayingDay ==
  ASSUME AttendanceInv, [Next]_vars, NEW e \in employees', NEW d \in Days
  PROVE  /\ e \in employees /\ e \in Employees
         /\ Closed(logs[<<e, d>>]) => Closed(logs'[<<e, d>>])
         /\ logs[<<e, d>>] # None =>
                /\ logs'[<<e, d>>] # None
                /\ logs'[<<e, d>>].checkIn = logs[<<e, d>>].checkIn
                /\ logs'[<<e, d>>].punchId = logs[<<e, d>>].punchId
<1>1. e \in employees
  BY DEF Next, CallStep, Arrive, InsertPunch, TakeDay, FindLog, CreateLog, UpdateLog, Lose, Tick,
         DeleteEmployee, tables, vars
<1>2. e \in Employees
  BY <1>1 DEF AttendanceInv, TypeInv, TypeOK
<1>3. DayAdvances(<<e, d>>)
  BY <1>2, DayStep
<1>4. QED
  BY <1>1, <1>2, <1>3 DEF DayAdvances, Closed

\* The clock stands or moves on.
LEMMA ClockMoves ==
  ASSUME AttendanceInv, [Next]_vars
  PROVE  clock \in Int /\ clock' \in Int /\ clock <= clock'
<1>1. clock \in 0..MaxClock /\ MaxClock \in Nat
  BY ClockAssumption DEF AttendanceInv, TypeInv, TypeOK, Time
<1>2. clock' = clock \/ clock' = clock + 1
  <2>1. CASE UNCHANGED vars
    BY <2>1 DEF vars
  <2>2. CASE Tick
    BY <2>2 DEF Tick
  <2>3. ASSUME NEW e \in Employees, DeleteEmployee(e)
        PROVE  clock' = clock
    BY <2>3 DEF DeleteEmployee
  <2>4. ASSUME NEW c \in Calls, CallStep(c)
        PROVE  clock' = clock
    BY <2>4 DEF CallStep, Arrive, InsertPunch, TakeDay, FindLog, CreateLog, UpdateLog, Lose
  <2>5. QED
    BY <2>1, <2>2, <2>3, <2>4 DEF Next
<1>3. QED
  BY <1>1, <1>2

\* What has been so since an instant remains so.
LEMMA StillSince ==
  ASSUME AttendanceInv, [Next]_vars, NEW t \in Int, NEW d \in Days, WasDaySince(t, d)
  PROVE  \E i \in t .. clock' : d = DayOf(i)
<1>1. clock <= clock' /\ clock \in Int /\ clock' \in Int
  BY ClockMoves
<1>2. PICK i \in t .. clock : d = DayOf(i)
  BY DEF WasDaySince
<1>3. i \in t .. clock'
  BY <1>1, <1>2
<1>4. QED
  BY <1>2, <1>3

\* A call that does not move keeps what it knew and did.
LEMMA CallInvKept ==
  ASSUME AttendanceInv, [Next]_vars, NEW c \in Calls, CallInv(c),
         pc'[c] = pc[c], local'[c] = local[c], arrival'[c] = arrival[c],
         (pc[c] \in {"answered", "failed"} /\ local[c].employee \in employees'
             /\ punches'[c] # None) => punches[c] # None
  PROVE  CallInv(c)'
<1>0. clock <= clock' /\ clock \in Int /\ clock' \in Int /\ local[c].now \in Int
      /\ local[c].today \in Days
  <2>1. local[c] \in Locals
    BY DEF AttendanceInv, TypeInv, TypeOK
  <2>2. local[c].now \in Time /\ local[c].today \in Days
    BY <2>1 DEF Locals
  <2>3. QED
    BY <2>2, ClockMoves, ClockAssumption DEF Time
<1>1. KnewDays(c)'
  BY StayingDay DEF CallInv, KnewDays
<1>2. ReadTimes(c)'
  BY <1>0 DEF CallInv, ReadTimes, WasDaySince
<1>3. FoundNotClosed(c)'
  <2>1. local[c].employee \in employees' => local[c].employee \in employees
    BY <1>0, StayingDay
  <2>2. QED
    BY <2>1 DEF CallInv, FoundNotClosed
<1>4. HasItsDay(c)'
  <2>1. SUFFICES ASSUME pc[c] \in {"answered", "failed"}, punches'[c] # None,
                        local[c].employee \in employees'
                 PROVE  /\ logs'[Key(c)] # None
                        /\ pc[c] = "answered" =>
                               logs'[Key(c)].punchId = c \/ Closed(logs'[Key(c)])
    BY DEF HasItsDay, Key
  <2>2. local[c].employee \in employees /\ punches[c] # None
    BY <1>0, <2>1, StayingDay
  <2>3. /\ logs[Key(c)] # None
        /\ pc[c] = "answered" => logs[Key(c)].punchId = c \/ Closed(logs[Key(c)])
    BY <2>1, <2>2 DEF CallInv, HasItsDay
  <2>4. QED
    BY <1>0, <2>1, <2>3, StayingDay DEF Key
<1>5. QED
  BY <1>1, <1>2, <1>3, <1>4 DEF CallInv

\* The call that moves, step by step.
LEMMA CallInvOwn ==
  ASSUME AttendanceInv, AttendanceInv', [Next]_vars, NEW c \in Calls, CallStep(c), CallInv(c),
         \A e \in Employees, d \in Days : RowInv(e, d)
  PROVE  CallInv(c)'
<1>0. /\ TypeOK /\ CallOK(c) /\ PunchOfCall(c) /\ RowOfCall(c)
      /\ clock \in Time /\ local[c].now \in Time /\ local[c].today \in Days
  BY DEF AttendanceInv, TypeInv, TypeOK, Locals
<1>1. ASSUME NEW x \in Employees \cup {None}, Arrive(c, x)
      PROVE  CallInv(c)'
  <2>1. /\ pc[c] = "idle" /\ pc'[c] \in {"insertPunch", "notFound"}
        /\ local'[c].employee = x /\ local'[c].now = clock
        /\ arrival'[c] = [d \in Days |-> IF x = None THEN "none" ELSE DayState(logs[<<x, d>>])]
        /\ UNCHANGED <<clock, tables>>
    BY <1>0, <1>1 DEF Arrive, Goto, TypeOK, Locals
  <2>2. KnewDays(c)'
    <3>1. SUFFICES ASSUME x \in employees, NEW d \in Days
                   PROVE  /\ arrival'[c][d] = "closed" => Closed(logs[<<x, d>>])
                          /\ arrival'[c][d] = "open" =>
                                 logs[<<x, d>>] # None /\ logs[<<x, d>>].checkIn <= clock
      BY <2>1 DEF KnewDays, tables
    <3>2. x \in Employees /\ x # None
      BY <1>0, <3>1, NoneAssumption DEF TypeOK
    <3>3. arrival'[c][d] = DayState(logs[<<x, d>>])
      BY <2>1, <3>2
    <3>4. RowInv(x, d)
      BY <3>2
    <3>5. QED
      BY <3>3, <3>4 DEF DayState, Closed, RowInv
  <2>3. ReadTimes(c)'
    BY <1>0, <2>1, ClockAssumption DEF ReadTimes, Time
  <2>4. QED
    BY <2>1, <2>2, <2>3 DEF CallInv, FoundNotClosed, HasItsDay
<1>2. CASE InsertPunch(c)
  <2>1. /\ pc[c] = "insertPunch" /\ pc'[c] \in {"answered", "takeDay", "failed"}
        /\ pc'[c] = "answered" => local[c].employee = None
        /\ pc'[c] = "failed" => punches' = punches
        /\ local' = local /\ arrival' = arrival /\ clock' = clock
        /\ employees' = employees /\ logs' = logs
    BY <1>0, <1>2 DEF InsertPunch, Goto, TypeOK
  <2>2. punches[c] = None /\ None \notin employees
    BY <1>0, <2>1, NoneAssumption DEF PunchOfCall, TypeOK
  <2>3. QED
    BY <2>1, <2>2 DEF CallInv, KnewDays, ReadTimes, FoundNotClosed, HasItsDay
<1>3. CASE TakeDay(c)
  <2>1. /\ pc[c] = "takeDay" /\ pc'[c] = "findLog"
        /\ local'[c].employee = local[c].employee /\ local'[c].now = local[c].now
        /\ local'[c].today = DayOf(clock)
        /\ UNCHANGED <<clock, tables, arrival>>
    BY <1>0, <1>3 DEF TakeDay, Goto, Today, TypeOK, Locals
  <2>2. WasDaySince(local[c].now, DayOf(clock))
    BY <1>0, <2>1, ClockAssumption DEF CallInv, ReadTimes, WasDaySince, Time
  <2>3. QED
    BY <2>1, <2>2 DEF CallInv, KnewDays, ReadTimes, WasDaySince, FoundNotClosed, HasItsDay, tables
<1>4. CASE FindLog(c)
  <2>1. /\ pc[c] = "findLog" /\ pc'[c] = Branch(logs[Key(c)])
        /\ local'[c].employee = local[c].employee /\ local'[c].now = local[c].now
        /\ local'[c].today = local[c].today
        /\ UNCHANGED <<clock, tables, arrival>>
    BY <1>0, <1>4 DEF FindLog, Goto, TypeOK, Locals
  <2>2. Key(c)' = Key(c)
    BY <2>1 DEF Key
  <2>3. /\ pc'[c] \in {"createLog", "updateLog"} => ~Closed(logs[Key(c)])
        /\ pc'[c] \notin {"createLog", "updateLog"} => pc'[c] = "answered" /\ Closed(logs[Key(c)])
    BY <2>1 DEF Branch, Open, Closed
  <2>4. KnewDays(c)' /\ ReadTimes(c)'
    BY <2>1, <2>3 DEF CallInv, KnewDays, ReadTimes, WasDaySince, tables
  <2>5. FoundNotClosed(c)'
    BY <1>0, <2>1, <2>3 DEF CallInv, KnewDays, FoundNotClosed, Key, tables
  <2>6. HasItsDay(c)'
    BY <2>1, <2>2, <2>3 DEF HasItsDay, Closed, tables
  <2>7. QED
    BY <2>4, <2>5, <2>6 DEF CallInv
<1>5. ASSUME CreateLog(c) \/ UpdateLog(c) \/ Lose(c)
      PROVE  CallInv(c)'
  <2>1. /\ pc[c] \in InFlight /\ pc'[c] \in {"answered", "failed", "lost"}
        /\ UNCHANGED <<clock, employees, punches, local, arrival>>
    BY <1>0, <1>5 DEF CreateLog, UpdateLog, Lose, Goto, TypeOK, InFlight, tables
  <2>2. KnewDays(c)'
    BY <2>1, StayingDay DEF CallInv, KnewDays, InFlight
  <2>3. ReadTimes(c)' /\ FoundNotClosed(c)'
    BY <2>1 DEF CallInv, ReadTimes, FoundNotClosed, InFlight
  <2>4. HasItsDay(c)'
    <3>1. CASE Lose(c)
      <4>1. pc'[c] = "lost"
        BY <1>0, <3>1 DEF Lose, Goto, TypeOK
      <4>2. QED
        BY <4>1 DEF HasItsDay
    <3>2. SUFFICES ASSUME CreateLog(c) \/ UpdateLog(c), local[c].employee \in employees
                   PROVE  /\ logs'[Key(c)] # None
                          /\ pc'[c] = "answered" =>
                                 logs'[Key(c)].punchId = c \/ Closed(logs'[Key(c)])
      BY <1>5, <2>1, <3>1 DEF HasItsDay, Key
    <3>3. Key(c) \in Employees \X Days /\ local[c].now # None
      BY <1>0, <3>2, NoneAssumption DEF Key, TypeOK
    <3>4. CASE CreateLog(c)
      <4>1. CASE LogAccepted(c)
        <5>1. logs'[Key(c)] = NewLog(c)
          BY <1>0, <3>3, <3>4, <4>1 DEF CreateLog, TypeOK, LogTable
        <5>2. NewLog(c) \in LogRow /\ NewLog(c).punchId = c
          BY <1>0 DEF NewLog, LogRow
        <5>3. QED
          BY <5>1, <5>2, NoneAssumption
      <4>2. CASE ~LogAccepted(c)
        <5>1. logs' = logs /\ pc'[c] = "failed" /\ logs[Key(c)] # None
          BY <1>0, <3>2, <3>4, <4>2 DEF CreateLog, LogAccepted, Goto, TypeOK
        <5>2. QED
          BY <5>1
      <4>3. QED
        BY <4>1, <4>2
    <3>5. CASE UpdateLog(c)
      <4>1. logs[Key(c)] # None
        BY <1>0, <3>2, <3>5 DEF UpdateLog, RowOfCall
      <4>2. /\ logs' = [logs EXCEPT ![Key(c)] = ClosedLog(c)]
            /\ ClosedLog(c) \in LogRow /\ logs[Key(c)] \in LogRow
        BY <3>5, <4>1, UpdateWritesRow DEF AttendanceInv
      <4>3. logs'[Key(c)] = ClosedLog(c)
        BY <1>0, <3>3, <4>2 DEF TypeOK, LogTable
      <4>4. ClosedLog(c).checkOut = local[c].now /\ ClosedLog(c) # None
        BY <4>2, NoneAssumption DEF ClosedLog, LogRow
      <4>5. QED
        BY <3>3, <4>3, <4>4 DEF Closed
    <3>6. QED
      BY <3>2, <3>4, <3>5
  <2>5. QED
    BY <2>2, <2>3, <2>4 DEF CallInv
<1>6. QED
  BY <1>1, <1>2, <1>3, <1>4, <1>5 DEF CallStep

\* What is recorded was so when the clock was read for it.
LEMMA RowInvStep ==
  ASSUME AttendanceInv, AttendanceInv', [Next]_vars, \A c \in Calls : CallInv(c),
         NEW e \in Employees, NEW d \in Days, RowInv(e, d)
  PROVE  RowInv(e, d)'
<1>0. TypeOK /\ TypeOK'
  BY DEF AttendanceInv, TypeInv
<1> DEFINE Since(t) == \E i \in t .. clock' : d = DayOf(i)
<1>1. clock <= clock' /\ clock \in Int /\ clock' \in Int
  BY ClockMoves
<1>2. SUFFICES ASSUME logs'[<<e, d>>] # None
               PROVE  /\ logs'[<<e, d>>].checkIn <= clock'
                      /\ Since(logs'[<<e, d>>].checkIn)
                      /\ Closed(logs'[<<e, d>>]) => Since(logs'[<<e, d>>].checkOut)
  BY DEF RowInv, WasDaySince
<1>3. e \in employees'
  BY <1>2 DEF AttendanceInv, RowWellFounded
<1>4. ASSUME NEW c \in Calls, pc[c] \in {"createLog", "updateLog"}, local[c].today = d
      PROVE  local[c].now <= clock' /\ Since(local[c].now)
  <2>1. local[c].now \in Int
    BY <1>0, ClockAssumption DEF TypeOK, Locals, Time
  <2>2. CallInv(c)
    OBVIOUS
  <2>3. local[c].now <= clock /\ WasDaySince(local[c].now, d)
    BY <1>4, <2>2 DEF CallInv, ReadTimes
  <2>4. QED
    BY <1>1, <2>1, <2>3, StillSince
<1>5. CASE logs'[<<e, d>>] = logs[<<e, d>>]
  <2>1. logs[<<e, d>>] \in LogRow
    BY <1>0, <1>2, <1>5, RowType
  <2>2. logs[<<e, d>>].checkIn \in Int
    BY <2>1, ClockAssumption DEF LogRow, Time
  <2>3. Closed(logs[<<e, d>>]) => logs[<<e, d>>].checkOut \in Int
    BY <2>1, ClockAssumption DEF LogRow, Time, Closed
  <2>4. QED
    BY <1>1, <1>2, <1>5, <2>2, <2>3, StillSince DEF RowInv
<1>6. CASE logs'[<<e, d>>] # logs[<<e, d>>]
  <2>1. PICK c \in Calls : CreateLog(c) \/ UpdateLog(c)
    BY <1>2, <1>6
       DEF Next, CallStep, Arrive, InsertPunch, TakeDay, FindLog, Lose, Tick, DeleteEmployee,
           LogsWithout, tables, vars
  <2>2. CASE UpdateLog(c)
    <3>1. logs[Key(c)] # None /\ pc[c] = "updateLog"
      BY <1>6, <2>2 DEF UpdateLog
    <3>2. /\ logs' = [logs EXCEPT ![Key(c)] = ClosedLog(c)]
          /\ Key(c) \in Employees \X Days /\ logs[Key(c)] \in LogRow
      BY <2>2, <3>1, UpdateWritesRow DEF AttendanceInv
    <3>3. Key(c) = <<e, d>> /\ logs'[<<e, d>>] = ClosedLog(c)
      BY <1>0, <1>6, <3>2 DEF TypeOK, LogTable
    <3>4. local[c].today = d
      BY <3>3 DEF Key
    <3>5. /\ ClosedLog(c).checkIn = logs[<<e, d>>].checkIn
          /\ ClosedLog(c).checkOut = local[c].now
      BY <3>2, <3>3 DEF ClosedLog, LogRow
    <3>6. /\ logs[<<e, d>>].checkIn <= clock
          /\ WasDaySince(logs[<<e, d>>].checkIn, d)
          /\ logs[<<e, d>>].checkIn \in Int
      BY <3>1, <3>2, <3>3, ClockAssumption DEF RowInv, LogRow, Time
    <3>7. logs[<<e, d>>].checkIn <= clock' /\ Since(logs[<<e, d>>].checkIn)
      BY <1>1, <3>6, StillSince
    <3>8. Since(local[c].now)
      BY <1>4, <3>1, <3>4
    <3>9. QED
      BY <3>3, <3>5, <3>7, <3>8
  <2>3. CASE CreateLog(c)
    <3>1. /\ logs' = [logs EXCEPT ![Key(c)] = NewLog(c)]
          /\ pc[c] = "createLog"
      BY <1>6, <2>3 DEF CreateLog
    <3>2. Key(c) = <<e, d>> /\ logs'[<<e, d>>] = NewLog(c)
      BY <1>0, <1>6, <3>1 DEF TypeOK, LogTable
    <3>3. /\ local[c].today = d
          /\ NewLog(c).checkIn = local[c].now /\ NewLog(c).checkOut = None
      BY <3>2 DEF Key, NewLog
    <3>4. ~Closed(NewLog(c))
      BY <3>3 DEF Closed
    <3>5. QED
      BY <1>4, <3>1, <3>2, <3>3, <3>4
  <2>4. QED
    BY <2>1, <2>2, <2>3
<1>7. QED
  BY <1>5, <1>6

DaysInv ==
    /\ AttendanceInv
    /\ \A c \in Calls : CallInv(c)
    /\ \A e \in Employees, d \in Days : RowInv(e, d)

LEMMA DaysStep ==
  ASSUME DaysInv, AttendanceInv', [Next]_vars
  PROVE  DaysInv'
<1>1. ASSUME NEW e \in Employees, NEW d \in Days
      PROVE  RowInv(e, d)'
  BY <1>1, RowInvStep DEF DaysInv
<1>2. ASSUME NEW c \in Calls
      PROVE  CallInv(c)'
  <2>0. TypeOK
    BY DEF DaysInv, AttendanceInv, TypeInv
  <2>1. CASE CallStep(c)
    BY <1>2, <2>1, CallInvOwn DEF DaysInv
  <2>2. CASE ~CallStep(c)
    <3>1. /\ pc'[c] = pc[c] /\ local'[c] = local[c] /\ arrival'[c] = arrival[c]
          /\ punches'[c] # None => punches[c] # None
      <4>1. CASE \E b \in Calls \ {c} : CallStep(b)
        <5>1. PICK b \in Calls \ {c} : CallStep(b)
          BY <4>1
        <5>2. QED
          BY <2>0, <5>1
             DEF CallStep, Arrive, InsertPunch, TakeDay, FindLog, CreateLog, UpdateLog, Lose, Goto,
                 tables, TypeOK, PunchTable
      <4>2. CASE (\E x \in Employees : DeleteEmployee(x)) \/ Tick \/ UNCHANGED vars
        BY <4>2 DEF DeleteEmployee, Tick, vars, tables
      <4>3. QED
        BY <2>2, <4>1, <4>2 DEF Next
    <3>2. QED
      BY <3>1, CallInvKept DEF DaysInv
  <2>3. QED
    BY <2>1, <2>2
<1>3. QED
  BY <1>1, <1>2 DEF DaysInv

LEMMA DaysInvariant == Spec => []DaysInv
<1>1. Init /\ AttendanceInv => DaysInv
  BY DEF Init, DaysInv, CallInv, KnewDays, ReadTimes, FoundNotClosed, HasItsDay, RowInv
<1>2. DaysInv /\ AttendanceInv' /\ [Next]_vars => DaysInv'
  BY DaysStep
<1>3. QED
  BY <1>1, <1>2, AttendanceInvariant, PTL DEF Spec

\* A stored punch is not missing from its day, unless its call was lost.
THEOREM StoredPunchesCorrect == Spec => []StoredPunchHasItsDay
<1>1. DaysInv => StoredPunchHasItsDay
  BY DEF DaysInv, CallInv, HasItsDay, StoredPunchHasItsDay
<1>2. QED
  BY <1>1, DaysInvariant, PTL

\* A day that was closed when a call arrived is not written by it.
THEOREM ClosedDaysCorrect == Spec => []ClosedDayIsFinal
<1>1. DaysInv => ClosedDayIsFinal
  BY DEF DaysInv, CallInv, FoundNotClosed, ClosedDayIsFinal
<1>2. QED
  BY <1>1, DaysInvariant, PTL

\* Nothing is recorded under a day that was over when its punch was taken, or
\* that has not begun.
THEOREM DaysOfTheirPunches == Spec => []DayIsOfItsPunches
<1>1. DaysInv => DayIsOfItsPunches
  BY DEF DaysInv, RowInv, DayIsOfItsPunches
<1>2. QED
  BY <1>1, DaysInvariant, PTL

\* Calls that do not overlap record their times in order.
THEOREM SequentialCallsCorrect == Spec => SequentialPunchesInOrder
<1> DEFINE InOrder == \A c \in Calls :
           (/\ pc[c] = "updateLog"
            /\ pc'[c] = "answered"
            /\ arrival[c][local[c].today] = "open") =>
               logs'[Key(c)].checkIn <= logs'[Key(c)].checkOut
<1>1. ASSUME DaysInv, [Next]_vars
      PROVE  InOrder
  <2> SUFFICES ASSUME NEW c \in Calls, pc[c] = "updateLog", pc'[c] = "answered",
                      arrival[c][local[c].today] = "open"
               PROVE  logs'[Key(c)].checkIn <= logs'[Key(c)].checkOut
    OBVIOUS
  <2>0. TypeOK /\ AttendanceInv
    BY <1>1 DEF DaysInv, AttendanceInv, TypeInv
  <2>1. UpdateLog(c)
    BY <1>1, <2>0
       DEF Next, CallStep, Arrive, InsertPunch, TakeDay, FindLog, CreateLog, UpdateLog, Lose, Goto,
           DeleteEmployee, Tick, vars, TypeOK
  <2>2. logs[Key(c)] # None
    BY <2>0, <2>1 DEF UpdateLog, Goto, TypeOK
  <2>3. /\ logs' = [logs EXCEPT ![Key(c)] = ClosedLog(c)]
        /\ Key(c) \in Employees \X Days /\ logs[Key(c)] \in LogRow
    BY <2>0, <2>1, <2>2, UpdateWritesRow DEF AttendanceInv
  <2>4. local[c].employee \in employees /\ local[c].today \in Days
    BY <2>0, <2>1, <2>2, UpdateCloses
  <2>5. logs[Key(c)].checkIn <= local[c].now
    BY <1>1, <2>4 DEF DaysInv, CallInv, KnewDays, Key
  <2>6. logs'[Key(c)] = ClosedLog(c)
    BY <2>0, <2>3 DEF TypeOK, LogTable
  <2>7. ClosedLog(c).checkIn = logs[Key(c)].checkIn /\ ClosedLog(c).checkOut = local[c].now
    BY <2>3 DEF ClosedLog, LogRow
  <2>8. QED
    BY <2>5, <2>6, <2>7
<1>2. DaysInv /\ [Next]_vars => [InOrder]_vars
  BY <1>1
<1>3. QED
  BY <1>2, DaysInvariant, PTL DEF Spec, SequentialPunchesInOrder

-----------------------------------------------------------------------------
(***************************************************************************)
(* What the ledger promises on its own, and what its readers get.          *)
(***************************************************************************)

LedgerTyped == punches \in PunchTable /\ logs \in LogTable

\* The ledger's tables keep their type.
LEMMA LedgerTypeInvariant == Ledger!LedgerSpec => []LedgerTyped
<1>1. Ledger!LedgerInit => LedgerTyped
  BY LedgerNames DEF Ledger!LedgerInit, LedgerTyped, PunchTable, LogTable
<1>2. ASSUME LedgerTyped, [Ledger!LedgerNext]_(Ledger!ledgerVars)
      PROVE  LedgerTyped'
  <2>1. ASSUME NEW c \in Calls, NEW e \in Employees \cup {None}, NEW t \in Time,
               Ledger!RecordPunch(c, e, t)
        PROVE  LedgerTyped'
    BY <1>2, <2>1 DEF Ledger!RecordPunch, LedgerTyped, PunchTable, PunchRow
  <2>2. ASSUME NEW c \in Calls, NEW e \in Employees, NEW d \in Days, Ledger!OpenDay(c, e, d)
        PROVE  LedgerTyped'
    <3>1. punches[c].timestamp \in Time
      BY <1>2, <2>2 DEF Ledger!OpenDay, LedgerTyped, PunchTable, PunchRow
    <3>2. [checkIn |-> punches[c].timestamp, checkOut |-> None,
           totalHours |-> None, punchId |-> c] \in LogRow
      BY <3>1 DEF LogRow
    <3>3. QED
      BY <1>2, <2>2, <3>2 DEF Ledger!OpenDay, LedgerTyped, LogTable
  <2>3. ASSUME NEW c \in Calls, NEW e \in Employees, NEW d \in Days, Ledger!CloseDay(c, e, d)
        PROVE  LedgerTyped'
    <3>1. punches[c].timestamp \in Time
      BY <1>2, <2>3 DEF Ledger!CloseDay, LedgerTyped, PunchTable, PunchRow
    <3>2. logs[<<e, d>>] \in LogRow /\ logs[<<e, d>>].checkIn \in Time
      BY <1>2, <2>3 DEF Ledger!CloseDay, LedgerTyped, LogTable, LogRow
    <3>3. punches[c].timestamp - logs[<<e, d>>].checkIn \in -MaxClock .. MaxClock
      BY <3>1, <3>2, ClockAssumption DEF Time
    <3>4. TotalHours(punches[c].timestamp - logs[<<e, d>>].checkIn) \in Hours
      BY <3>3 DEF Hours
    <3>5. [logs[<<e, d>>] EXCEPT
               !.checkOut = punches[c].timestamp,
               !.totalHours = TotalHours(punches[c].timestamp - logs[<<e, d>>].checkIn)] \in LogRow
      BY <3>1, <3>2, <3>4 DEF LogRow
    <3>6. QED
      BY <1>2, <2>3, <3>5, LedgerNames DEF Ledger!CloseDay, LedgerTyped, LogTable
  <2>4. ASSUME NEW x \in Employees, Ledger!ForgetEmployee(x)
        PROVE  LedgerTyped'
    <3>1. punches' \in PunchTable
      BY <1>2, <2>4 DEF Ledger!ForgetEmployee, LedgerTyped, PunchTable, PunchRow
    <3>2. logs' \in LogTable
      BY <1>2, <2>4, LedgerNames DEF Ledger!ForgetEmployee, LedgerTyped, LogTable
    <3>3. QED
      BY <3>1, <3>2 DEF LedgerTyped
  <2>5. CASE UNCHANGED Ledger!ledgerVars
    BY <1>2, <2>5 DEF Ledger!ledgerVars, LedgerTyped
  <2>6. QED
    BY <1>2, <2>1, <2>2, <2>3, <2>4, <2>5, LedgerNames DEF Ledger!LedgerNext
<1>3. QED
  BY <1>1, <1>2, PTL DEF Ledger!LedgerSpec

\* One day's part of CheckInIsItsPunch.
OpenedByItsPunch(e, d) ==
    logs[<<e, d>>] # None =>
        punches[logs[<<e, d>>].punchId] = [employee |-> e, timestamp |-> logs[<<e, d>>].checkIn]

\* The ledger is all a reader needs to know: whatever keeps to its four steps
\* keeps every check-in and every check-out on a punch of that employee, and
\* the hours between the two. The handler does, so the two invariants proved of
\* it above hold again by refinement.
THEOREM LedgerKeepsPromises == Ledger!LedgerSpec => [](CheckInIsItsPunch /\ CheckOutIsAnotherPunch)
<1> DEFINE Kept(e, d) == OpenedByItsPunch(e, d) /\ ClosedByAnother(e, d)
           Promise == \A e \in Employees, d \in Days : Kept(e, d)
<1>1. Ledger!LedgerInit => Promise
  BY LedgerNames DEF Ledger!LedgerInit, OpenedByItsPunch, ClosedByAnother, Closed
<1>2. ASSUME LedgerTyped, Promise, [Ledger!LedgerNext]_(Ledger!ledgerVars)
      PROVE  Promise'
  <2> SUFFICES ASSUME NEW e \in Employees, NEW d \in Days
               PROVE  Kept(e, d)'
    OBVIOUS
  <2>0. /\ Kept(e, d)
        /\ logs[<<e, d>>] # None =>
               /\ logs[<<e, d>>] \in LogRow
               /\ logs[<<e, d>>].punchId \in Calls
               /\ [employee |-> e, timestamp |-> logs[<<e, d>>].checkIn] # None
        /\ Closed(logs[<<e, d>>]) =>
               [employee |-> e, timestamp |-> logs[<<e, d>>].checkOut] # None
    <3>1. logs[<<e, d>>] # None => logs[<<e, d>>] \in LogRow
      BY <1>2 DEF LedgerTyped, LogTable
    <3>2. \A t \in Time : [employee |-> e, timestamp |-> t] # None
      BY NoneAssumption DEF PunchRow
    <3>3. QED
      BY <1>2, <3>1, <3>2 DEF LogRow, Closed
  <2>1. ASSUME NEW c \in Calls, NEW x \in Employees \cup {None}, NEW t \in Time,
               Ledger!RecordPunch(c, x, t)
        PROVE  Kept(e, d)'
    <3>1. punches[c] = None /\ logs' = logs /\ \A b \in Calls \ {c} : punches'[b] = punches[b]
      BY <1>2, <2>1 DEF Ledger!RecordPunch, LedgerTyped, PunchTable
    <3>2. QED
      BY <2>0, <3>1 DEF OpenedByItsPunch, ClosedByAnother, Closed
  <2>2. ASSUME NEW c \in Calls, NEW x \in Employees, NEW y \in Days, Ledger!OpenDay(c, x, y)
        PROVE  Kept(e, d)'
    <3>1. CASE <<x, y>> = <<e, d>>
      <4> DEFINE row == [checkIn |-> punches[c].timestamp, checkOut |-> None,
                         totalHours |-> None, punchId |-> c]
      <4>1. x = e /\ y = d /\ logs'[<<e, d>>] = row /\ punches' = punches
        BY <1>2, <2>2, <3>1 DEF Ledger!OpenDay, LedgerTyped, LogTable
      <4>2. punches[c] = [employee |-> e, timestamp |-> punches[c].timestamp]
        BY <1>2, <2>2, <4>1 DEF Ledger!OpenDay, LedgerTyped, PunchTable, PunchRow
      <4>3. row.punchId = c /\ row.checkIn = punches[c].timestamp /\ row.checkOut = None
        OBVIOUS
      <4> HIDE DEF row
      <4>4. QED
        BY <4>1, <4>2, <4>3 DEF OpenedByItsPunch, ClosedByAnother, Closed
    <3>2. CASE <<x, y>> # <<e, d>>
      <4>1. logs'[<<e, d>>] = logs[<<e, d>>] /\ punches' = punches
        BY <1>2, <2>2, <3>2 DEF Ledger!OpenDay, LedgerTyped, LogTable
      <4>2. QED
        BY <2>0, <4>1 DEF OpenedByItsPunch, ClosedByAnother, Closed
    <3>3. QED
      BY <3>1, <3>2
  <2>3. ASSUME NEW c \in Calls, NEW x \in Employees, NEW y \in Days, Ledger!CloseDay(c, x, y)
        PROVE  Kept(e, d)'
    <3>1. CASE <<x, y>> = <<e, d>>
      <4> DEFINE hours == TotalHours(punches[c].timestamp - logs[<<e, d>>].checkIn)
                 row == [logs[<<e, d>>] EXCEPT !.checkOut = punches[c].timestamp,
                                               !.totalHours = hours]
      <4>1. /\ x = e /\ y = d /\ logs[<<e, d>>] # None
            /\ logs'[<<e, d>>] = row /\ punches' = punches
            /\ logs[<<e, d>>].punchId # c
        BY <1>2, <2>3, <3>1, LedgerNames DEF Ledger!CloseDay, LedgerTyped, LogTable
      <4>2. punches[c] = [employee |-> e, timestamp |-> punches[c].timestamp]
        BY <1>2, <2>3, <4>1 DEF Ledger!CloseDay, LedgerTyped, PunchTable, PunchRow
      <4>3. /\ row.punchId = logs[<<e, d>>].punchId /\ row.checkIn = logs[<<e, d>>].checkIn
            /\ row.checkOut = punches[c].timestamp /\ row.totalHours = hours
        BY <2>0, <4>1 DEF LogRow
      <4>4. hours = TotalHours(row.checkOut - row.checkIn)
        BY <4>3
      <4> HIDE DEF row, hours
      <4>5. QED
        BY <2>0, <4>1, <4>2, <4>3, <4>4 DEF OpenedByItsPunch, ClosedByAnother
    <3>2. CASE <<x, y>> # <<e, d>>
      <4>1. logs'[<<e, d>>] = logs[<<e, d>>] /\ punches' = punches
        BY <1>2, <2>3, <3>2 DEF Ledger!CloseDay, LedgerTyped, LogTable
      <4>2. QED
        BY <2>0, <4>1 DEF OpenedByItsPunch, ClosedByAnother, Closed
    <3>3. QED
      BY <3>1, <3>2
  <2>4. ASSUME NEW x \in Employees, Ledger!ForgetEmployee(x)
        PROVE  Kept(e, d)'
    <3>1. logs'[<<e, d>>] = IF e = x THEN None ELSE logs[<<e, d>>]
      BY <2>4, LedgerNames DEF Ledger!ForgetEmployee
    <3>2. CASE e = x
      BY <3>1, <3>2 DEF OpenedByItsPunch, ClosedByAnother, Closed
    <3>3. CASE e # x
      <4>1. logs'[<<e, d>>] = logs[<<e, d>>]
        BY <3>1, <3>3
      <4>2. \A b \in Calls : punches[b] # None /\ punches[b].employee = e => punches'[b] = punches[b]
        BY <2>4, <3>3 DEF Ledger!ForgetEmployee
      <4>3. QED
        BY <2>0, <4>1, <4>2 DEF OpenedByItsPunch, ClosedByAnother, Closed
    <3>4. QED
      BY <3>2, <3>3
  <2>5. CASE UNCHANGED Ledger!ledgerVars
    BY <2>0, <2>5 DEF Ledger!ledgerVars, OpenedByItsPunch, ClosedByAnother, Closed
  <2>6. QED
    BY <1>2, <2>1, <2>2, <2>3, <2>4, <2>5, LedgerNames DEF Ledger!LedgerNext
<1>3. Promise => CheckInIsItsPunch /\ CheckOutIsAnotherPunch
  BY DEF OpenedByItsPunch, ClosedByAnother, CheckInIsItsPunch, CheckOutIsAnotherPunch
<1>4. QED
  BY <1>1, <1>2, <1>3, LedgerTypeInvariant, PTL DEF Ledger!LedgerSpec

\* Rounding a duration to hundredths of an hour moves it by half of one at most,
\* whichever its sign.
LEMMA RoundedToNearest ==
  ASSUME NEW diff \in Int
  PROVE  /\ 2 * (HundredthHour * TotalHours(diff)) - 2 * diff <= HundredthHour
         /\ 2 * diff - 2 * (HundredthHour * TotalHours(diff)) <= HundredthHour
<1> DEFINE H == HundredthHour
           Round(d) == (2 * d + H) \div (2 * H)
<1>1. H \in Nat \ {0}
  BY ClockAssumption
<1>2. ASSUME NEW d \in Int
      PROVE  /\ Round(d) \in Int
             /\ 2 * (H * Round(d)) - 2 * d <= H
             /\ 2 * d - 2 * (H * Round(d)) <= H
  <2> DEFINE n == 2 * d + H
             m == 2 * H
             q == n \div m
  <2>1. n \in Int /\ m \in Int /\ m > 0
    BY <1>1
  <2>2. q \in Int /\ m * q <= n /\ n < m * (q + 1)
    <3> HIDE DEF n, m
    <3>1. QED
      BY <2>1
  <2>3. m * q = 2 * (H * q) /\ m * (q + 1) = 2 * (H * q) + 2 * H /\ H * q \in Int
    <3> HIDE DEF q
    <3>1. QED
      BY <1>1, <2>2
  <2> HIDE DEF q, H
  <2>4. QED
    BY <1>1, <2>2, <2>3 DEF q
<1>3. CASE diff >= 0
  <2>1. TotalHours(diff) = Round(diff)
    BY <1>3 DEF TotalHours
  <2>2. QED
    BY <1>2, <2>1
<1>4. CASE ~(diff >= 0)
  <2>1. -diff \in Int /\ TotalHours(diff) = -Round(-diff)
    BY <1>4 DEF TotalHours
  <2> DEFINE q == Round(-diff)
  <2>2. /\ q \in Int
        /\ 2 * (H * q) - 2 * (-diff) <= H
        /\ 2 * (-diff) - 2 * (H * q) <= H
    BY <1>2, <2>1
  <2> HIDE DEF q, Round
  <2>3. H * (-q) = -(H * q) /\ H * q \in Int
    BY <1>1, <2>2
  <2>4. QED
    BY <1>1, <2>1, <2>2, <2>3 DEF q
<1>5. QED
  BY <1>3, <1>4

\* One closed day of CheckOutIsAnotherPunch.
LEMMA ClosedDay ==
  ASSUME CheckOutIsAnotherPunch, NEW e \in Employees, NEW d \in Days, Closed(logs[<<e, d>>])
  PROVE  logs[<<e, d>>].totalHours = TotalHours(logs[<<e, d>>].checkOut - logs[<<e, d>>].checkIn)
BY Zenon DEF CheckOutIsAnotherPunch

\* The hours of a closed day are within half a hundredth of an hour of the time
\* between its two punches, even when the check-out is the earlier one
\* (attendance.service.ts, lines 93-99).
HoursAreAccurate ==
    \A e \in Employees, d \in Days :
        LET row == logs[<<e, d>>]
            error == 2 * (HundredthHour * row.totalHours) - 2 * (row.checkOut - row.checkIn)
        IN  Closed(row) => -HundredthHour <= error /\ error <= HundredthHour

\* The recorded hours are those worked, to the precision they are stored with.
THEOREM HoursAccurate == Spec => []HoursAreAccurate
<1>1. ASSUME TypeOK, CheckOutIsAnotherPunch
      PROVE  HoursAreAccurate
  <2> SUFFICES ASSUME NEW e \in Employees, NEW d \in Days, Closed(logs[<<e, d>>])
               PROVE  LET row == logs[<<e, d>>]
                          error == 2 * (HundredthHour * row.totalHours)
                                       - 2 * (row.checkOut - row.checkIn)
                      IN  -HundredthHour <= error /\ error <= HundredthHour
    BY DEF HoursAreAccurate
  <2> DEFINE row == logs[<<e, d>>]
             diff == row.checkOut - row.checkIn
  <2>1. row \in LogRow /\ row.checkOut # None
    BY <1>1, RowType DEF Closed
  <2>2. row.checkIn \in Int /\ row.checkOut \in Int
    BY <2>1, ClockAssumption DEF LogRow, Time
  <2>3. diff \in Int /\ row.totalHours = TotalHours(diff)
    <3>1. row.totalHours = TotalHours(diff)
      BY <1>1, ClosedDay
    <3>2. diff \in Int
      <4> HIDE DEF row
      <4>1. QED
        BY <2>2
    <3>3. QED
      BY <3>1, <3>2
  <2>4. TotalHours(diff) \in Int
    <3> HIDE DEF diff
    <3>1. HundredthHour \in Nat \ {0}
      BY ClockAssumption
    <3>2. ASSUME NEW n \in Int
          PROVE  n \div (2 * HundredthHour) \in Int
      BY <3>1
    <3>3. QED
      BY <2>3, <3>1, <3>2 DEF TotalHours
  <2>5. HundredthHour * TotalHours(diff) \in Int /\ HundredthHour \in Int
    BY <2>4, ClockAssumption
  <2>6. /\ 2 * (HundredthHour * TotalHours(diff)) - 2 * diff <= HundredthHour
        /\ 2 * diff - 2 * (HundredthHour * TotalHours(diff)) <= HundredthHour
    BY <2>3, RoundedToNearest
  <2> HIDE DEF diff, row
  <2>7. QED
    BY <2>3, <2>5, <2>6 DEF diff, row
<1>2. QED
  BY <1>1, TypeCorrect, CheckOutCorrect, PTL

-----------------------------------------------------------------------------
(***************************************************************************)
(* One call of an employee at a time. The two things that go wrong when    *)
(* calls of one employee overlap (a check-out before the check-in, a 500   *)
(* after the punch was stored) need nothing else to be repaired: they      *)
(* cannot happen while no employee has two calls under way.                *)
(***************************************************************************)

OneCallPerEmployee ==
    \A b, c \in Calls :
        (/\ pc[b] \in InFlight /\ pc[c] \in InFlight
         /\ local[b].employee = local[c].employee
         /\ local[b].employee \in Employees) => b = c

\* A 500 from the log means that the employee is gone: no punch was stored whose
\* day the call then failed to write (lines 54-104).
OnlyDeletionFails ==
    \A c \in Calls :
        (pc[c] = "failed" /\ punches[c] # None) => local[c].employee \notin employees

\* What holds of a call that is the only one of its employee: the days it finds
\* open began before it, and the day it is about to open is still not there.
AloneInTime(c) ==
    (pc[c] \in InFlight /\ local[c].employee \in employees) =>
        /\ \A d \in Days :
               logs[<<local[c].employee, d>>] # None =>
                   logs[<<local[c].employee, d>>].checkIn <= local[c].now
        /\ pc[c] = "createLog" => logs[Key(c)] = None

SubsequentDay(e, d) ==
    Closed(logs[<<e, d>>]) => logs[<<e, d>>].checkIn <= logs[<<e, d>>].checkOut

AloneInv ==
    /\ \A c \in Calls : AloneInTime(c)
    /\ \A e \in Employees, d \in Days : SubsequentDay(e, d)
    /\ OnlyDeletionFails

\* While its only call is under way, the days of an employee are the ones that
\* were there: another call would have had to open a new one.
LEMMA NoOtherWrites ==
  ASSUME AttendanceInv, OneCallPerEmployee, [Next]_vars, NEW c \in Calls,
         pc[c] \in InFlight, pc'[c] \in InFlight, local[c].employee \in employees',
         local'[c].employee = local[c].employee,
         NEW d \in Days, logs'[<<local[c].employee, d>>] # None
  PROVE  logs[<<local[c].employee, d>>] # None
<1>0. TypeOK
  BY DEF AttendanceInv, TypeInv
<1> DEFINE e == local[c].employee
<1>1. e \in Employees
  BY StayingDay
<1>2. SUFFICES ASSUME logs[<<e, d>>] = None
               PROVE  FALSE
  OBVIOUS
<1>3. PICK b \in Calls : CreateLog(b) \/ UpdateLog(b)
  <2>1. ASSUME NEW x \in Employees, DeleteEmployee(x)
        PROVE  FALSE
    BY <1>1, <1>2, <2>1 DEF DeleteEmployee, LogsWithout
  <2>2. logs' # logs
    BY <1>2
  <2>3. QED
    BY <2>1, <2>2
       DEF Next, CallStep, Arrive, InsertPunch, TakeDay, FindLog, Lose, Tick, tables, vars
<1>4. CASE UpdateLog(b)
  <2>1. logs[Key(b)] # None
    BY <1>2, <1>4 DEF UpdateLog
  <2>2. logs' = [logs EXCEPT ![Key(b)] = ClosedLog(b)]
    BY <1>4, <2>1, UpdateWritesRow DEF AttendanceInv
  <2>3. <<e, d>> # Key(b)
    BY <1>2, <2>1
  <2>4. logs'[<<e, d>>] = logs[<<e, d>>]
    BY <1>0, <1>1, <2>2, <2>3 DEF TypeOK, LogTable
  <2>5. QED
    BY <1>2, <2>4
<1>5. CASE CreateLog(b)
  <2>1. logs' = [logs EXCEPT ![Key(b)] = NewLog(b)] /\ pc[b] = "createLog"
    BY <1>2, <1>5 DEF CreateLog
  <2>2. Key(b) = <<e, d>>
    BY <1>0, <1>1, <1>2, <2>1 DEF TypeOK, LogTable
  <2>3. local[b].employee = local[c].employee
    BY <2>2 DEF Key
  <2>4. b = c
    BY <1>1, <2>1, <2>3 DEF OneCallPerEmployee, InFlight
  <2>5. pc'[c] \in Over
    BY <1>0, <1>5, <2>4 DEF CreateLog, Goto, TypeOK, Over
  <2>6. QED
    BY <2>5 DEF Over, InFlight
<1>6. QED
  BY <1>3, <1>4, <1>5

\* A call keeps its employee, and its `now` once it has arrived.
LEMMA CallKeeps ==
  ASSUME AttendanceInv, [Next]_vars, NEW c \in Calls, pc'[c] \in InFlight
  PROVE  \/ /\ pc[c] \in InFlight
            /\ local'[c].employee = local[c].employee /\ local'[c].now = local[c].now
         \/ /\ pc[c] = "idle" /\ pc'[c] = "insertPunch" /\ local'[c].now = clock /\ logs' = logs
            /\ UNCHANGED <<clock, employees>>
<1>0. TypeOK
  BY DEF AttendanceInv, TypeInv
<1>1. ASSUME NEW b \in Calls, NEW x \in Employees \cup {None}, Arrive(b, x)
      PROVE  \/ pc[c] \in InFlight /\ local'[c] = local[c]
             \/ /\ pc[c] = "idle" /\ pc'[c] = "insertPunch" /\ local'[c].now = clock /\ logs' = logs
                /\ UNCHANGED <<clock, employees>>
  BY <1>0, <1>1 DEF Arrive, Goto, tables, TypeOK, Locals, InFlight
<1>2. ASSUME NEW b \in Calls, TakeDay(b) \/ FindLog(b)
      PROVE  /\ pc[c] \in InFlight
             /\ local'[c].employee = local[c].employee /\ local'[c].now = local[c].now
  BY <1>0, <1>2 DEF TakeDay, FindLog, Goto, TypeOK, Locals, InFlight
<1>3. ASSUME NEW b \in Calls, InsertPunch(b) \/ CreateLog(b) \/ UpdateLog(b) \/ Lose(b)
      PROVE  pc[c] \in InFlight /\ local' = local
  BY <1>0, <1>3 DEF InsertPunch, CreateLog, UpdateLog, Lose, Goto, TypeOK, InFlight
<1>4. ASSUME (\E x \in Employees : DeleteEmployee(x)) \/ Tick \/ UNCHANGED vars
      PROVE  pc[c] \in InFlight /\ local' = local
  BY <1>4 DEF DeleteEmployee, Tick, vars
<1>5. QED
  BY <1>1, <1>2, <1>3, <1>4 DEF Next, CallStep

LEMMA AloneStep ==
  ASSUME DaysInv, DaysInv', AloneInv, OneCallPerEmployee, [Next]_vars
  PROVE  AloneInv'
<1>0. /\ AttendanceInv /\ AttendanceInv' /\ TypeOK /\ TypeOK'
      /\ \A c \in Calls : CallOK(c) /\ RowOfCall(c) /\ AloneInTime(c)
  BY DEF DaysInv, AttendanceInv, TypeInv, AloneInv
<1>1. ASSUME NEW c \in Calls, pc'[c] \in InFlight, local'[c].employee \in employees'
      PROVE  /\ \A d \in Days :
                    logs'[<<local'[c].employee, d>>] # None =>
                        logs'[<<local'[c].employee, d>>].checkIn <= local'[c].now
             /\ pc'[c] = "createLog" => logs'[Key(c)'] = None
  <2> DEFINE e == local'[c].employee
  <2>1. e \in employees /\ e \in Employees
    BY <1>0, <1>1 DEF Next, CallStep, Arrive, InsertPunch, TakeDay, FindLog, CreateLog, UpdateLog,
                      Lose, Tick, DeleteEmployee, tables, vars, TypeOK
  <2>2. CASE /\ pc[c] \in InFlight
             /\ local'[c].employee = local[c].employee /\ local'[c].now = local[c].now
    <3>1. ASSUME NEW d \in Days, logs'[<<e, d>>] # None
          PROVE  logs'[<<e, d>>].checkIn <= local'[c].now
      <4>1. logs[<<e, d>>] # None
        BY <1>0, <1>1, <2>2, <3>1, NoOtherWrites
      <4>2. logs'[<<e, d>>].checkIn = logs[<<e, d>>].checkIn
        BY <1>0, <1>1, <4>1, StayingDay
      <4>3. logs[<<e, d>>].checkIn <= local[c].now
        BY <1>0, <2>1, <2>2, <4>1 DEF AloneInTime
      <4>4. QED
        BY <2>2, <4>2, <4>3
    <3>2. ASSUME pc'[c] = "createLog"
          PROVE  logs'[Key(c)'] = None
      <4>1. logs[Key(c)'] = None /\ local'[c].today \in Days
        <5>1. CASE pc[c] = "createLog"
          <6>1. local'[c] = local[c]
            BY <1>0, <5>1
               DEF Next, CallStep, Arrive, InsertPunch, TakeDay, FindLog, CreateLog, UpdateLog,
                   Lose, Goto, Tick, DeleteEmployee, vars, TypeOK
          <6>2. QED
            BY <1>0, <1>1, <2>1, <2>2, <5>1, <6>1 DEF AloneInTime, Key, TypeOK, Locals
        <5>2. CASE pc[c] # "createLog"
          <6>1. FindLog(c)
            BY <1>0, <2>2, <3>2, <5>2
               DEF Next, CallStep, Arrive, InsertPunch, TakeDay, FindLog, CreateLog, UpdateLog,
                   Lose, Goto, Tick, DeleteEmployee, vars, TypeOK, InFlight
          <6>2. local'[c].today = local[c].today /\ Branch(logs[Key(c)]) = "createLog"
            BY <1>0, <3>2, <6>1 DEF FindLog, Goto, TypeOK, Locals
          <6>3. logs[Key(c)] = None
            BY <6>2 DEF Branch, Open
          <6>4. QED
            BY <1>0, <2>2, <6>2, <6>3 DEF Key, TypeOK, Locals
        <5>3. QED
          BY <5>1, <5>2
      <4>2. Key(c)' = <<e, local'[c].today>>
        BY DEF Key
      <4>3. QED
        BY <1>0, <1>1, <2>2, <4>1, <4>2, NoOtherWrites
    <3>3. QED
      BY <3>1, <3>2
  <2>3. CASE /\ pc[c] = "idle" /\ pc'[c] = "insertPunch" /\ local'[c].now = clock /\ logs' = logs
             /\ UNCHANGED <<clock, employees>>
    <3>1. \A d \in Days : RowInv(e, d)
      BY <2>1 DEF DaysInv
    <3>2. QED
      BY <2>3, <3>1 DEF RowInv
  <2>4. QED
    BY <1>0, <1>1, <2>2, <2>3, CallKeeps
<1>2. ASSUME NEW e \in Employees, NEW d \in Days
      PROVE  SubsequentDay(e, d)'
  <2>1. SubsequentDay(e, d)
    BY DEF AloneInv
  <2>2. CASE logs'[<<e, d>>] = logs[<<e, d>>] \/ logs'[<<e, d>>] = None
    BY <2>1, <2>2 DEF SubsequentDay, Closed
  <2>3. ASSUME NEW c \in Calls, CreateLog(c), logs'[<<e, d>>] # logs[<<e, d>>]
        PROVE  SubsequentDay(e, d)'
    <3>1. logs'[<<e, d>>] = NewLog(c)
      BY <1>0, <2>3 DEF CreateLog, TypeOK, LogTable
    <3>2. QED
      BY <3>1 DEF NewLog, SubsequentDay, Closed
  <2>4. ASSUME NEW c \in Calls, UpdateLog(c), logs'[<<e, d>>] # logs[<<e, d>>]
        PROVE  SubsequentDay(e, d)'
    <3>1. logs[Key(c)] # None
      BY <2>4 DEF UpdateLog
    <3>2. /\ logs' = [logs EXCEPT ![Key(c)] = ClosedLog(c)]
          /\ Key(c) \in Employees \X Days /\ logs[Key(c)] \in LogRow
      BY <1>0, <2>4, <3>1, UpdateWritesRow DEF AttendanceInv
    <3>3. Key(c) = <<e, d>> /\ logs'[<<e, d>>] = ClosedLog(c)
      BY <1>0, <2>4, <3>2 DEF TypeOK, LogTable
    <3>4. ClosedLog(c).checkIn = logs[Key(c)].checkIn /\ ClosedLog(c).checkOut = local[c].now
      BY <3>2 DEF ClosedLog, LogRow
    <3>5. local[c].employee \in employees /\ local[c].today \in Days
      BY <1>0, <2>4, <3>1, UpdateCloses
    <3>6. logs[Key(c)].checkIn <= local[c].now
      BY <1>0, <2>4, <3>1, <3>5 DEF AloneInTime, UpdateLog, InFlight, Key
    <3>7. QED
      BY <3>3, <3>4, <3>6 DEF SubsequentDay
  <2>5. CASE ~(\E c \in Calls : CreateLog(c) \/ UpdateLog(c))
    <3>1. logs'[<<e, d>>] = logs[<<e, d>>] \/ logs'[<<e, d>>] = None
      BY <2>5 DEF Next, CallStep, Arrive, InsertPunch, TakeDay, FindLog, Lose, Tick,
                  DeleteEmployee, LogsWithout, tables, vars
    <3>2. QED
      BY <2>2, <3>1
  <2>6. QED
    BY <2>2, <2>3, <2>4, <2>5
<1>3. ASSUME NEW c \in Calls, pc'[c] = "failed", punches'[c] # None, local'[c].employee \in employees'
      PROVE  FALSE
  <2>1. local'[c].employee \in employees
    BY <1>3 DEF Next, CallStep, Arrive, InsertPunch, TakeDay, FindLog, CreateLog, UpdateLog,
                Lose, Tick, DeleteEmployee, tables, vars
  <2>2. CASE pc[c] = "failed"
    <3>1. local'[c] = local[c]
      BY <1>0, <2>2 DEF Next, CallStep, Arrive, InsertPunch, TakeDay, FindLog, CreateLog, UpdateLog,
                        Lose, Goto, InFlight, Tick, DeleteEmployee, vars, TypeOK
    <3>2. punches[c] # None
      BY <1>0, <1>3, <2>2
         DEF Next, CallStep, Arrive, InsertPunch, TakeDay, FindLog, CreateLog, UpdateLog, Lose,
             Tick, DeleteEmployee, tables, vars, TypeOK, PunchTable
    <3>3. QED
      BY <2>1, <2>2, <3>1, <3>2 DEF AloneInv, OnlyDeletionFails
  <2>3. CASE pc[c] # "failed"
    <3>1. InsertPunch(c) \/ CreateLog(c) \/ UpdateLog(c)
      BY <1>0, <1>3, <2>3 DEF Next, CallStep, Arrive, InsertPunch, TakeDay, FindLog, Branch,
                              CreateLog, UpdateLog, Lose, Goto, Tick, DeleteEmployee, vars, TypeOK
    <3>2. CASE InsertPunch(c)
      BY <1>0, <1>3, <2>1, <3>2 DEF InsertPunch, Goto, TypeOK
    <3>3. CASE CreateLog(c)
      <4>1. ~LogAccepted(c) /\ local' = local /\ pc[c] = "createLog"
        BY <1>0, <1>3, <3>3 DEF CreateLog, Goto, TypeOK
      <4>2. logs[Key(c)] = None
        BY <1>0, <2>1, <4>1 DEF AloneInTime, InFlight
      <4>3. QED
        BY <2>1, <4>1, <4>2 DEF LogAccepted
    <3>4. CASE UpdateLog(c)
      <4>1. local' = local /\ pc[c] = "updateLog" /\ logs[Key(c)] = None
        BY <1>0, <1>3, <3>4 DEF UpdateLog, Goto, TypeOK
      <4>2. QED
        BY <1>0, <2>1, <4>1 DEF RowOfCall
    <3>5. QED
      BY <3>1, <3>2, <3>3, <3>4
  <2>4. QED
    BY <2>2, <2>3
<1>4. QED
  <2>1. \A c \in Calls : AloneInTime(c)'
    BY <1>1 DEF AloneInTime
  <2>2. OnlyDeletionFails'
    BY <1>3 DEF OnlyDeletionFails
  <2>3. QED
    BY <1>2, <2>1, <2>2 DEF AloneInv

\* With one call of an employee at a time, every check-out is subsequent to its
\* check-in, as line 91 says, and no call fails after storing its punch unless
\* its employee was deleted meanwhile. Without that, the run that looks for a
\* check-out before its check-in finds one.
THEOREM OneCallAtATime ==
  Spec /\ []OneCallPerEmployee => [](CheckOutIsSubsequent /\ OnlyDeletionFails)
<1>1. Init => AloneInv
  BY DEF Init, AloneInv, AloneInTime, SubsequentDay, OnlyDeletionFails, InFlight, Closed
<1>2. DaysInv /\ DaysInv' /\ AloneInv /\ OneCallPerEmployee /\ [Next]_vars => AloneInv'
  BY AloneStep
<1>3. AloneInv => CheckOutIsSubsequent /\ OnlyDeletionFails
  BY DEF AloneInv, SubsequentDay, CheckOutIsSubsequent
<1>4. QED
  BY <1>1, <1>2, <1>3, DaysInvariant, PTL DEF Spec
=============================================================================
