-------------------------- MODULE AttendanceLedger --------------------------
(***************************************************************************)
(* What the attendance tables promise their readers, whatever the handler  *)
(* that writes them looks like inside:                                     *)
(*   - punches are appended and never altered by attendance calls;         *)
(*   - an employee's day is opened once, by one punch of that employee,    *)
(*     and the check-in it received then is never rewritten;               *)
(*   - it is closed by a different punch of the same employee;             *)
(*   - rows leave only with the employee they are about.                   *)
(***************************************************************************)
EXTENDS AttendanceData

VARIABLES
    punches,    \* the AttendancePunch table
    logs        \* the AttendanceLog table

ledgerVars == <<punches, logs>>

LedgerInit ==
    /\ punches = [c \in Calls |-> None]
    /\ logs = [k \in Employees \X Days |-> None]

\* A punch is appended; an unrecognised face leaves a punch of nobody.
RecordPunch(c, e, t) ==
    /\ punches[c] = None
    /\ punches' = [punches EXCEPT ![c] = [employee |-> e, timestamp |-> t]]
    /\ UNCHANGED logs

\* A recorded punch of the employee opens a day that no other has opened.
OpenDay(c, e, d) ==
    /\ punches[c] # None
    /\ punches[c].employee = e
    /\ logs[<<e, d>>] = None
    /\ logs' = [logs EXCEPT ![<<e, d>>] =
                    [checkIn |-> punches[c].timestamp, checkOut |-> None,
                     totalHours |-> None, punchId |-> c]]
    /\ UNCHANGED punches

\* Another punch of the employee closes the day, or moves its check-out.
CloseDay(c, e, d) ==
    /\ punches[c] # None
    /\ punches[c].employee = e
    /\ logs[<<e, d>>] # None
    /\ logs[<<e, d>>].punchId # c
    /\ logs' = [logs EXCEPT ![<<e, d>>] =
                    [logs[<<e, d>>] EXCEPT
                        !.checkOut = punches[c].timestamp,
                        !.totalHours =
                            TotalHours(punches[c].timestamp - logs[<<e, d>>].checkIn)]]
    /\ UNCHANGED punches

\* The employee goes: the days go too, the punches become nobody's.
ForgetEmployee(e) ==
    /\ punches' = [c \in Calls |->
                       IF punches[c] # None /\ punches[c].employee = e
                       THEN [punches[c] EXCEPT !.employee = None]
                       ELSE punches[c]]
    /\ logs' = [k \in Employees \X Days |-> IF k[1] = e THEN None ELSE logs[k]]

LedgerNext ==
    \/ \E c \in Calls, e \in Employees \cup {None}, t \in Time : RecordPunch(c, e, t)
    \/ \E c \in Calls, e \in Employees, d \in Days : OpenDay(c, e, d) \/ CloseDay(c, e, d)
    \/ \E e \in Employees : ForgetEmployee(e)

LedgerSpec == LedgerInit /\ [][LedgerNext]_ledgerVars
=============================================================================
