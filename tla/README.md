# A formal model of the attendance backend

This directory holds TLA+ modules that model the backend in `src/`, the TLC
configurations that check them on small instances, and proofs, checked by
TLAPS, of what holds for every value of the constants. Line numbers are those
of the TypeScript files and of `prisma/schema.prisma`. `PROJECT.json` lists the
components, the runs, the hazards, the theorems and, for every definition, the
lines it stands for.

## 1. The system

A NestJS server over PostgreSQL (Prisma), with Socket.IO for devices. Each
handler is an `async` function: it runs alone between two `await`s, and at an
`await` the other handlers run. Except where the code opens a `$transaction`,
every Prisma call is a transaction of its own, so that what a handler read may
be stale by the time it writes. Uniqueness, foreign keys and their `onDelete`
rules are the only things that hold across statements; a violated constraint
is caught nowhere and becomes a 500.

| component | state | operations | what makes it correct |
|---|---|---|---|
| Daily attendance (`attendance.service.ts` 29-125) | `AttendancePunch`, `AttendanceLog` | `checkIn`; readers `findLogs`, `todaySummary` | a day's check-in and check-out are times of punches of that employee, hours are their difference, no stored punch goes missing, a day is not rewritten |
| Device punch intake (129-164) | `AttendancePunch`, its unique `idempotencyKey`; the device's buffer | `submitPunch` | a replayed capture is stored once and acknowledged only when stored; it is acknowledged in the end |
| Shifts and schedule (`shifts.service.ts`) | `Shift`, `ScheduleAssignment` | `create`, `update`, `remove`, `assign`, `updateAssignment`, `removeAssignment`, `getActiveShift` | names are unique, the schedule refers to rows that exist, a plan is entered as a whole and can be repeated, `isOvernight` agrees with the times, a punch is attributed to the right shift |
| Device gateway (`device.gateway.ts`, `socket-io-redis.adapter.ts`) | `connectedDevices` and rooms of each process, `DeviceCommand.sentAt` | connect, disconnect, heartbeat, `command_ack`, push | the open connection of a device is the one the map knows; a command is marked sent only when its device has it |
| Devices (`devices.service.ts`) | `Device`, `DeviceCredential`, `DeviceCommand` | `register`, `update`, `heartbeat`, `sendCommand` | one device per serial number, a command is stored before it is pushed |
| Sessions (`auth.service.ts`, `token-blacklist.service.ts`, `jwt-auth.guard.ts`) | `User`, `RefreshToken`, a map of the process | `login`, `refresh`, `logout`, the guard | a refresh token that was exchanged or logged out is refused; an access token that was logged out opens nothing |
| Roles and guards | none | table lookups | the permission tables |
| Employees, departments, positions (`employees.service.ts`, `organization.service.ts`) | `Employee`, `Department`, `Position` | `create`, `update`, `remove`, `bulkImport` | references are to rows that exist; only terminated employees are deleted; an import can be repeated |
| Biometric templates (`biometrics.service.ts`) | one row per employee | `enroll`, `deleteTemplate` | the row goes with its employee |
| Companies, branches, tenant context | `Company`, `Branch`, an `AsyncLocalStorage` | CRUD; the company of a request | every query is restricted to the company, or goes by a key or an id of its rows |
| Audit log (`audit-log.interceptor.ts`, `audit.service.ts`) | `AuditLog` | an interceptor, `logAction` | what was done is logged, with the state it was done to |
| Platform administration (`super-admin.service.ts`) | `Company`, `User` | `provisionCompany`, `updateCompany`, `impersonate` | a company comes with its administrator; no impersonation without its audit row |

How they interact: `EmployeesService.remove` cascades to logs, schedule and
template and sets `AttendancePunch.employeeId` to NULL; removing a shift
cascades to its assignments; `sendCommand` stores a command and emits an event
that the gateway turns into a push, in its own process and, through Redis, in the
others; the gateway calls `DevicesService` for
credentials and heartbeats, which asks the tenant context for the company, that
only HTTP requests have; the
audit interceptor reads a row before the handler runs and writes after it,
without being waited for. `getActiveShift` is written for an attendance engine
that does not exist yet, and `submitPunch` answers `queued` for punches that no
job picks up: the directories for it are empty. The super admin's calls create the
users that log in, and sign access tokens that the guard of the sessions accepts
like its own.

The hard parts, each listed under `hazards` with its line: overlapping
handlers that read, decide and write in separate statements; rows deleted
under a handler; a handler that dies half-way; answers lost and requests
repeated; the clock read twice; what a process keeps in memory.

## 2. Plan

| order | modules | composes or refines | status |
|---|---|---|---|
| 1 | `AttendanceData`, `AttendanceLedger`, `Attendance`, `Attendance_proofs` | Attendance implements AttendanceLedger | done |
| 2 | `PunchDelivery`, `PunchIntake`, `PunchIntake_proofs` | server and devices; implements PunchDelivery | done |
| 3 | `Roster`, `ShiftSchedule`, `ShiftSchedule_proofs` | implements Roster | done |
| 4 | `ActiveShift`, `ActiveShift_proofs` | `getActiveShift` and `timezone.ts` against a reference that says when a shift is being worked | done |
| 5 | `CommandQueue`, `DeviceGateway`, `DeviceGateway_proofs` | gateway with `DevicesService`; implements CommandQueue | done |
| 6 | `Sessions`, `Sessions_proofs` | login, refresh, logout, the guard, restarts; the other services are its environment | done |
| 7 | `PlatformAdmin`, `PlatformAdmin_proofs` | `SuperAdminService`, `CompaniesService` and the seed around `Sessions`; implements it | done |
| 8 | `Personnel`, `Personnel_proofs` | employees, organisation and templates, each call inside the audit interceptor | done |

Left out of the plan: the registration of devices, two statements behind a unique
constraint, as `Personnel` has them for employees.

## 3. How the modules correspond to the code

In every module a call is a member of a set (`Calls`, `Posts`) with a program
counter; an action is one database statement with the code around it, its
guard the counter, its outcomes the returns of the code. A statement the table
refuses (unique pair, foreign key, row gone) ends the call as `failed`, a 500.
`Lose` ends a call anywhere between two statements: a rejected statement, a
lost connection, or the death of the process (which is `Lose` for every call
of the process, in any order). `DeleteEmployee` is the rest of the API as these
tables see it; it stands for `remove` when the check of its status has passed.
All state is that of one company (`PlatformAdmin` apart, whose rows are the
companies). Most queries are restricted to it. Others go by the id of a row, which is
of one company: the statements that write what was looked up before, the interceptor's
look ahead, the credentials of a device, and `getActiveShift` (`shifts.service.ts`
236-254), which has an employee's id and nothing else. The `idempotencyKey` of a punch
is looked up among all companies (`attendance.service.ts` 134-135); keys are to be made
of the device, the employee and the time (`submit-punch.dto.ts` 53), so that those of
two companies differ, and what happens when a device makes them otherwise is not
modelled.

An employee that is deleted does not come back in `Attendance`, `PunchIntake` and
`ShiftSchedule`, as ids are generated and not used again. The one exception in the code,
an import whose file names the id of a deleted employee, is modelled in `Personnel`:
to the tables of the other modules it would be a new employee under an old id, with
none of its rows but with the calls that were under way.

**Attendance.** `checkIn`: `Arrive` (look the employee up, read `now`),
`InsertPunch`, `TakeDay` (the clock again, for the day), `FindLog`, then
`CreateLog`, `UpdateLog` or nothing. A punch has the id of its call. A day of UTC is
`DayLength` ticks; the clock does not run backwards. The punch's status,
confidence, method and image decide nothing that is written to the log and are
left out. `TotalHours` is `toFixed(2)`: a difference of instants rounded to
hundredths of an hour, `HundredthHour` instants each. The date of a day is what the code
and the column make of it: `LocalMidnight` is the last midnight of the server's zone
(`setHours`), `UtcDate` the date in UTC that a `@db.Date` column keeps of an instant
(`schema.prisma` 379), and `DayOf` the second of the first. `Midnights` may be any
calendar: east of UTC the date is the one before that on the wall, west of UTC it is
the same, and where the offset changes a local day is shorter or longer than
`DayLength`, and two may share a date. No property compares a date with the date that
a wall shows. `arrival` is a history variable: what the
employee's days looked like when a call arrived.

**PunchIntake.** `submitPunch`: `FindKey`, `FindEmployee`, `Insert`. A capture
stands for a body and, in `Keyed`, for its idempotency key, which
`submit-punch.dto.ts` 53-58 derives from the device, the employee and the time:
two captures have two keys. The device (`Capture`, `Send`, `Deliver`) and the
network (`Lose`) are external: they are what the comments at
`attendance.controller.ts` 62-83 say of devices that buffer and replay.

**ShiftSchedule.** The six operations that write, one program counter each:
`ReadShift` is `assertOwnedShift` wherever it is called. The upserts of `assign`
are one step because they are one transaction, whose rows stay locked until it
commits; when two such transactions deadlock the database ends one of them,
which is `Lose`. A row's identity is the call that created it, so that a row
removed and planned anew is another row. `Updated` keeps what Prisma does with
a partial body: only the fields present, and `isOvernight`, are written.

**ActiveShift.** `getActiveShift`: `ReadTimezone`, `ReadToday`, `ReadYesterday`
with the choice. The two statements of its transaction do not see one snapshot
(the database's default isolation), so that `Reschedule`, which stands for all
that `ShiftSchedule` does to an employee's dates, comes between them too. The
helpers keep the names of the code; a time `HH:mm` is its number of minutes,
which orders like the string. `Covers` is the reference: a shift counted in
minutes from a fixed midnight, with nothing wrapped. `steady` and `settled` are
history variables: what did not change during the call.

**DeviceGateway.** `handleConnection` is `Dial`, `Validate`, `RecordHeartbeat`,
`Enter`, with `Fail` and `Reject` for the catch; `Close` is `handleDisconnect`,
which runs whenever a socket closes, during its handshake as well. There are
several server processes (`Processes`): `home` is the one a socket is connected to,
each has its own map (`connectedDevices[p, d]`), and one of them serves a call
(`server`). Socket.IO's rooms are derived: a socket is in the room of its process
from `Enter` until it closes. A socket that is closed but still in a map is not used
for a new connection, as socket ids are never used again; `Drop` forgets a socket
that nothing refers to. `sendCommand` is `SendCommand`, `CreateCommand`,
`PushCommand`, which runs `handleCommandQueued` at once because the emitter is
synchronous. The adapter over Redis passes a command on to the other processes
(`relayed`), which emit it to who is in their room by then (`Relay`); what is passed
on is lost (`LoseRelay`) where Redis is not configured or not reached, and with a
process that restarts. `handleCommandAck` is one step, since a receipt
whose update is lost equals a lost receipt. The device and its receipts are
external. `DeviceTenant` says whether what a device sends has a tenant context.
As the code is wired it has none (`TenantResolutionMiddleware` sees HTTP requests
only, and takes the company from a human's token), and `gateway_tenant` shows
what follows; the other runs take it as given, as the tests do by replacing the
service, to check what the gateway does beyond that. `alone` is a history
variable: connections without a competing handshake.

**Sessions.** A request (`Requests`) has a name, and so have the refresh token and
the access token that it is given: `refreshTokens` is the table, `accessTokens`
the claims that were signed, `held` what reached a client, `blacklist` the map in
`TokenBlacklistService`. `login` is `Login` (find the user, compare the password),
`Issue`, `Answer`; `refresh` is `Refresh` (all its checks), `Revoke` (a transaction
of its own, on nothing but the id), `Issue`, `Answer`; `logout` is `Logout`,
`Blacklist`, `Close`, `Answer`. `Guard` is `JwtAuthGuard`: it reads the clock in
`verify` and once more in `isBlacklisted`, and the second may turn in between.
What other services do to these tables is in `Enrol`, `Sign`, `HandOut` and
`Guarded`, as freely as the properties bear. Signatures and hashes are taken to do
what they are for. The copy of the list in Redis is written and never read, so
that a `Restart` empties the list. `dismissed` is a history variable: tokens whose
logout this process answered.

**PlatformAdmin** extends `Sessions` with the tables `companies` and `trail`
(`AuditLog`) and with calls named in `Grants`, one program counter each (`task`).
`provisionCompany` is `FindCode`, `FindEmail`, `Create`, `Log`, `Respond`;
`updateCompany` is `Find`, `Write`, `Log`, `Respond`; `impersonate` is `SignFor`,
`Log`, `Respond`. `Log` is `logAction`, whose failure its caller does not see.
`CompaniesService` runs through the same actions without the log, and without a
role of its own (`Permitted`); `SeedCompany` and `SeedAdministrator` are the two
upserts of `seed.ts`. `ImplementsSessions` states the composition: seen through the
variables of `Sessions`, the platform is one of the environments that module allows.

**Personnel.** One program counter per request: `Receive`, then for audited calls
with an id in the path `ReadBefore` (the interceptor), `Find`, `References`
(`ensureReferences`), the statement that writes (`Insert`, `Update`, `Remove`,
`Template`, `CreateUnit`, `RemoveUnit`), `Respond` and, when the handler is over,
`WriteLog`, at any later time. `bulkImport` goes through `References` and `Insert`
row by row; `FailLine` is the catch of its loop. Its rows are cast to the DTO and not
validated (lines 17 and 12): a file may have columns for the `id` and the `status`,
which the DTO of a create has not. So `NewEmployee` has the status that its line names,
and `FreeIds` the id that it names, were it that of a row that was deleted; an id in
use fails the line. Departments, positions and
branches are one kind of row, `units`: the code treats them alike, and only
branches are never deleted. `Exists` and the foreign keys are the guards of the
writing actions: what was looked up earlier is not trusted. `prior`, `disturbed`,
`hired` and `skipped` are history variables: the row a change replaced, the
requests whose row another changed after they had begun to look at it, the codes
that were ever employed, and the lines of an import that failed for another reason
than that their code was taken.

## 4. What is checked

Every property of a passing run has a mutant in `PROJECT.json`: a plausible mistake in one
definition of the code (the variants that stand before the helpers they vary)
under which TLC finds the property violated.

| run | instance | shows |
|---|---|---|
| `attendance` | 3 calls, 2 employees, 4 instants, 2 days of UTC, 3 of the server | `CheckInIsItsPunch`, `CheckOutIsAnotherPunch`, `StoredPunchHasItsDay`, `ClosedDayIsFinal`, `SequentialPunchesInOrder`, `DayIsOfItsPunches`, `DayOnlyAdvances`, and that every step is one of `AttendanceLedger` |
| `attendance_order` | the same, midnights at the start only | the comment "Subsequent punch -> record check-out" (line 91) fails: overlapping calls record an earlier punch as the check-out |
| `intake` | 2 requests at a time, 2 employees, 1 keyed capture and 1 without a key | `AtMostOneRow`, `AcknowledgedIsStored`, `ErrorLosesNothing`, `EventuallyAcknowledged`, and that the service implements `PunchDelivery` |
| `schedule` | 3 calls out of 13 requests, 2 shifts, 2 employees, 2 dates | `NamesUnique`, `AssignmentsReferToRows`, `StaleCallsMissNewRows`, `ReplanningChangesNothing`, `QuietUpdateDerives`, and that the service implements `Roster` |
| `schedule_overnight` | 2 calls, the requests that change a shift | the comment "Re-derive overnight when times change" (line 120) fails for overlapping updates |
| `active_shift` | days of 6 units, 2 dates, 12 instants, 2 zones, 5 shifts | `CoveredIsAttributed`, `CoveredIsNotLost` |
| `active_shift_grace` | the same | the test "attributes an early-morning punch to the previous day overnight shift" fails for a shift whose grace passes midnight |
| `gateway` | 2 processes, 2 sockets, 2 devices, 1 command | `KnownIsAuthenticated`, `SoleConnectionIsKnown`, `SentWasReceived`, `HandshakeEnds`, and that gateway and service implement `CommandQueue` |
| `gateway_tenant` | the same, without a tenant | the test "accepts connection and authentication with valid query params" fails: every device is refused |
| `gateway_receipts` | the same as `gateway` | the comment "Listen for device command receipts and mark them as delivered" (line 102) fails for a device with two connections |
| `platform` | 2 requests, 1 call of the platform, 2 users, 1 company, tokens of 1 and 2 seconds | `SpentIsRefused`, `LoggedOutIsRefused`, `TrailIsTrue`, and that the platform implements `Sessions` |
| `personnel` | 2 requests out of every kind, 3 ids, 2 codes, 2 units, 1 file of 2 rows, the second with an id and a status | `ImagesAreExact`, `QuietRemoval`, `ImportCompletes`; the type invariant says that units and templates refer to rows that exist |

*Bounds.* Three calls are what the races of a day need: one to open it, one to
close it and one that overlaps both; likewise one to find an assignment, one to
remove it and one to plan it anew. Two employees and two days let a call touch
the wrong row. The clock of `attendance` spans a first day that is short, two local
days that begin on one date of UTC and so share it, and a midnight within a day of
UTC, so that a call crosses midnights that do and that do not change the date.
`Posts` = 2 overlaps a request with its replay; any number of replays follow one
another. `MaxCopies` bounds only the rows of captures without a key. `Inputs` in
`ShiftSchedule` are requests chosen so that names clash, one time changes at a
time, a range runs backwards and slots overlap. In `ActiveShift` two dates and the
instants around them put a punch before, between and after; the shifts are one of
each kind (day, night, around the clock, ending late, marked wrongly), and the
zones lie on both sides of UTC. Two sockets let the handshakes of a device
overlap, with one process or with two, and a second device lets a push or a receipt go astray; one command is
enough because commands do not touch each other's rows, which the proof, for any
number of them, confirms. In `platform` two requests are an exchange or a logout
and what races it or comes after it, on the tokens of the super admin, who is
logged in from the start; the call of the platform meets `CompaniesService` only
through the seed, which takes the code or the email under it, and the theorems hold
for any number of calls. A clock of two seconds lets a token expire before, during
and after a request. In `personnel` a second request gets between the look and the
statement of the first, a third id lets a file of two rows be imported whole, and
the rows of the file have a unit and none, and the second names the id of the employee
that is there at the start, which is in use or was deleted by then. Both instances are symmetric in the
names of requests.

*Fairness.* `intake` assumes, for each keyed capture, strong fairness of its
`Send` (a device keeps replaying what it has not heard of, whenever it can) and of
each server step and `Deliver` of the requests that carry it (neither the network
nor the server fails one capture for ever). They are strong because `Lose` may
disable a step again and again, and per capture because a request slot may serve
other captures for ever. Nothing is assumed of captures without a key, of
`Capture`, `Lose` or `DeleteEmployee`. A device that gives up, or a server that
always dies at the same statement, breaks the property, as it should. `gateway`
assumes weak fairness of the steps of a handshake: the process goes on with what it
has begun, since each query is answered or fails, and a restart closes the socket.
Nothing is assumed of devices, of the network or of administrators. `platform` and
`personnel` assume nothing: they promise nothing that must happen.

*Deadlock checking* is off where the system really stops: the calls of an
instance are finite, the clock of `platform` has a last second, and in `PunchIntake`
every capture is done in the end.

## 5. Disagreements with the code's own words

- `attendance.service.ts` 91, "Subsequent punch -> record check-out": the branch
  is chosen by what `findUnique` returned, not by the times. When two calls of
  an employee overlap, the later punch can open the day and the earlier one
  close it: `checkOut < checkIn`, and negative hours.
  (`attendance_order`; `SequentialPunchesInOrder` shows it takes an overlap, and
  `OneCallAtATime` proves that nothing else causes it.)
- `shifts.service.ts` 120 and `create-shift.dto.ts` 67-68, `isOvernight` is
  re-derived when the times change: it is computed from a row read earlier.
  (`schedule_overnight`; `QuietUpdateDerives` shows it takes an overlap, and
  `OneUpdateAtATime` proves that nothing else causes it.)
- `device.gateway.ts` 58 and `devices.service.ts` 28: recording the first
  heartbeat asks for a tenant, which a WebSocket connection never has, so that no
  device gets past the handshake. The tests, e2e included, replace the service.
  (`gateway_tenant`; the HTTP heartbeat has the same need.)
- `device.gateway.ts` 64 and 102: the map holds one socket per device, written by
  the handshake that finishes last, even when its socket has closed meanwhile.
  Commands reach every open connection of the device, but the receipts of the
  others are refused. (`gateway_receipts`; `SoleReceiptsMarked` proves the comment
  for a connection without a competing handshake.)
- `shifts.service.ts` 262: end plus grace is wrapped at midnight before it is
  compared, and an overnight shift that ends shortly before midnight loses its
  second day. (`active_shift_grace`; `OvernightKept` proves what the test says for
  a shift whose grace ends within the day, and `CoveredIsAttributed` shows the
  attribution right wherever nothing wraps.)

More need no run of their own. Commands are "persisted for poll-based fallback"
(`devices.controller.ts`, `schema.prisma` 225), but nothing polls: a command sent
while its device is away is never delivered. `gracePeriodMins`, "minutes
after startTime before a check-in counts as late" (`create-shift.dto.ts` 56), is
used as minutes after the end. "Every call is audited" and "Mandatory audit
trail" (`super-admin.service.ts` 175 and 199): `logAction` swallows its failure
(`audit.service.ts` 37-40), and the call is answered without a row; `TrailIsTrue`
says that nothing else loses one. "Only terminated employees may be deleted"
(`employees.service.ts` 16): the status is read in one statement and the row
deleted in another, and `QuietRemoval` shows that it takes a request in between.
The before-image of the audit log (`audit-log.interceptor.ts` 16 and 62) is, under
the same race, of a state the change did not start from (`ImagesAreExact`), and the
deletion of a template has none, because its path names the parameter otherwise.
`PersonnelOneAtATime` proves that without the race both say the truth.
`bulkImport` validates nothing: a column `status` hires somebody who is not active,
and a column `id` brings back the id of a deleted employee for another
(`PersonnelIdsStandForOne`: there is no other way). A day's log is stored under
the UTC date of the server's local midnight (`attendance.service.ts` 71-84,
`schema.prisma` 379): on a server east of UTC, as in the zone of employees without a branch (`shifts.service.ts` 257),
every row is one date early, `todaySummary` answers that date as today's (line 206),
and the `from` and `to` of `findLogs` (174-178), dates of UTC, select the days from the
one after `from` to the one after `to`. Writer and `todaySummary` agree, so that no row
is lost. Where the clocks go forward past UTC's (a server in London, on the last Sunday
of March and the Monday after), two days are stored under one date: the first punch of
the second day closes the first one, or is not recorded in a log. A logout is
forgotten by a process that restarts (`token-blacklist.service.ts` 7); how long a
token can be accepted after that is bounded by `SessionsTheirUsers`.

## 6. What is proved

Four kinds of theorems. *Invariants and action properties*, most of them also
checked by a run, for every value of the constants. *Refinements*: a detailed
module implements its abstract one. *Promises of the abstract modules*
(`LedgerKeepsPromises`, `DeliveryToldOnce`, `RosterConsistent`, `QueueIsSafe`,
and `Sessions` as a whole), which the refinements carry over to the code: an
abstract module that promised nothing would be worth little as a specification.
*Repairs*: where a run of section 5 refutes what the code says of itself, a
theorem says under which condition it is true, so that the counterexample is
known to be the only kind there is. The conditions of `OneCallAtATime`,
`OneUpdateAtATime` and `PersonnelOneAtATime` are on the behaviour (`Spec /\
[]Alone => []P`): nothing in the code enforces them; they are what serving the
calls of an employee, or the updates of a shift, one after another would give.

`Attendance_proofs` proves, for any employees, calls, calendar and clock:
`TypeCorrect`, `CheckInCorrect`, `CheckOutCorrect`, `DayNeverRewritten`,
`StoredPunchesCorrect`, `ClosedDaysCorrect`, `DaysOfTheirPunches`,
`SequentialCallsCorrect` and `LedgerImplemented`. The argument is an inductive
invariant, `AttendanceInv`. What the tables promise is not inductive alone, since a
call writes from a row it read earlier; the invariant adds what a call may still
rely on at each stage (`PunchOfCall`, `RowOfCall`): the punch it stored is there
with its own time, and the row it is about to update is there with the check-in it
read, each unless the employee is gone; and that a row was written by a call that is
over, whose punch it carries (`RowWellFounded`), so that no two calls share one.
From this an update computed from a stale row is seen to
agree with the row it lands on. `DayNeverRewritten` and `LedgerImplemented`
then follow step by step. The other four need, for each call, what it knew when it
arrived (`CallInv`): a day it found open or closed has a row whose check-in was
before its own clock (`KnewDays`, `ReadTimes`), the row it found was not closed on
arrival (`FoundNotClosed`), and a call that is over has its day (`HasItsDay`); and
that the date of a row is of a day that the server has had since each of its punches
(`RowInv`). That a recorded day
only advances (`DayStep`) carries them through the steps of the other calls.
`HoursAccurate` bounds the rounding of `totalHours`, whatever its sign.
`LedgerKeepsPromises` proves `CheckInIsItsPunch` and `CheckOutIsAnotherPunch` of the
ledger alone. `OneCallAtATime` uses what a call that is alone knows (`AloneInv`): the
days it finds open began before it, and the day it is about to open is still not
there when it inserts, so that neither a check-out before the check-in nor the
unique constraint can come in its way.

`PunchIntake_proofs` proves, for any captures, employees, requests and copies:
`IntakeTypeCorrect`, `OneRowPerKey`, `AcknowledgedStored`, `ErrorHarmless` and
`DeliveryImplemented`. `AtMostOneRow` is inductive with the types because the
insert is guarded by the unique key; `AcknowledgedIsStored` needs that an answer
on its way names a row of its capture; `ErrorLosesNothing` needs that an employee
once gone does not come back and a row once stored is not removed. The latter is
`PunchesAreKept`; `RowsOfTheirOwners` says that the punch is of the right person,
which needs that a capture on its way has its owner for good. `ToldOnce`, what a
device may rely on, is proved of `PunchDelivery` (`DeliveryToldOnce`) and follows for
the handler by `DeliveryImplemented`.

`ShiftSchedule_proofs` proves, for any employees, shifts, dates and requests:
`ScheduleTypeCorrect`, `ReferencesCorrect`, `NamesStayUnique`,
`RosterImplemented` and `OneUpdateAtATime`, of steps `StaleCallsMiss`,
`ReplanningIdle`, `QuietUpdatesDerive` and `IdentityKept`, and of the roster
`RosterConsistent`. The types carry one thing more: a call's stage is a stage
of its own operation, and a call about to write a shift holds the row it read.
`AssignmentsReferToRows` is inductive with them because a row is only planned
while its shift and employee exist and goes with either; `NamesUnique` because
every write of a name passes the unique constraint. The refinement needs the
types and `AssignmentsReferToRows`: a plan entered by `assign` maps to one step of
`Roster` only if what it refers to is there. The three action properties speak of a
call that answers, so that the step is its own (`AnsweredBy`); the last one also
needs that what an update derives is right when the row it read is the row it writes
to (`QuietlyDerived`). `IdentityKept` rests on `IdsGiven`: an identity in the table or
in the hands of a call is one that was there at the start or of a call that is over,
so that a new row has one that nobody has read. `OneUpdateAtATime` rests on
`UpdateInv`: an update still finds the row it read, or none.

`ActiveShift_proofs` proves, for days of any length, any shifts, zones and
instants: `AttributionTypeCorrect`, `CoveredAttributed`, `CoveredNotLost`,
`OvernightKept` and `YesterdayLasts`. Its
arithmetic is in six lemmas: an instant is a local day and a local time, whole
days do not overlap, a sum within a day does not wrap, and from these that a
shift which covers the punch is of its local day or of the day before and within
its grace, and conversely. `CallInv` adds that what a call has read still holds
wherever nothing changed. `CoveredAttributed` says that the right shift is found,
`YesterdayLasts` that no other one is.

`DeviceGateway_proofs` proves, for any devices, sockets, processes and commands:
`GatewayTypeCorrect`, `MapAuthenticated`, `SentReceived`, `SoleConnectionKnown`,
`OpenAttended`, `SoleReceiptsMarked` and `QueueImplemented`, and with
the last `QueuePromiseKept`, from three inductive invariants. `ConnectionInv`: the stage of
a handshake says what it has checked and recorded, and the map of a process holds
finished ones of that process. `QueueInv`: what is on its way to a process was
stored, what is on its way on an open connection was stored for its device, and a
receipt on its way is of a command received. `AloneInv`: while a connection is alone
no other handshake of its device with that process is under way, so that only its
own closing, or the end of the process, takes it out of the map. `SoleReceiptsMarked`
puts the three together: a receipt on its way is of a command of that device
(`AcksOfItsDevice`), and the map finds the device by its socket.

`Sessions_proofs` proves, for any users, requests, lifetimes and clock, and for
any environment the module allows: `SessionsTypeCorrect`, `SessionsSpentIsRefused`,
`SessionsLoggedOutIsRefused`, `SessionsTheirUsers` and `SessionsLockedOutForGood`. The types carry what a request at its stage may
read (`Needs`): the rows it names are there. `SpentIsRefused` follows because
rows are not removed and a revocation is not undone (`RowsGrow`), and because the
token of an answered refresh or logout is revoked by then (`EndInv`).
`LoggedOutIsRefused` needs that a token whose logout was answered, or is about to
be, is on the list until it expires, or has expired (`ListInv`), through the
pruning of others and the second reading of the clock. `SessionsTheirUsers` holds
because users keep their company and role (`UserKept`) and claims are signed from
their row; `SessionsLockedOutForGood` because a login or refresh that is not yet past
its check of the user finds the suspension (`PendingStep`).

`PlatformAdmin_proofs` proves, for any companies, users, calls and requests:
`PlatformTypeCorrect`, `PlatformTrailIsTrue`, `PlatformTenantsStayApart` and
`PlatformImplementsSessions`, and with the last, which is the composition, that the
promises of the sessions hold in the whole (`PlatformSpentIsRefused`,
`PlatformLoggedOutIsRefused`, `PlatformLockedOutForGood`).
`OrderOK` says what a call at its stage asked for; `TrailInv` says that a call past
its statement has done its work, which stands because companies are not removed,
users keep their company and signed claims do not change. `PlatformTenantsStayApart`
is what the sessions alone cannot say: a token for another company is one that
`impersonate` signed, and its actor is a super admin by the row of the user, not only
by the token that was shown (`ActorOK`).

`Personnel_proofs` proves, for any ids, codes, units, requests and files:
`PersonnelTypeCorrect`, `PersonnelImagesAreExact`, `PersonnelQuietRemoval`,
`PersonnelImportCompletes`, `PersonnelCodesAreUnique`, `PersonnelIdsStandForOne` and
`PersonnelOneAtATime`. The references are inductive with the types because the
foreign keys guard every write and `SetNull` and `Cascade` every removal. For one
request at a time: `ImageInv` says that what the interceptor read is still the row,
or that the request is disturbed; `QuietInv` the same of the status that the check
saw; `ImportInv` that every line an import has passed is hired or skipped, which
needs that every code in use was hired (`HiredInv`). `PersonnelCodesAreUnique` and
`PersonnelIdsStandForOne` follow the code of an employee through each step (`CodeKept`);
a row that was deleted is written by an insert only, with an id that its line names
(`Revived`);
`PersonnelOneAtATime` shows that without an overlap no request is ever disturbed
(`NobodyDisturbed`), so that the excuses of the other properties are never used.

The assumptions are the named `ASSUME`s of the modules (that `None` is no value
of the sets it is compared with, that the bounds are naturals, that names of
different kinds differ); TLC evaluates them in the runs.

Only model-checked: the liveness of `intake` and `HandshakeEnds` of `gateway` (the
prover has no rules for fairness). Of the second, `OpenAttended` proves the safety
part: an open connection is in its handshake or accepted, never forgotten.

## 7. What is not modelled

The readers (`findLogs`, `todaySummary`, `findAssignments`, `listCompanies`,
`listDeviceHealth`, `getTemplate`, the `findAll`s), since they write nothing;
`todaySummary` takes four counts one after another, whose sum may be of no one moment. The permission table, DTO validation, the parsing of
CSV files and configuration: stateless. `register` and `update` of devices, the
creation of branches, the renaming of departments and positions, and a change of a
company's code, which are single statements behind a look, on columns the models do
not tell apart. Several server processes: most HTTP handlers keep no state in the
process, so that calls of one process and of several are the same thing there; the
gateway does, and its model has several; the token blacklist does, and its model is of
one: another process knows as little of a logout as the same one after a restart,
which is modelled. A failed
query in `handleConnection` is `Fail`, and a row of an import that fails is
`FailLine`; elsewhere it ends the call, as `Lose` does.
