--------------------------- MODULE ShiftSchedule ---------------------------
(***************************************************************************)
(* /shifts: ShiftsService (src/src/modules/shifts/shifts.service.ts, lines *)
(* 28-226): create, update and remove of shifts; assign, updateAssignment  *)
(* and removeAssignment of the schedule. A call runs without interruption  *)
(* between two awaits; each step below is one database statement with the  *)
(* code around it. The upserts of assign are one transaction, and so one   *)
(* step: their rows stay locked until it commits.                          *)
(* Left out: a shift's type, break and grace period, which no operation    *)
(* here looks at, and the queries, which only read.                        *)
(***************************************************************************)
EXTENDS Integers

CONSTANTS
    Employees,  \* rows of the Employee table
    Shifts,     \* rows of the Shift table at the start
    Existing,   \* Existing[s]: what row s holds at the start
    Planned,    \* Planned[s]: the slots planned for shift s at the start
    Calls,      \* bound: one call each; a row it creates has the call's id
    Names, Times,
    Dates,      \* consecutive days
    MaxRange,   \* MAX_ASSIGNMENT_RANGE_DAYS
    Inputs,     \* bound: the requests that arrive
    None

ShiftIds == Shifts \cup Calls
Slots == Employees \X Dates
Statuses == {"SCHEDULED", "SWAPPED", "CANCELLED"}

\* The request bodies; in an update an absent field is None.
Drafts == [name : Names, start : Times, end : Times, overnight : BOOLEAN \cup {None}]
Patches == [name : Names \cup {None}, start : Times \cup {None},
            end : Times \cup {None}, overnight : BOOLEAN \cup {None}]

Requests ==
    [op : {"create"}, body : Drafts]
        \cup [op : {"update"}, shift : ShiftIds, body : Patches]
        \cup [op : {"remove"}, shift : ShiftIds]
        \cup [op : {"assign"}, shift : ShiftIds, staff : SUBSET Employees,
              from : Dates, to : Dates]
        \cup [op : {"amend"}, slot : Slots, shift : ShiftIds \cup {None},
              status : Statuses \cup {None}]
        \cup [op : {"clear"}, slot : Slots]

\* Rows. Of an assignment's id only the call that created it matters.
Shift == [name : Names, start : Times, end : Times, overnight : BOOLEAN]
Assignment == [shift : ShiftIds, status : Statuses, id : Calls \cup {None}]
Entries == [shift : ShiftIds, status : Statuses]

ASSUME DomainAssumption ==
    /\ Times \subseteq Int
    /\ Dates \subseteq Int
    /\ MaxRange \in Nat
    /\ Shifts \cap Calls = {}
    /\ Inputs \subseteq Requests
    /\ Existing \in [Shifts -> Shift]
    /\ Planned \in [Shifts -> SUBSET Slots]
    /\ \A s, t \in Shifts : Existing[s].name = Existing[t].name => s = t
    /\ None \notin Names \cup ShiftIds
    /\ None \notin Times
    /\ None \notin BOOLEAN
    /\ None \notin Statuses
    /\ None \notin Shift \cup Assignment \cup Entries \cup Requests

VARIABLES
    employees,   \* rows of the Employee table
    shifts,      \* rows of the Shift table
    assignments, \* rows of ScheduleAssignment, unique by employee and date
    pc,          \* where each call is
    request,     \* each call's request
    read,        \* the shift each call has read
    found        \* the id of the assignment each call has found

tables == <<employees, shifts, assignments>>
vars == <<tables, pc, request, read, found>>

InFlight == {"findName", "createShift", "readShift", "findClash", "writeShift", "deleteShift",
             "findEmployees", "assignAll", "findAssignment", "amendAssignment", "clearAssignment"}
Over == {"answered", "badRequest", "notFound", "failed", "lost"}

TypeOK ==
    /\ employees \subseteq Employees
    /\ shifts \in [ShiftIds -> Shift \cup {None}]
    /\ assignments \in [Slots -> Assignment \cup {None}]
    /\ pc \in [Calls -> {"idle"} \cup InFlight \cup Over]
    /\ request \in [Calls -> Requests \cup {None}]
    /\ read \in [Calls -> Shift \cup {None}]
    /\ found \in [Calls -> Calls \cup {None}]

Init ==
    /\ employees = Employees
    /\ shifts = [s \in ShiftIds |-> IF s \in Shifts THEN Existing[s] ELSE None]
    /\ assignments =
          [k \in Slots |->
              IF \E s \in Shifts : k \in Planned[s]
              THEN [shift |-> CHOOSE s \in Shifts : k \in Planned[s],
                    status |-> "SCHEDULED", id |-> None]
              ELSE None]
    /\ pc = [c \in Calls |-> "idle"]
    /\ request = [c \in Calls |-> None]
    /\ read = [c \in Calls |-> None]
    /\ found = [c \in Calls |-> None]

-----------------------------------------------------------------------------
(***************************************************************************)
(* The steps. Variants that no action uses stand before some helpers:      *)
(* plausible mistakes, kept to show that a property would catch them.      *)
(***************************************************************************)

Goto(c, stage) == pc' = [pc EXCEPT ![c] = stage]

Or(value, default) == IF value = None THEN default ELSE value

deriveOvernight(start, end) == end <= start

\* @@unique([companyId, name])
Taken(name, others) == \E s \in others : shifts[s] # None /\ shifts[s].name = name

FirstStage(r) ==
    CASE r.op = "create"              -> "findName"
      [] r.op \in {"amend", "clear"}  -> "findAssignment"
      [] OTHER                        -> "readShift"

Arrive(c, r) ==
    /\ pc[c] = "idle"
    /\ Goto(c, FirstStage(r))
    /\ request' = [request EXCEPT ![c] = r]
    /\ UNCHANGED <<tables, read, found>>

\* create: shift.findFirst by name
FindName(c) ==
    /\ pc[c] = "findName"
    /\ Goto(c, IF Taken(request[c].body.name, ShiftIds) THEN "badRequest" ELSE "createShift")
    /\ UNCHANGED <<tables, request, read, found>>

NewShiftAsSent(draft) == draft
NewShift(draft) ==
    [name |-> draft.name, start |-> draft.start, end |-> draft.end,
     overnight |-> Or(draft.overnight, deriveOvernight(draft.start, draft.end))]

\* What the table accepts of a name written to row s.
NameAcceptedAsRead(s, name) == TRUE
NameAccepted(s, name) == ~Taken(name, ShiftIds \ {s})

\* shift.create
CreateShift(c) ==
    /\ pc[c] = "createShift"
    /\ LET draft == request[c].body
       IN  IF NameAccepted(c, draft.name)
           THEN /\ shifts' = [shifts EXCEPT ![c] = NewShift(draft)]
                /\ Goto(c, "answered")
           ELSE /\ Goto(c, "failed")
                /\ UNCHANGED shifts
    /\ UNCHANGED <<employees, assignments, request, read, found>>

\* Where assertOwnedShift leads when the shift, read as row, is there.
AfterRead(r, row) ==
    CASE r.op = "update" -> IF r.body.name \notin {None, row.name} THEN "findClash"
                                                                  ELSE "writeShift"
      [] r.op = "remove" -> "deleteShift"
      [] r.op = "assign" -> "findEmployees"
      [] r.op = "amend"  -> "amendAssignment"

\* assertOwnedShift
ReadShift(c) ==
    /\ pc[c] = "readShift"
    /\ LET row == shifts[request[c].shift]
       IN  IF row = None
           THEN Goto(c, "notFound") /\ UNCHANGED read
           ELSE Goto(c, AfterRead(request[c], row)) /\ read' = [read EXCEPT ![c] = row]
    /\ UNCHANGED <<tables, request, found>>

\* update: shift.findFirst by the new name
FindClash(c) ==
    /\ pc[c] = "findClash"
    /\ Goto(c, IF Taken(request[c].body.name, ShiftIds \ {request[c].shift})
               THEN "badRequest" ELSE "writeShift")
    /\ UNCHANGED <<tables, request, read, found>>

\* isOvernight, from the body and the row that was read.
OvernightKept(patch, old) == Or(patch.overnight, old.overnight)
Overnight(patch, old) ==
    Or(patch.overnight,
       IF patch.start # None \/ patch.end # None
       THEN deriveOvernight(Or(patch.start, old.start), Or(patch.end, old.end))
       ELSE old.overnight)

\* The row update leaves: the fields of the body and isOvernight are written,
\* the others keep what the row holds by then.
Updated(row, patch, old) ==
    [name |-> Or(patch.name, row.name), start |-> Or(patch.start, row.start),
     end |-> Or(patch.end, row.end), overnight |-> Overnight(patch, old)]

\* shift.update
WriteShift(c) ==
    /\ pc[c] = "writeShift"
    /\ LET s == request[c].shift
           patch == request[c].body
       IN  IF shifts[s] # None /\ (patch.name # None => NameAccepted(s, patch.name))
           THEN /\ shifts' = [shifts EXCEPT ![s] = Updated(shifts[s], patch, read[c])]
                /\ Goto(c, "answered")
           ELSE /\ Goto(c, "failed")
                /\ UNCHANGED shifts
    /\ UNCHANGED <<employees, assignments, request, read, found>>

\* ScheduleAssignment.shift and .employee: onDelete Cascade.
WithoutAny(slots) == assignments
Without(slots) == [k \in Slots |-> IF k \in slots THEN None ELSE assignments[k]]

OfShift(s) == {k \in Slots : assignments[k] # None /\ assignments[k].shift = s}
OfEmployee(e) == {e} \X Dates

\* shift.delete
DeleteShift(c) ==
    /\ pc[c] = "deleteShift"
    /\ LET s == request[c].shift
       IN  IF shifts[s] # None
           THEN /\ shifts' = [shifts EXCEPT ![s] = None]
                /\ assignments' = Without(OfShift(s))
                /\ Goto(c, "answered")
           ELSE /\ Goto(c, "failed")
                /\ UNCHANGED <<shifts, assignments>>
    /\ UNCHANGED <<employees, request, read, found>>

\* expandRange
expandRange(r) == {d \in Dates : r.from <= d /\ d <= r.to}
RangeAccepted(r) == r.from <= r.to /\ r.to - r.from + 1 <= MaxRange

\* assign: employee.findMany, and the checks on what it returns and on the range
FindEmployees(c) ==
    /\ pc[c] = "findEmployees"
    /\ Goto(c, IF request[c].staff \subseteq employees /\ RangeAccepted(request[c])
               THEN "assignAll" ELSE "badRequest")
    /\ UNCHANGED <<tables, request, read, found>>

\* scheduleAssignment.upsert of one row by call c
UpsertedAnew(c, row) == [shift |-> request[c].shift, status |-> "SCHEDULED", id |-> c]
Upserted(c, row) ==
    IF row = None
    THEN [shift |-> request[c].shift, status |-> "SCHEDULED", id |-> c]
    ELSE [row EXCEPT !.shift = request[c].shift, !.status = "SCHEDULED"]

\* The foreign keys of the rows written.
ReferencesSeen(c) == TRUE
ReferencesHold(c) ==
    shifts[request[c].shift] # None /\ request[c].staff \subseteq employees

AssignAll(c) ==
    /\ pc[c] = "assignAll"
    /\ LET slots == request[c].staff \X expandRange(request[c])
       IN  IF ReferencesHold(c)
           THEN /\ assignments' = [k \in Slots |-> IF k \in slots
                                                   THEN Upserted(c, assignments[k])
                                                   ELSE assignments[k]]
                /\ Goto(c, "answered")
           ELSE /\ Goto(c, "failed")
                /\ UNCHANGED assignments
    /\ UNCHANGED <<employees, shifts, request, read, found>>

\* scheduleAssignment.findFirst by id; the client names the row of a slot.
FindAssignment(c) ==
    /\ pc[c] = "findAssignment"
    /\ LET r == request[c]
           row == assignments[r.slot]
       IN  IF row = None
           THEN Goto(c, "notFound") /\ UNCHANGED found
           ELSE /\ Goto(c, CASE r.op = "clear"  -> "clearAssignment"
                             [] r.op = "amend" -> IF r.shift = None THEN "amendAssignment"
                                                                    ELSE "readShift")
                /\ found' = [found EXCEPT ![c] = row.id]
    /\ UNCHANGED <<tables, request, read>>

\* where: { id }
SameSlot(c) == assignments[request[c].slot] # None
SameRow(c) == /\ assignments[request[c].slot] # None
              /\ assignments[request[c].slot].id = found[c]

Amended(row, r) == [row EXCEPT !.shift = Or(r.shift, @), !.status = Or(r.status, @)]

\* scheduleAssignment.update
AmendAssignment(c) ==
    /\ pc[c] = "amendAssignment"
    /\ LET r == request[c]
       IN  IF SameRow(c) /\ (r.shift # None => shifts[r.shift] # None)
           THEN /\ assignments' = [assignments EXCEPT ![r.slot] = Amended(@, r)]
                /\ Goto(c, "answered")
           ELSE /\ Goto(c, "failed")
                /\ UNCHANGED assignments
    /\ UNCHANGED <<employees, shifts, request, read, found>>

\* scheduleAssignment.delete
ClearAssignment(c) ==
    /\ pc[c] = "clearAssignment"
    /\ IF SameRow(c)
       THEN /\ assignments' = [assignments EXCEPT ![request[c].slot] = None]
            /\ Goto(c, "answered")
       ELSE /\ Goto(c, "failed")
            /\ UNCHANGED assignments
    /\ UNCHANGED <<employees, shifts, request, read, found>>

\* The pending statement rejects (a transaction may be chosen to break a
\* deadlock) or the process dies: what was committed stays.
Lose(c) ==
    /\ pc[c] \in InFlight
    /\ Goto(c, "lost")
    /\ UNCHANGED <<tables, request, read, found>>

\* DELETE /employees/:id (EmployeesService.remove)
DeleteEmployee(e) ==
    /\ e \in employees
    /\ employees' = employees \ {e}
    /\ assignments' = Without(OfEmployee(e))
    /\ UNCHANGED <<shifts, pc, request, read, found>>

CallStep(c) ==
    \/ \E r \in Inputs : Arrive(c, r)
    \/ FindName(c)       \/ CreateShift(c)
    \/ ReadShift(c)      \/ FindClash(c)       \/ WriteShift(c)   \/ DeleteShift(c)
    \/ FindEmployees(c)  \/ AssignAll(c)
    \/ FindAssignment(c) \/ AmendAssignment(c) \/ ClearAssignment(c)
    \/ Lose(c)

Next ==
    \/ \E c \in Calls : CallStep(c)
    \/ \E e \in Employees : DeleteEmployee(e)

Spec == Init /\ [][Next]_vars

-----------------------------------------------------------------------------

\* Two shifts never share a name, although a name is checked in one statement
\* and written in another (lines 71-76, 106-111).
NamesUnique ==
    \A s, t \in ShiftIds :
        (shifts[s] # None /\ shifts[t] # None /\ shifts[s].name = shifts[t].name) => s = t

\* Whatever is deleted while a call is planning, every assignment is of an
\* employee and a shift that exist (lines 145-172, 203-216).
AssignmentsReferToRows ==
    \A k \in Slots :
        assignments[k] # None => k[1] \in employees /\ shifts[assignments[k].shift] # None

\* Action property: an update or a removal reaches the row it found or none: a
\* row removed and planned anew between its two statements is out of its reach
\* (lines 204-211, 219-224).
StaleCallsMissNewRows ==
    [][\A c \in Calls, k \in Slots :
           (/\ pc[c] \in {"amendAssignment", "clearAssignment"}
            /\ pc'[c] = "answered"
            /\ assignments'[k] # assignments[k]) =>
                 k = request[c].slot /\ assignments[k].id = found[c]]_vars

\* Action property: planning what is planned already changes nothing, not even
\* the identity of the rows ("a single idempotent call", lines 142-143).
ReplanningChangesNothing ==
    [][\A c \in Calls :
           (/\ pc[c] = "assignAll"
            /\ pc'[c] = "answered"
            /\ \A k \in request[c].staff \X expandRange(request[c]) :
                  /\ assignments[k] # None
                  /\ assignments[k].shift = request[c].shift
                  /\ assignments[k].status = "SCHEDULED")
                => assignments' = assignments]_vars

Derived(row) == row.overnight = deriveOvernight(row.start, row.end)

\* Action property: an update that pins nothing leaves isOvernight what its times
\* say, when it did before and no other call wrote the row since it was read
\* (lines 113-126).
QuietUpdateDerives ==
    [][\A c \in Calls :
           LET r == request[c]
           IN  (/\ pc[c] = "writeShift"
                /\ pc'[c] = "answered"
                /\ r.body.overnight = None
                /\ shifts[r.shift] = read[c]
                /\ Derived(read[c])) => Derived(shifts'[r.shift])]_vars

\* The tables as the rest of the system sees them.
Entry(row) == IF row = None THEN None ELSE [shift |-> row.shift, status |-> row.status]
R == INSTANCE Roster WITH
         staff <- employees,
         offered <- {s \in ShiftIds : shifts[s] # None},
         roster <- [k \in Slots |-> Entry(assignments[k])]
ImplementsRoster == R!RosterSpec

\* "Re-derive overnight when times change, unless the caller pinned it" (line
\* 120): when no request pins it, isOvernight is what the times say. Two updates
\* that overlap refute it.
OvernightIsDerived ==
    (\A r \in Inputs : r.op \in {"create", "update"} => r.body.overnight = None) =>
        \A s \in ShiftIds : shifts[s] # None => Derived(shifts[s])
=============================================================================
