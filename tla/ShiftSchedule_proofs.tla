------------------------ MODULE ShiftSchedule_proofs ------------------------
(***************************************************************************)
(* Proofs about ShiftSchedule, for any employees, shifts, calls and        *)
(* requests. The tables' promises rest on their constraints; what the      *)
(* proofs need of the calls is that each one's place fits its request,     *)
(* and that it has read a shift before it writes from one.                 *)
(***************************************************************************)
EXTENDS ShiftSchedule, TLAPS

Stages == {"idle"} \cup InFlight \cup Over

\* The requests a call at a stage may be carrying.
CarriedAt(stage) ==
    CASE stage \in {"findName", "createShift"}        -> {"create"}
      [] stage \in {"findClash", "writeShift"}        -> {"update"}
      [] stage = "deleteShift"                        -> {"remove"}
      [] stage \in {"findEmployees", "assignAll"}     -> {"assign"}
      [] stage = "readShift"                          -> {"update", "remove", "assign", "amend"}
      [] stage = "findAssignment"                     -> {"amend", "clear"}
      [] stage = "amendAssignment"                    -> {"amend"}
      [] stage = "clearAssignment"                    -> {"clear"}

CallOK(c) ==
    /\ pc[c] \in InFlight => /\ request[c] \in Requests
                             /\ request[c].op \in CarriedAt(pc[c])
    /\ pc[c] = "readShift" => request[c].shift # None
    /\ pc[c] \in {"findClash", "writeShift"} => read[c] # None

TypeInv == TypeOK /\ \A c \in Calls : CallOK(c)

\* What a request of each kind carries.
LEMMA RequestFields ==
  ASSUME NEW r \in Requests
  PROVE  /\ r.op \in {"create", "update", "remove", "assign", "amend", "clear"}
         /\ r.op = "create" => r.body \in Drafts
         /\ r.op = "update" => r.shift \in ShiftIds /\ r.body \in Patches
         /\ r.op = "remove" => r.shift \in ShiftIds
         /\ r.op = "assign" => /\ r.shift \in ShiftIds
                               /\ r.staff \subseteq Employees
         /\ r.op = "amend" => /\ r.slot \in Slots
                              /\ r.shift \in ShiftIds \cup {None}
                              /\ r.status \in Statuses \cup {None}
         /\ r.op = "clear" => r.slot \in Slots
  BY DEF Requests

\* isOvernight is a Boolean, pinned or derived.
LEMMA OvernightType ==
  ASSUME NEW pin \in BOOLEAN \cup {None}, NEW default \in BOOLEAN
  PROVE  Or(pin, default) \in BOOLEAN
<1>1. CASE pin = None
  BY <1>1, Zenon DEF Or
<1>2. CASE pin # None
  BY <1>2, Zenon DEF Or
<1>3. QED
  BY <1>1, <1>2

LEMMA DerivedType ==
  ASSUME NEW start, NEW end
  PROVE  deriveOvernight(start, end) \in BOOLEAN
  BY DEF deriveOvernight

\* A draft completed with isOvernight is a row.
LEMMA NewShiftIsShift ==
  ASSUME NEW draft \in Drafts
  PROVE  NewShift(draft) \in Shift
<1> DEFINE o == Or(draft.overnight, deriveOvernight(draft.start, draft.end))
<1>1. o \in BOOLEAN
  BY DerivedType, OvernightType DEF Drafts
<1>2. NewShift(draft) = [name |-> draft.name, start |-> draft.start, end |-> draft.end, overnight |-> o]
  BY DEF NewShift
<1> HIDE DEF o
<1>3. QED
  BY <1>1, <1>2 DEF Drafts, Shift

\* A row updated from a body and a row read earlier is a row.
LEMMA UpdatedIsShift ==
  ASSUME NEW row \in Shift, NEW old \in Shift, NEW patch \in Patches
  PROVE  Updated(row, patch, old) \in Shift
<1> DEFINE d == IF patch.start # None \/ patch.end # None
                THEN deriveOvernight(Or(patch.start, old.start), Or(patch.end, old.end))
                ELSE old.overnight
           o == Or(patch.overnight, d)
<1>1. d \in BOOLEAN
  <2>1. CASE patch.start # None \/ patch.end # None
    BY <2>1, DerivedType, Zenon
  <2>2. CASE ~(patch.start # None \/ patch.end # None)
    <3>1. d = old.overnight
      BY <2>2, Zenon
    <3>2. QED
      BY <3>1, Zenon DEF Shift
  <2>3. QED
    BY <2>1, <2>2
<1>2. patch.overnight \in BOOLEAN \cup {None}
  BY DEF Patches
<1> HIDE DEF d
<1>3. o \in BOOLEAN
  BY <1>1, <1>2, OvernightType
<1>4. Updated(row, patch, old) =
          [name |-> Or(patch.name, row.name), start |-> Or(patch.start, row.start),
           end |-> Or(patch.end, row.end), overnight |-> o]
  BY Zenon DEF Updated, Overnight, d
<1> HIDE DEF o
<1>5. QED
  BY <1>3, <1>4 DEF Patches, Shift, Or

-----------------------------------------------------------------------------

\* The variables keep their types, and a call's place fits its request.
LEMMA TypeInvariant == Spec => []TypeInv
<1>1. Init => TypeInv
  BY DomainAssumption DEF Init, TypeInv, TypeOK, CallOK, InFlight, Over, Assignment, Slots,
                          ShiftIds, Statuses
<1>2. TypeInv /\ [Next]_vars => TypeInv'
  <2> SUFFICES ASSUME TypeInv, [Next]_vars
               PROVE  TypeInv'
    OBVIOUS
  <2> USE DEF TypeInv, TypeOK, Goto
  <2>1. ASSUME NEW c \in Calls, NEW r \in Inputs, Arrive(c, r)
        PROVE  TypeInv'
    <3>1. r \in Requests
      BY DomainAssumption
    <3>2. r.op \in {"create", "update", "remove", "assign", "amend", "clear"}
      BY <3>1, RequestFields
    <3>3. FirstStage(r) \in InFlight /\ r.op \in CarriedAt(FirstStage(r))
      BY <3>2 DEF FirstStage, InFlight, CarriedAt
    <3>4. FirstStage(r) = "readShift" => r.op \in {"update", "remove", "assign"}
      BY <3>2 DEF FirstStage
    <3>5. r.op \in {"update", "remove", "assign"} => r.shift # None
      BY <3>1, RequestFields, DomainAssumption
    <3>6. FirstStage(r) \notin {"findClash", "writeShift"}
      BY <3>2 DEF FirstStage
    <3>7. QED
      BY <2>1, <3>1, <3>3, <3>4, <3>5, <3>6 DEF Arrive, CallOK, tables
  <2>2. ASSUME NEW c \in Calls, FindName(c)
        PROVE  TypeInv'
    BY <2>2 DEF FindName, CallOK, CarriedAt, InFlight, Over, tables
  <2>3. ASSUME NEW c \in Calls, CreateShift(c)
        PROVE  TypeInv'
    <3>1. request[c].body \in Drafts
      BY <2>3, RequestFields DEF CreateShift, CallOK, CarriedAt, InFlight
    <3>2. NewShift(request[c].body) \in Shift
      BY <3>1, NewShiftIsShift
    <3>3. QED
      BY <2>3, <3>2 DEF CreateShift, CallOK, InFlight, Over, ShiftIds
  <2>4. ASSUME NEW c \in Calls, ReadShift(c)
        PROVE  TypeInv'
    <3>1. /\ request[c] \in Requests
          /\ request[c].op \in {"update", "remove", "assign", "amend"}
          /\ request[c].shift \in ShiftIds
      BY <2>4, RequestFields DEF ReadShift, CallOK, CarriedAt, InFlight
    <3> DEFINE row == shifts[request[c].shift]
               next == AfterRead(request[c], row)
    <3>2. row \in Shift \cup {None}
      BY <3>1
    <3>3. next \in InFlight /\ request[c].op \in CarriedAt(next) /\ next # "readShift"
      BY <3>1 DEF AfterRead, InFlight, CarriedAt
    <3>4. CASE row = None
      BY <2>4, <3>4 DEF ReadShift, CallOK, Over, InFlight, tables
    <3>5. CASE row # None
      <4> HIDE DEF next
      <4>1. /\ pc' = [pc EXCEPT ![c] = next]
            /\ read' = [read EXCEPT ![c] = row]
            /\ UNCHANGED <<employees, shifts, assignments, request, found>>
        BY <2>4, <3>5 DEF ReadShift, next, tables
      <4>2. QED
        BY <3>1, <3>2, <3>3, <3>5, <4>1 DEF CallOK
    <3>6. QED
      BY <3>4, <3>5
  <2>5. ASSUME NEW c \in Calls, FindClash(c)
        PROVE  TypeInv'
    BY <2>5 DEF FindClash, CallOK, CarriedAt, InFlight, Over, tables
  <2>6. ASSUME NEW c \in Calls, WriteShift(c)
        PROVE  TypeInv'
    <3>1. request[c].body \in Patches /\ request[c].shift \in ShiftIds
      BY <2>6, RequestFields DEF WriteShift, CallOK, CarriedAt, InFlight
    <3>2. read[c] \in Shift
      BY <2>6 DEF WriteShift, CallOK
    <3>3. \A row \in Shift : Updated(row, request[c].body, read[c]) \in Shift
      BY <3>1, <3>2, UpdatedIsShift
    <3>4. QED
      BY <2>6, <3>1, <3>3 DEF WriteShift, CallOK, InFlight, Over
  <2>7. ASSUME NEW c \in Calls, DeleteShift(c)
        PROVE  TypeInv'
    BY <2>7 DEF DeleteShift, Without, CallOK, InFlight, Over
  <2>8. ASSUME NEW c \in Calls, FindEmployees(c)
        PROVE  TypeInv'
    BY <2>8 DEF FindEmployees, CallOK, CarriedAt, InFlight, Over, tables
  <2>9. ASSUME NEW c \in Calls, AssignAll(c)
        PROVE  TypeInv'
    <3>1. request[c].shift \in ShiftIds
      BY <2>9, RequestFields DEF AssignAll, CallOK, CarriedAt, InFlight
    <3>2. \A row \in Assignment \cup {None} : Upserted(c, row) \in Assignment
      BY <3>1 DEF Upserted, Assignment, Statuses
    <3>3. QED
      BY <2>9, <3>2 DEF AssignAll, CallOK, InFlight, Over
  <2>10. ASSUME NEW c \in Calls, FindAssignment(c)
         PROVE  TypeInv'
    <3>1. /\ request[c] \in Requests
          /\ request[c].op \in {"amend", "clear"}
          /\ request[c].slot \in Slots
      BY <2>10, RequestFields DEF FindAssignment, CallOK, CarriedAt, InFlight
    <3>2. assignments[request[c].slot] # None => assignments[request[c].slot].id \in Calls \cup {None}
      BY <3>1 DEF Assignment
    <3>3. QED
      BY <2>10, <3>1, <3>2 DEF FindAssignment, CallOK, CarriedAt, InFlight, Over, tables
  <2>11. ASSUME NEW c \in Calls, AmendAssignment(c)
         PROVE  TypeInv'
    <3>1. /\ request[c].slot \in Slots
          /\ request[c].shift \in ShiftIds \cup {None}
          /\ request[c].status \in Statuses \cup {None}
      BY <2>11, RequestFields DEF AmendAssignment, CallOK, CarriedAt, InFlight
    <3>2. ASSUME NEW row \in Assignment
          PROVE  Amended(row, request[c]) \in Assignment
      BY <3>1 DEF Amended, Assignment, Or
    <3>3. QED
      BY <2>11, <3>1, <3>2 DEF AmendAssignment, SameRow, CallOK, InFlight, Over
  <2>12. ASSUME NEW c \in Calls, ClearAssignment(c)
         PROVE  TypeInv'
    BY <2>12 DEF ClearAssignment, CallOK, InFlight, Over
  <2>13. ASSUME NEW c \in Calls, Lose(c)
         PROVE  TypeInv'
    BY <2>13 DEF Lose, CallOK, InFlight, Over, tables
  <2>14. ASSUME NEW e \in Employees, DeleteEmployee(e)
         PROVE  TypeInv'
    BY <2>14 DEF DeleteEmployee, Without, CallOK
  <2>15. CASE UNCHANGED vars
    BY <2>15 DEF vars, tables, CallOK
  <2>16. QED
    BY <2>1, <2>2, <2>3, <2>4, <2>5, <2>6, <2>7, <2>8, <2>9, <2>10, <2>11, <2>12, <2>13,
       <2>14, <2>15 DEF Next, CallStep
<1>3. QED
  BY <1>1, <1>2, PTL DEF Spec

\* Type correctness.
THEOREM ScheduleTypeCorrect == Spec => []TypeOK
  BY TypeInvariant, PTL DEF TypeInv

-----------------------------------------------------------------------------

\* The schedule at the start is of employees and shifts that exist.
LEMMA InitRefers == Init => AssignmentsReferToRows
<1> SUFFICES ASSUME Init, NEW k \in Slots, assignments[k] # None
             PROVE  k[1] \in employees /\ shifts[assignments[k].shift] # None
  BY DEF AssignmentsReferToRows
<1>1. PICK s \in Shifts : assignments[k].shift = s
  BY DEF Init
<1>2. Existing[s] # None /\ s \in ShiftIds
  BY DomainAssumption DEF ShiftIds
<1>3. QED
  BY <1>1, <1>2 DEF Init, Slots

\* Every assignment is of an employee and a shift that exist.
THEOREM ReferencesCorrect == Spec => []AssignmentsReferToRows
<1>1. Init => AssignmentsReferToRows
  BY InitRefers
<1>2. TypeInv /\ AssignmentsReferToRows /\ [Next]_vars => AssignmentsReferToRows'
  <2> SUFFICES ASSUME TypeInv, AssignmentsReferToRows, [Next]_vars
               PROVE  AssignmentsReferToRows'
    OBVIOUS
  <2> USE DEF AssignmentsReferToRows
  <2>0. TypeOK /\ \A c \in Calls : CallOK(c)
    BY DEF TypeInv
  <2>1. ASSUME NEW c \in Calls, CreateShift(c)
        PROVE  AssignmentsReferToRows'
    <3>1. NewShift(request[c].body) # None
      BY <2>0, <2>1, RequestFields, NewShiftIsShift, DomainAssumption
         DEF CreateShift, CallOK, CarriedAt, InFlight
    <3>2. c \in ShiftIds
      BY DEF ShiftIds
    <3>3. \A s \in ShiftIds : shifts[s] # None => shifts'[s] # None
      BY <2>0, <2>1, <3>1, <3>2 DEF CreateShift, TypeOK
    <3>4. QED
      BY <2>0, <2>1, <3>3 DEF CreateShift, TypeOK, Assignment
  <2>2. ASSUME NEW c \in Calls, WriteShift(c)
        PROVE  AssignmentsReferToRows'
    <3>1. /\ request[c].body \in Patches
          /\ request[c].shift \in ShiftIds
          /\ read[c] \in Shift
      BY <2>0, <2>2, RequestFields DEF WriteShift, CallOK, CarriedAt, InFlight, TypeOK
    <3>2. \A row \in Shift : Updated(row, request[c].body, read[c]) # None
      BY <3>1, UpdatedIsShift, DomainAssumption
    <3>3. \A s \in ShiftIds : shifts[s] # None => shifts'[s] # None
      BY <2>0, <2>2, <3>1, <3>2 DEF WriteShift, TypeOK
    <3>4. QED
      BY <2>0, <2>2, <3>3 DEF WriteShift, TypeOK, Assignment
  <2>3. ASSUME NEW c \in Calls, DeleteShift(c)
        PROVE  AssignmentsReferToRows'
    <3>1. request[c].shift \in ShiftIds
      BY <2>0, <2>3, RequestFields DEF DeleteShift, CallOK, CarriedAt, InFlight
    <3>2. QED
      BY <2>0, <2>3, <3>1 DEF DeleteShift, Without, OfShift, TypeOK, Assignment
  <2>4. ASSUME NEW c \in Calls, AssignAll(c)
        PROVE  AssignmentsReferToRows'
    <3>1. /\ request[c].shift \in ShiftIds
          /\ request[c].staff \subseteq Employees
      BY <2>0, <2>4, RequestFields DEF AssignAll, CallOK, CarriedAt, InFlight
    <3>2. \A row \in Assignment \cup {None} : Upserted(c, row).shift = request[c].shift
      BY DEF Upserted, Assignment
    <3>3. \A k \in request[c].staff \X expandRange(request[c]) : k[1] \in request[c].staff
      OBVIOUS
    <3>4. QED
      BY <2>0, <2>4, <3>1, <3>2, <3>3 DEF AssignAll, ReferencesHold, TypeOK
  <2>5. ASSUME NEW c \in Calls, AmendAssignment(c)
        PROVE  AssignmentsReferToRows'
    <3>1. /\ request[c].slot \in Slots
          /\ request[c].shift \in ShiftIds \cup {None}
      BY <2>0, <2>5, RequestFields DEF AmendAssignment, CallOK, CarriedAt, InFlight
    <3>2. ASSUME NEW row \in Assignment
          PROVE  Amended(row, request[c]).shift = Or(request[c].shift, row.shift)
      BY DEF Amended, Assignment
    <3>3. QED
      BY <2>0, <2>5, <3>1, <3>2 DEF AmendAssignment, SameRow, TypeOK, Or
  <2>6. ASSUME NEW c \in Calls, ClearAssignment(c)
        PROVE  AssignmentsReferToRows'
    BY <2>0, <2>6 DEF ClearAssignment, TypeOK
  <2>7. ASSUME NEW e \in Employees, DeleteEmployee(e)
        PROVE  AssignmentsReferToRows'
    BY <2>0, <2>7 DEF DeleteEmployee, Without, OfEmployee, Slots, TypeOK
  <2>8. CASE UNCHANGED tables
    BY <2>8 DEF tables
  <2>9. QED
    BY <2>1, <2>2, <2>3, <2>4, <2>5, <2>6, <2>7, <2>8
       DEF Next, CallStep, Arrive, FindName, ReadShift, FindClash, FindEmployees,
           FindAssignment, Lose, vars
<1>3. QED
  BY <1>1, <1>2, TypeInvariant, PTL DEF Spec

\* Names stay unique.
THEOREM NamesStayUnique == Spec => []NamesUnique
<1>1. Init => NamesUnique
  BY DomainAssumption DEF Init, NamesUnique, ShiftIds
<1>2. TypeInv /\ NamesUnique /\ [Next]_vars => NamesUnique'
  <2> SUFFICES ASSUME TypeInv, NamesUnique, [Next]_vars
               PROVE  NamesUnique'
    OBVIOUS
  <2>0. TypeOK /\ \A c \in Calls : CallOK(c)
    BY DEF TypeInv
  <2>1. ASSUME NEW c \in Calls, CreateShift(c)
        PROVE  NamesUnique'
    <3>1. c \in ShiftIds
      BY DEF ShiftIds
    <3>2. NewShift(request[c].body).name = request[c].body.name
      BY DEF NewShift
    <3>3. QED
      BY <2>0, <2>1, <3>1, <3>2 DEF CreateShift, NameAccepted, Taken, NamesUnique, TypeOK
  <2>2. ASSUME NEW c \in Calls, WriteShift(c)
        PROVE  NamesUnique'
    <3>1. request[c].shift \in ShiftIds
      BY <2>0, <2>2, RequestFields DEF WriteShift, CallOK, CarriedAt, InFlight
    <3>2. \A row : Updated(row, request[c].body, read[c]).name = Or(request[c].body.name, row.name)
      BY DEF Updated
    <3>3. QED
      BY <2>0, <2>2, <3>1, <3>2 DEF WriteShift, NameAccepted, Taken, NamesUnique, TypeOK, Or
  <2>3. ASSUME NEW c \in Calls, DeleteShift(c)
        PROVE  NamesUnique'
    BY <2>0, <2>3 DEF DeleteShift, NamesUnique, TypeOK
  <2>4. CASE UNCHANGED shifts
    BY <2>4 DEF NamesUnique
  <2>5. QED
    BY <2>1, <2>2, <2>3, <2>4
       DEF Next, CallStep, Arrive, FindName, ReadShift, FindClash, FindEmployees, AssignAll,
           FindAssignment, AmendAssignment, ClearAssignment, Lose, DeleteEmployee, tables, vars
<1>3. QED
  BY <1>1, <1>2, TypeInvariant, PTL DEF Spec

-----------------------------------------------------------------------------

\* The entry of a row.
LEMMA EntryOfRow ==
  ASSUME NEW row \in Assignment
  PROVE  /\ Entry(row) = [shift |-> row.shift, status |-> row.status]
         /\ Entry(row) # None
         /\ row # None
<1>1. row # None
  BY DomainAssumption
<1>2. Entry(row) = [shift |-> row.shift, status |-> row.status]
  BY <1>1 DEF Entry
<1>3. [shift |-> row.shift, status |-> row.status] # None
  BY DomainAssumption DEF Assignment, Entries
<1>4. QED
  BY <1>1, <1>2, <1>3

\* The service implements the roster: whatever races it, every step enters a
\* plan as a whole, changes or clears one entry, or follows a row that is gone.
THEOREM RosterImplemented == Spec => ImplementsRoster
<1>1. Init => R!RosterInit
  <2> SUFFICES ASSUME Init, AssignmentsReferToRows
               PROVE  R!RosterInit
    BY InitRefers
  <2>1. \A k \in Slots : assignments[k] # None => assignments[k].shift \in ShiftIds
    BY DEF Init, ShiftIds
  <2>2. \A k \in Slots : Entry(assignments[k]) # None =>
            /\ assignments[k] # None
            /\ Entry(assignments[k]).shift = assignments[k].shift
    BY DEF Entry
  <2>3. QED
    BY <2>1, <2>2 DEF R!RosterInit, R!Consistent, AssignmentsReferToRows
<1>2. ASSUME TypeInv, AssignmentsReferToRows, [Next]_vars
      PROVE  [R!RosterNext]_(R!rosterVars)
  <2> DEFINE Ros == [k \in Slots |-> Entry(assignments[k])]
             Off == {s \in ShiftIds : shifts[s] # None}
             Same == UNCHANGED <<employees, Off, Ros>>
  <2>0. TypeOK /\ \A c \in Calls : CallOK(c)
    BY <1>2 DEF TypeInv
  <2>1. Same => UNCHANGED R!rosterVars
    BY DEF R!rosterVars
  <2>2. ASSUME NEW c \in Calls, CreateShift(c)
        PROVE  Same \/ R!RosterNext
    <3>1. CASE shifts' = shifts
      BY <2>2, <3>1 DEF CreateShift
    <3>2. CASE shifts' # shifts
      <4>1. NewShift(request[c].body) # None
        BY <2>0, <2>2, RequestFields, NewShiftIsShift, DomainAssumption
           DEF CreateShift, CallOK, CarriedAt, InFlight
      <4>2. shifts' = [shifts EXCEPT ![c] = NewShift(request[c].body)]
        BY <2>2, <3>2 DEF CreateShift
      <4>3. c \in ShiftIds
        BY DEF ShiftIds
      <4>4. Off' = Off \cup {c}
        BY <2>0, <4>1, <4>2, <4>3 DEF TypeOK
      <4>5. employees' = employees /\ Ros' = Ros
        BY <2>2 DEF CreateShift
      <4>6. R!Offer(c)
        BY <4>4, <4>5 DEF R!Offer
      <4>7. QED
        BY <4>3, <4>6 DEF R!RosterNext
    <3>3. QED
      BY <3>1, <3>2
  <2>3. ASSUME NEW c \in Calls, WriteShift(c)
        PROVE  Same
    <3>1. /\ request[c].body \in Patches
          /\ request[c].shift \in ShiftIds
          /\ read[c] \in Shift
      BY <2>0, <2>3, RequestFields DEF WriteShift, CallOK, CarriedAt, InFlight, TypeOK
    <3>2. \A row \in Shift : Updated(row, request[c].body, read[c]) # None
      BY <3>1, UpdatedIsShift, DomainAssumption
    <3>3. \A s \in ShiftIds : shifts[s] # None <=> shifts'[s] # None
      BY <2>0, <2>3, <3>1, <3>2 DEF WriteShift, TypeOK
    <3>4. QED
      BY <2>3, <3>3 DEF WriteShift
  <2>4. ASSUME NEW c \in Calls, DeleteShift(c), NEW s \in ShiftIds, s = request[c].shift
        PROVE  Same \/ R!RosterNext
    <3>1. CASE shifts[s] = None
      BY <2>4, <3>1 DEF DeleteShift
    <3>2. CASE shifts[s] # None
      <4>1. /\ shifts' = [shifts EXCEPT ![s] = None]
            /\ assignments' = Without(OfShift(s))
            /\ employees' = employees
        BY <2>4, <3>2 DEF DeleteShift
      <4>2. Off' = Off \ {s}
        BY <2>0, <4>1 DEF TypeOK
      <4>3. ASSUME NEW k \in Slots
            PROVE  Entry(assignments'[k]) =
                       IF Entry(assignments[k]) # None /\ Entry(assignments[k]).shift = s
                       THEN None ELSE Entry(assignments[k])
        BY <2>0, <4>1, EntryOfRow DEF TypeOK, Without, OfShift, Entry
      <4>4. Ros' = [k \in Slots |-> IF Ros[k] # None /\ Ros[k].shift = s THEN None ELSE Ros[k]]
        BY <4>3
      <4>5. R!Withdraw(s)
        BY <4>1, <4>2, <4>4 DEF R!Withdraw
      <4>6. QED
        BY <4>5 DEF R!RosterNext
    <3>3. QED
      BY <3>1, <3>2
  <2>5. ASSUME NEW c \in Calls, AssignAll(c), ReferencesHold(c),
               NEW s \in ShiftIds, s = request[c].shift,
               NEW slots \in SUBSET Slots, slots = request[c].staff \X expandRange(request[c])
        PROVE  R!RosterNext
    <3>1. /\ assignments' = [k \in Slots |-> IF k \in slots THEN Upserted(c, assignments[k])
                                                            ELSE assignments[k]]
          /\ UNCHANGED <<employees, shifts>>
      BY <2>5 DEF AssignAll
    <3>2. s \in Off /\ \A k \in slots : k[1] \in employees
      BY <2>5 DEF ReferencesHold
    <3>3. ASSUME NEW k \in Slots
          PROVE  /\ Upserted(c, assignments[k]) \in Assignment
                 /\ Upserted(c, assignments[k]).shift = s
                 /\ Upserted(c, assignments[k]).status = "SCHEDULED"
      BY <2>0, <2>5 DEF TypeOK, Upserted, Assignment, Statuses
    <3>4. ASSUME NEW k \in Slots
          PROVE  Entry(Upserted(c, assignments[k])) = [shift |-> s, status |-> "SCHEDULED"]
      BY <3>3, EntryOfRow
    <3>5. Ros' = [k \in Slots |-> IF k \in slots THEN [shift |-> s, status |-> "SCHEDULED"]
                                                 ELSE Ros[k]]
      BY <3>1, <3>4
    <3>6. R!Plan(slots, s)
      BY <3>1, <3>2, <3>5 DEF R!Plan
    <3>7. QED
      BY <3>6 DEF R!RosterNext
  <2>6. ASSUME NEW c \in Calls, AmendAssignment(c), assignments' # assignments,
               NEW k \in Slots, k = request[c].slot
        PROVE  R!RosterNext
    <3>1. /\ request[c].shift \in ShiftIds \cup {None}
          /\ request[c].status \in Statuses \cup {None}
      BY <2>0, <2>6, RequestFields DEF AmendAssignment, CallOK, CarriedAt, InFlight
    <3>2. /\ assignments[k] \in Assignment
          /\ request[c].shift # None => shifts[request[c].shift] # None
          /\ assignments' = [assignments EXCEPT ![k] = Amended(assignments[k], request[c])]
          /\ UNCHANGED <<employees, shifts>>
      BY <2>0, <2>6 DEF AmendAssignment, SameRow, TypeOK
    <3>3. PICK s \in ShiftIds, status \in Statuses :
              /\ s = Or(request[c].shift, assignments[k].shift)
              /\ status = Or(request[c].status, assignments[k].status)
      BY <3>1, <3>2 DEF Or, Assignment
    <3>4. /\ Amended(assignments[k], request[c]) \in Assignment
          /\ Amended(assignments[k], request[c]).shift = s
          /\ Amended(assignments[k], request[c]).status = status
      BY <3>2, <3>3 DEF Amended, Assignment
    <3>5. s \in Off
      <4>1. shifts[assignments[k].shift] # None
        BY <1>2, <3>2, EntryOfRow DEF AssignmentsReferToRows
      <4>2. QED
        BY <3>2, <3>3, <4>1 DEF Or
    <3>6. /\ Ros' = [Ros EXCEPT ![k] = [shift |-> s, status |-> status]]
          /\ Ros[k] # None
      BY <2>0, <3>2, <3>4, EntryOfRow DEF TypeOK
    <3>7. R!Amend(k, [shift |-> s, status |-> status])
      BY <3>2, <3>5, <3>6 DEF R!Amend
    <3>8. QED
      BY <3>7 DEF R!RosterNext
  <2>7. ASSUME NEW c \in Calls, ClearAssignment(c), assignments' # assignments,
               NEW k \in Slots, k = request[c].slot
        PROVE  R!RosterNext
    <3>1. /\ assignments' = [assignments EXCEPT ![k] = None]
          /\ UNCHANGED <<employees, shifts>>
      BY <2>7 DEF ClearAssignment
    <3>2. Ros' = [Ros EXCEPT ![k] = None]
      BY <2>0, <3>1 DEF TypeOK, Entry
    <3>3. R!Clear(k)
      BY <3>1, <3>2 DEF R!Clear
    <3>4. QED
      BY <3>3 DEF R!RosterNext
  <2>8. ASSUME NEW e \in Employees, DeleteEmployee(e)
        PROVE  R!RosterNext
    <3>1. /\ e \in employees
          /\ employees' = employees \ {e}
          /\ assignments' = Without(OfEmployee(e))
          /\ shifts' = shifts
      BY <2>8 DEF DeleteEmployee
    <3>2. \A k \in Slots : k \in OfEmployee(e) <=> k[1] = e
      BY DEF Slots, OfEmployee
    <3>3. Ros' = [k \in Slots |-> IF k[1] = e THEN None ELSE Ros[k]]
      BY <3>1, <3>2 DEF Without, Entry
    <3>4. R!Leave(e)
      BY <3>1, <3>3 DEF R!Leave
    <3>5. QED
      BY <3>1, <3>4 DEF R!RosterNext
  <2>9. Same \/ R!RosterNext
    <3>1. CASE \E c \in Calls : CreateShift(c) \/ WriteShift(c)
      BY <2>2, <2>3, <3>1
    <3>2. ASSUME NEW c \in Calls, DeleteShift(c)
          PROVE  Same \/ R!RosterNext
      <4>1. request[c].shift \in ShiftIds
        BY <2>0, <3>2, RequestFields DEF DeleteShift, CallOK, CarriedAt, InFlight
      <4>2. QED
        BY <2>4, <3>2, <4>1
    <3>3. ASSUME NEW c \in Calls, AssignAll(c)
          PROVE  Same \/ R!RosterNext
      <4>1. CASE ~ReferencesHold(c)
        BY <3>3, <4>1 DEF AssignAll
      <4>2. CASE ReferencesHold(c)
        <5>1. /\ request[c].shift \in ShiftIds
              /\ request[c].staff \subseteq Employees
          BY <2>0, <3>3, RequestFields DEF AssignAll, CallOK, CarriedAt, InFlight
        <5>2. request[c].staff \X expandRange(request[c]) \in SUBSET Slots
          BY <5>1 DEF Slots, expandRange
        <5>3. QED
          BY <2>5, <3>3, <4>2, <5>1, <5>2
      <4>3. QED
        BY <4>1, <4>2
    <3>4. ASSUME NEW c \in Calls, AmendAssignment(c)
          PROVE  Same \/ R!RosterNext
      <4>1. request[c].slot \in Slots
        BY <2>0, <3>4, RequestFields DEF AmendAssignment, CallOK, CarriedAt, InFlight
      <4>2. CASE assignments' = assignments
        BY <3>4, <4>2 DEF AmendAssignment
      <4>3. QED
        BY <2>6, <3>4, <4>1, <4>2
    <3>5. ASSUME NEW c \in Calls, ClearAssignment(c)
          PROVE  Same \/ R!RosterNext
      <4>1. request[c].slot \in Slots
        BY <2>0, <3>5, RequestFields DEF ClearAssignment, CallOK, CarriedAt, InFlight
      <4>2. CASE assignments' = assignments
        BY <3>5, <4>2 DEF ClearAssignment
      <4>3. QED
        BY <2>7, <3>5, <4>1, <4>2
    <3>6. CASE UNCHANGED tables
      BY <3>6 DEF tables
    <3>7. QED
      BY <1>2, <2>8, <3>1, <3>2, <3>3, <3>4, <3>5, <3>6
         DEF Next, CallStep, Arrive, FindName, ReadShift, FindClash, FindEmployees,
             FindAssignment, Lose, vars
  <2>10. QED
    BY <2>1, <2>9
<1>3. QED
  BY <1>1, <1>2, TypeInvariant, ReferencesCorrect, PTL
     DEF Spec, ImplementsRoster, R!RosterSpec
-----------------------------------------------------------------------------

\* Only its own steps move a call.
LEMMA Mover ==
  ASSUME TypeOK, [Next]_vars, NEW c \in Calls, pc'[c] # pc[c]
  PROVE  CallStep(c)
<1>1. ASSUME NEW d \in Calls, CallStep(d)
      PROVE  d = c
  <2>1. PICK stage : pc' = [pc EXCEPT ![d] = stage]
    <3>1. CASE \E r \in Inputs : Arrive(d, r)
      BY <3>1 DEF Arrive, Goto
    <3>2. CASE ReadShift(d)
      BY <3>2, Zenon DEF ReadShift, Goto
    <3>3. CASE FindAssignment(d)
      BY <3>3, Zenon DEF FindAssignment, Goto
    <3>4. CASE FindName(d) \/ CreateShift(d) \/ FindClash(d) \/ WriteShift(d) \/ DeleteShift(d)
      BY <3>4, Zenon DEF FindName, CreateShift, FindClash, WriteShift, DeleteShift, Goto
    <3>5. CASE FindEmployees(d) \/ AssignAll(d) \/ AmendAssignment(d) \/ ClearAssignment(d)
               \/ Lose(d)
      BY <3>5, Zenon
         DEF FindEmployees, AssignAll, AmendAssignment, ClearAssignment, Lose, Goto
    <3>6. QED
      BY <1>1, <3>1, <3>2, <3>3, <3>4, <3>5 DEF CallStep
  <2>2. QED
    BY <2>1 DEF TypeOK
<1>2. ~UNCHANGED pc
  OBVIOUS
<1>3. QED
  BY <1>1, <1>2 DEF Next, DeleteEmployee, vars

\* How a call that is about to write the schedule or a shift gets its answer.
LEMMA AnsweredBy ==
  ASSUME TypeOK, [Next]_vars, NEW c \in Calls, pc'[c] = "answered"
  PROVE  /\ pc[c] = "amendAssignment" => AmendAssignment(c)
         /\ pc[c] = "clearAssignment" => ClearAssignment(c)
         /\ pc[c] = "assignAll" => AssignAll(c)
         /\ pc[c] = "writeShift" => WriteShift(c)
<1>1. SUFFICES ASSUME pc[c] \in {"amendAssignment", "clearAssignment", "assignAll", "writeShift"}
               PROVE  \/ AmendAssignment(c) \/ ClearAssignment(c)
                      \/ AssignAll(c) \/ WriteShift(c)
  BY DEF AmendAssignment, ClearAssignment, AssignAll, WriteShift
<1>2. CallStep(c)
  BY <1>1, Mover
<1>3. ~Lose(c)
  BY DEF Lose, Goto, TypeOK
<1>4. QED
  BY <1>1, <1>2, <1>3
     DEF CallStep, Arrive, FindName, CreateShift, ReadShift, FindClash, DeleteShift,
         FindEmployees, FindAssignment

\* A change or a removal of an assignment reaches the row it found, or none.
THEOREM StaleCallsMiss == Spec => StaleCallsMissNewRows
<1>1. ASSUME TypeInv, [Next]_vars, NEW c \in Calls, NEW k \in Slots,
             pc[c] \in {"amendAssignment", "clearAssignment"},
             pc'[c] = "answered",
             assignments'[k] # assignments[k]
      PROVE  k = request[c].slot /\ assignments[k].id = found[c]
  <2>1. TypeOK
    BY <1>1 DEF TypeInv
  <2>2. AmendAssignment(c) \/ ClearAssignment(c)
    BY <1>1, <2>1, AnsweredBy
  <2>3. ASSUME NEW row, assignments' = [assignments EXCEPT ![request[c].slot] = row]
        PROVE  k = request[c].slot
    BY <1>1, <2>1, <2>3 DEF TypeOK
  <2>4. CASE AmendAssignment(c)
    <3>1. SameRow(c) /\ \E row : assignments' = [assignments EXCEPT ![request[c].slot] = row]
      BY <1>1, <2>4, Zenon DEF AmendAssignment
    <3>2. QED
      BY <2>3, <3>1 DEF SameRow
  <2>5. CASE ClearAssignment(c)
    <3>1. SameRow(c) /\ \E row : assignments' = [assignments EXCEPT ![request[c].slot] = row]
      BY <1>1, <2>5, Zenon DEF ClearAssignment
    <3>2. QED
      BY <2>3, <3>1 DEF SameRow
  <2>6. QED
    BY <2>2, <2>4, <2>5
<1>2. TypeInv /\ [Next]_vars =>
        [\A c \in Calls, k \in Slots :
           (/\ pc[c] \in {"amendAssignment", "clearAssignment"}
            /\ pc'[c] = "answered"
            /\ assignments'[k] # assignments[k]) =>
                 k = request[c].slot /\ assignments[k].id = found[c]]_vars
  BY <1>1
<1>3. QED
  BY <1>2, TypeInvariant, PTL DEF Spec, StaleCallsMissNewRows

\* Planning what is planned already changes nothing.
THEOREM ReplanningIdle == Spec => ReplanningChangesNothing
<1>1. ASSUME TypeInv, [Next]_vars, NEW c \in Calls,
             pc[c] = "assignAll",
             pc'[c] = "answered",
             \A k \in request[c].staff \X expandRange(request[c]) :
                /\ assignments[k] # None
                /\ assignments[k].shift = request[c].shift
                /\ assignments[k].status = "SCHEDULED"
      PROVE  assignments' = assignments
  <2>1. TypeOK
    BY <1>1 DEF TypeInv
  <2>2. AssignAll(c)
    BY <1>1, <2>1, AnsweredBy
  <2> DEFINE slots == request[c].staff \X expandRange(request[c])
  <2>3. CASE assignments' = [k \in Slots |-> IF k \in slots THEN Upserted(c, assignments[k])
                                             ELSE assignments[k]]
    <3>1. ASSUME NEW k \in Slots, k \in slots
          PROVE  Upserted(c, assignments[k]) = assignments[k]
      <4>1. assignments[k] \in Assignment /\ assignments[k] # None
        BY <1>1, <2>1, <3>1 DEF TypeOK
      <4>2. assignments[k].shift = request[c].shift /\ assignments[k].status = "SCHEDULED"
        BY <1>1, <3>1
      <4>3. QED
        BY <4>1, <4>2 DEF Upserted, Assignment
    <3> HIDE DEF slots
    <3>2. assignments' = [k \in Slots |-> assignments[k]]
      BY <2>3, <3>1
    <3>3. QED
      BY <2>1, <3>2 DEF TypeOK
  <2>4. CASE UNCHANGED assignments
    BY <2>4
  <2>5. QED
    BY <2>2, <2>3, <2>4, Zenon DEF AssignAll
<1>2. TypeInv /\ [Next]_vars =>
        [\A c \in Calls :
           (/\ pc[c] = "assignAll"
            /\ pc'[c] = "answered"
            /\ \A k \in request[c].staff \X expandRange(request[c]) :
                  /\ assignments[k] # None
                  /\ assignments[k].shift = request[c].shift
                  /\ assignments[k].status = "SCHEDULED")
                => assignments' = assignments]_vars
  BY <1>1
<1>3. QED
  BY <1>2, TypeInvariant, PTL DEF Spec, ReplanningChangesNothing

\* What an update derives is right, when it read what it writes to.
LEMMA QuietlyDerived ==
  ASSUME NEW row \in Shift, NEW patch \in Patches, patch.overnight = None, Derived(row)
  PROVE  Derived(Updated(row, patch, row))
<1> DEFINE start == Or(patch.start, row.start)
           end == Or(patch.end, row.end)
           new == Updated(row, patch, row)
<1>1. new.start = start /\ new.end = end /\ new.overnight = Overnight(patch, row)
  BY DEF Updated
<1>2. Overnight(patch, row) = deriveOvernight(start, end)
  <2>1. CASE patch.start # None \/ patch.end # None
    BY <2>1, Zenon DEF Overnight, Or
  <2>2. CASE patch.start = None /\ patch.end = None
    <3>1. start = row.start /\ end = row.end
      BY <2>2, Zenon DEF Or
    <3>2. Overnight(patch, row) = row.overnight
      BY <2>2, Zenon DEF Overnight, Or
    <3>3. QED
      BY <3>1, <3>2, Zenon DEF Derived
  <2>3. QED
    BY <2>1, <2>2
<1> HIDE DEF start, end, new
<1>3. QED
  BY <1>1, <1>2, Zenon DEF Derived, new

\* An update that nothing disturbed derives isOvernight from the times.
THEOREM QuietUpdatesDerive == Spec => QuietUpdateDerives
<1>1. ASSUME TypeInv, [Next]_vars, NEW c \in Calls,
             pc[c] = "writeShift",
             pc'[c] = "answered",
             request[c].body.overnight = None,
             shifts[request[c].shift] = read[c],
             Derived(read[c])
      PROVE  Derived(shifts'[request[c].shift])
  <2>1. TypeOK /\ CallOK(c)
    BY <1>1 DEF TypeInv
  <2>2. WriteShift(c)
    BY <1>1, <2>1, AnsweredBy
  <2>3. request[c].body \in Patches /\ request[c].shift \in ShiftIds /\ read[c] \in Shift
    BY <1>1, <2>1, RequestFields DEF CallOK, CarriedAt, InFlight, TypeOK
  <2> DEFINE s == request[c].shift
  <2>4. shifts' = [shifts EXCEPT ![s] = Updated(shifts[s], request[c].body, read[c])]
    <3>1. pc' # [pc EXCEPT ![c] = "failed"]
      BY <1>1, <2>1 DEF TypeOK
    <3>2. QED
      BY <2>2, <3>1, Zenon DEF WriteShift, Goto
  <2>5. shifts'[s] = Updated(read[c], request[c].body, read[c])
    BY <1>1, <2>1, <2>3, <2>4 DEF TypeOK
  <2>6. QED
    BY <1>1, <2>3, <2>5, QuietlyDerived
<1>2. TypeInv /\ [Next]_vars =>
        [\A c \in Calls :
           LET r == request[c]
           IN  (/\ pc[c] = "writeShift"
                /\ pc'[c] = "answered"
                /\ r.body.overnight = None
                /\ shifts[r.shift] = read[c]
                /\ Derived(read[c])) => Derived(shifts'[r.shift])]_vars
  BY <1>1
<1>3. QED
  BY <1>2, TypeInvariant, PTL DEF Spec, QuietUpdateDerives

-----------------------------------------------------------------------------

\* The roster alone keeps every entry to an employee and a shift that exist: an
\* entry is made only of those, and goes with either. What it promises the rest
\* of the system therefore holds of anything that implements it.
THEOREM RosterConsistent == R!RosterSpec => []R!Consistent
<1> DEFINE Ros == [k \in Slots |-> Entry(assignments[k])]
           Off == {s \in ShiftIds : shifts[s] # None}
           Cons == \A k \in Slots : Ros[k] # None => k[1] \in employees /\ Ros[k].shift \in Off
<1>0. DOMAIN Ros = Slots
  OBVIOUS
<1>1. Cons => R!Consistent
  BY DEF R!Consistent
<1>2. ASSUME Cons, [R!RosterNext]_(R!rosterVars)
      PROVE  Cons'
  <2>0. Ros = [k \in Slots |-> Ros[k]] /\ Ros' = [k \in Slots |-> Ros'[k]]
    OBVIOUS
  <2>1. ASSUME NEW slots \in SUBSET Slots, NEW s \in ShiftIds, R!Plan(slots, s)
        PROVE  Cons'
    <3>1. /\ s \in Off /\ \A k \in slots : k[1] \in employees
          /\ Ros' = [k \in Slots |-> IF k \in slots THEN [shift |-> s, status |-> "SCHEDULED"]
                                                    ELSE Ros[k]]
          /\ employees' = employees /\ Off' = Off
      BY <2>1 DEF R!Plan
    <3> HIDE DEF Ros, Off
    <3>2. QED
      BY <1>2, <3>1
  <2>2. ASSUME NEW k \in Slots, R!Clear(k)
        PROVE  Cons'
    <3>1. Ros' = [Ros EXCEPT ![k] = None] /\ employees' = employees /\ Off' = Off
      BY <2>2 DEF R!Clear
    <3> HIDE DEF Ros, Off
    <3>2. QED
      BY <1>0, <1>2, <3>1
  <2>3. ASSUME NEW k \in Slots, NEW s \in ShiftIds, NEW status \in Statuses,
               R!Amend(k, [shift |-> s, status |-> status])
        PROVE  Cons'
    <3>1. /\ Ros[k] # None /\ s \in Off
          /\ Ros' = [Ros EXCEPT ![k] = [shift |-> s, status |-> status]]
          /\ employees' = employees /\ Off' = Off
      BY <2>3 DEF R!Amend
    <3> HIDE DEF Ros, Off
    <3>2. QED
      BY <1>0, <1>2, <3>1
  <2>4. ASSUME NEW s \in ShiftIds, R!Offer(s) \/ R!Withdraw(s)
        PROVE  Cons'
    <3>1. \/ Off' = Off \cup {s} /\ Ros' = Ros /\ employees' = employees
          \/ /\ Off' = Off \ {s} /\ employees' = employees
             /\ Ros' = [k \in Slots |-> IF Ros[k] # None /\ Ros[k].shift = s THEN None ELSE Ros[k]]
      BY <2>4 DEF R!Offer, R!Withdraw
    <3> HIDE DEF Ros, Off
    <3>2. QED
      BY <1>2, <3>1
  <2>5. ASSUME NEW e \in employees, R!Leave(e)
        PROVE  Cons'
    <3>1. /\ employees' = employees \ {e} /\ Off' = Off
          /\ Ros' = [k \in Slots |-> IF k[1] = e THEN None ELSE Ros[k]]
      BY <2>5 DEF R!Leave
    <3> HIDE DEF Ros, Off
    <3>2. QED
      BY <1>2, <3>1
  <2>6. CASE UNCHANGED R!rosterVars
    <3>1. Ros' = Ros /\ Off' = Off /\ employees' = employees
      BY <2>6 DEF R!rosterVars
    <3> HIDE DEF Ros, Off
    <3>2. QED
      BY <1>2, <3>1
  <2>7. QED
    BY <1>2, <2>1, <2>2, <2>3, <2>4, <2>5, <2>6 DEF R!RosterNext
<1>3. R!RosterInit => Cons
  BY DEF R!RosterInit, R!Consistent
<1>4. QED
  BY <1>1, <1>2, <1>3, PTL DEF R!RosterSpec

-----------------------------------------------------------------------------

\* A call that stays where it is keeps what it knows.
LEMMA Still ==
  ASSUME TypeInv, [Next]_vars, NEW c \in Calls, pc'[c] = pc[c]
  PROVE  request'[c] = request[c] /\ read'[c] = read[c] /\ found'[c] = found[c]
<1>0. TypeOK /\ CallOK(c)
  BY DEF TypeInv
<1>1. ASSUME NEW d \in Calls, CallStep(d)
      PROVE  request'[c] = request[c] /\ read'[c] = read[c] /\ found'[c] = found[c]
  <2>1. CASE \E r \in Inputs : Arrive(d, r)
    <3>1. PICK r \in Inputs : Arrive(d, r)
      BY <2>1
    <3>2. FirstStage(r) # "idle"
      BY DEF FirstStage
    <3>3. c # d
      BY <1>0, <3>1, <3>2 DEF Arrive, Goto, TypeOK
    <3>4. QED
      BY <1>0, <3>1, <3>3 DEF Arrive, TypeOK
  <2>2. CASE ReadShift(d)
    <3>1. CASE d = c
      <4>1. request[c].op \in {"update", "remove", "assign", "amend"} /\ pc[c] = "readShift"
        BY <1>0, <2>2, <3>1 DEF ReadShift, CallOK, CarriedAt, InFlight
      <4>2. AfterRead(request[c], shifts[request[c].shift]) # "readShift"
        BY <4>1 DEF AfterRead
      <4>3. pc'[c] # "readShift"
        BY <1>0, <2>2, <3>1, <4>2 DEF ReadShift, Goto, TypeOK
      <4>4. QED
        BY <4>1, <4>3
    <3>2. CASE d # c
      BY <1>0, <2>2, <3>2 DEF ReadShift, TypeOK
    <3>3. QED
      BY <3>1, <3>2
  <2>3. CASE FindAssignment(d)
    <3>1. CASE d = c
      <4>1. request[c].op \in {"amend", "clear"} /\ pc[c] = "findAssignment"
        BY <1>0, <2>3, <3>1 DEF FindAssignment, CallOK, CarriedAt, InFlight
      <4>2. pc'[c] # "findAssignment"
        BY <1>0, <2>3, <3>1, <4>1 DEF FindAssignment, Goto, TypeOK
      <4>3. QED
        BY <4>1, <4>2
    <3>2. CASE d # c
      BY <1>0, <2>3, <3>2 DEF FindAssignment, TypeOK
    <3>3. QED
      BY <3>1, <3>2
  <2>4. CASE UNCHANGED <<request, read, found>>
    BY <2>4
  <2>5. QED
    BY <1>1, <2>1, <2>2, <2>3, <2>4
       DEF CallStep, FindName, CreateShift, FindClash, WriteShift, DeleteShift, FindEmployees,
           AssignAll, AmendAssignment, ClearAssignment, Lose
<1>2. QED
  BY <1>1 DEF Next, DeleteEmployee, vars

-----------------------------------------------------------------------------
(***************************************************************************)
(* Identity: what lets a call name a row it has found. An upsert keeps the *)
(* row that is there, and a row planned where there was none is new to     *)
(* every call, so a row removed and planned anew is never taken for the    *)
(* one that was found before.                                              *)
(***************************************************************************)

\* One step and one slot: the row there keeps its identity, and a new row has
\* one that no other row has and that no call has found (lines 145-224).
KeepsIdentity(k) ==
    assignments'[k] # None =>
        IF assignments[k] # None
        THEN assignments'[k].id = assignments[k].id
        ELSE /\ assignments'[k].id \in Calls
             /\ \A j \in Slots : assignments[j] # None => assignments[j].id # assignments'[k].id
             /\ \A c \in Calls : found[c] # assignments'[k].id

AssignmentsKeepIdentity == [][\A k \in Slots : KeepsIdentity(k)]_vars

\* The identities given so far are those of calls that are over.
IdsGiven ==
    /\ \A k \in Slots :
           (assignments[k] # None /\ assignments[k].id \in Calls) => pc[assignments[k].id] = "answered"
    /\ \A c \in Calls : found[c] \in Calls => pc[found[c]] = "answered"

\* A call that is over stays where it is.
LEMMA OverStays ==
  ASSUME TypeInv, [Next]_vars, NEW c \in Calls, pc[c] = "answered"
  PROVE  pc'[c] = "answered"
<1>1. SUFFICES ASSUME pc'[c] # pc[c]
               PROVE  FALSE
  OBVIOUS
<1>2. CallStep(c)
  BY <1>1, Mover DEF TypeInv
<1>3. QED
  BY <1>2 DEF CallStep, Arrive, FindName, CreateShift, ReadShift, FindClash, WriteShift, DeleteShift,
              FindEmployees, AssignAll, FindAssignment, AmendAssignment, ClearAssignment, Lose,
              InFlight

\* Where a row of the schedule comes from.
LEMMA RowAfterStep ==
  ASSUME TypeInv, [Next]_vars, NEW k \in Slots, assignments'[k] # None
  PROVE  \/ assignments[k] # None /\ assignments'[k].id = assignments[k].id
         \/ /\ assignments[k] = None
            /\ \E c \in Calls : /\ pc[c] = "assignAll" /\ pc'[c] = "answered"
                                /\ assignments'[k].id = c /\ found' = found
<1>0. TypeOK /\ \A c \in Calls : CallOK(c)
  BY DEF TypeInv
<1> DEFINE Same == assignments[k] # None /\ assignments'[k].id = assignments[k].id
           Fresh == /\ assignments[k] = None
                    /\ \E c \in Calls : /\ pc[c] = "assignAll" /\ pc'[c] = "answered"
                                        /\ assignments'[k].id = c /\ found' = found
<1>1. CASE assignments'[k] = assignments[k]
  BY <1>1
<1>2. ASSUME NEW c \in Calls, AssignAll(c), assignments'[k] # assignments[k]
      PROVE  Same \/ Fresh
  <2>1. /\ assignments'[k] = Upserted(c, assignments[k])
        /\ pc[c] = "assignAll" /\ pc'[c] = "answered" /\ found' = found
    BY <1>0, <1>2 DEF AssignAll, Goto, TypeOK
  <2>2. CASE assignments[k] = None
    BY <2>1, <2>2 DEF Upserted
  <2>3. CASE assignments[k] # None
    <3>1. assignments[k] \in Assignment
      BY <1>0, <2>3 DEF TypeOK
    <3>2. Upserted(c, assignments[k]).id = assignments[k].id
      BY <2>3, <3>1 DEF Upserted, Assignment
    <3>3. QED
      BY <2>1, <2>3, <3>2
  <2>4. QED
    BY <2>2, <2>3
<1>3. ASSUME NEW c \in Calls, AmendAssignment(c), assignments'[k] # assignments[k]
      PROVE  Same
  <2>1. SameRow(c)
    BY <1>3 DEF AmendAssignment
  <2>2. assignments' = [assignments EXCEPT ![request[c].slot] = Amended(@, request[c])]
    BY <1>3 DEF AmendAssignment
  <2>3. k = request[c].slot /\ assignments'[k] = Amended(assignments[k], request[c])
    BY <1>0, <1>3, <2>2 DEF TypeOK
  <2>4. assignments[k] \in Assignment
    BY <1>0, <2>1, <2>3 DEF SameRow, TypeOK
  <2>5. Amended(assignments[k], request[c]).id = assignments[k].id
    BY <2>4 DEF Amended, Assignment
  <2>6. QED
    BY <2>1, <2>3, <2>5 DEF SameRow
<1>4. ASSUME NEW c \in Calls, ClearAssignment(c)
      PROVE  assignments'[k] = assignments[k]
  BY <1>0, <1>4 DEF ClearAssignment, TypeOK
<1>5. ASSUME NEW c \in Calls, DeleteShift(c)
      PROVE  assignments'[k] = assignments[k]
  BY <1>5 DEF DeleteShift, Without
<1>6. ASSUME NEW e \in Employees, DeleteEmployee(e)
      PROVE  assignments'[k] = assignments[k]
  BY <1>6 DEF DeleteEmployee, Without
<1>7. CASE assignments' = assignments
  BY <1>1, <1>7
<1>8. QED
  BY <1>1, <1>2, <1>3, <1>4, <1>5, <1>6, <1>7
     DEF Next, CallStep, Arrive, FindName, CreateShift, ReadShift, FindClash, WriteShift,
         FindEmployees, FindAssignment, Lose, tables, vars

LEMMA IdsGivenInvariant == Spec => []IdsGiven
<1>1. Init => IdsGiven
  <2> SUFFICES ASSUME Init PROVE IdsGiven
    OBVIOUS
  <2>1. None \notin Calls
    BY DomainAssumption DEF ShiftIds
  <2>2. \A k \in Slots : assignments[k] # None => assignments[k].id = None
    BY DEF Init
  <2>3. QED
    BY <2>1, <2>2 DEF Init, IdsGiven
<1>2. ASSUME TypeInv, IdsGiven, [Next]_vars
      PROVE  IdsGiven'
  <2>0. TypeOK /\ \A c \in Calls : CallOK(c)
    BY <1>2 DEF TypeInv
  <2>1. ASSUME NEW k \in Slots, assignments'[k] # None, assignments'[k].id \in Calls
        PROVE  pc'[assignments'[k].id] = "answered"
    BY <1>2, <2>1, RowAfterStep, OverStays DEF IdsGiven
  <2>2. ASSUME NEW c \in Calls, found'[c] \in Calls
        PROVE  pc'[found'[c]] = "answered"
    <3>1. CASE found'[c] = found[c]
      BY <1>2, <2>2, <3>1, OverStays DEF IdsGiven
    <3>2. ASSUME NEW d \in Calls, FindAssignment(d), found'[c] # found[c]
          PROVE  pc'[found'[c]] = "answered"
      <4>1. d = c /\ assignments[request[c].slot] # None
        BY <2>0, <3>2 DEF FindAssignment, TypeOK
      <4>2. found'[c] = assignments[request[c].slot].id
        BY <2>0, <3>2, <4>1 DEF FindAssignment, TypeOK
      <4>3. request[c].slot \in Slots
        BY <2>0, <3>2, <4>1, RequestFields DEF FindAssignment, CallOK, CarriedAt, InFlight
      <4>4. pc[found'[c]] = "answered"
        BY <1>2, <2>2, <4>1, <4>2, <4>3 DEF IdsGiven
      <4>5. QED
        BY <1>2, <2>2, <4>4, OverStays
    <3>3. CASE found' = found
      BY <3>1, <3>3
    <3>4. QED
      BY <1>2, <3>1, <3>2, <3>3
         DEF Next, CallStep, Arrive, FindName, CreateShift, ReadShift, FindClash, WriteShift,
             DeleteShift, FindEmployees, AssignAll, AmendAssignment, ClearAssignment, Lose,
             DeleteEmployee, vars
  <2>3. QED
    BY <2>1, <2>2 DEF IdsGiven
<1>3. QED
  BY <1>1, <1>2, TypeInvariant, PTL DEF Spec

\* A row keeps its identity as long as it is there, and a new one is new to all.
THEOREM IdentityKept == Spec => AssignmentsKeepIdentity
<1>1. ASSUME TypeInv, IdsGiven, [Next]_vars, NEW k \in Slots
      PROVE  KeepsIdentity(k)
  <2>1. SUFFICES ASSUME assignments'[k] # None, assignments[k] = None
                 PROVE  /\ assignments'[k].id \in Calls
                        /\ \A j \in Slots : assignments[j] # None =>
                               assignments[j].id # assignments'[k].id
                        /\ \A c \in Calls : found[c] # assignments'[k].id
    BY <1>1, RowAfterStep DEF KeepsIdentity
  <2>2. PICK c \in Calls : pc[c] = "assignAll" /\ assignments'[k].id = c
    BY <1>1, <2>1, RowAfterStep
  <2>3. QED
    BY <1>1, <2>2 DEF IdsGiven
<1>2. TypeInv /\ IdsGiven /\ [Next]_vars => [\A k \in Slots : KeepsIdentity(k)]_vars
  BY <1>1
<1>3. QED
  BY <1>2, TypeInvariant, IdsGivenInvariant, PTL DEF Spec, AssignmentsKeepIdentity

-----------------------------------------------------------------------------
(***************************************************************************)
(* One update of a shift at a time, from the row it reads to the row it    *)
(* writes. It is all that OvernightIsDerived lacks: the run that refutes   *)
(* it does so with two updates of one shift that overlap.                  *)
(***************************************************************************)

Updating(c) == pc[c] \in {"findClash", "writeShift"}

OneUpdatePerShift ==
    \A b, c \in Calls :
        (Updating(b) /\ Updating(c) /\ request[b].shift = request[c].shift) => b = c

\* Nobody asks for isOvernight; the shifts there at the start fit their times.
NothingPinned ==
    /\ \A r \in Inputs : r.op \in {"create", "update"} => r.body.overnight = None
    /\ \A s \in Shifts : Derived(Existing[s])

\* What is carried was asked for; a shift that a call created is of a call that
\* is over; and an update still finds the row it read, if any.
UpdateInv ==
    /\ \A c \in Calls : pc[c] # "idle" => request[c] \in Inputs
    /\ \A c \in Calls : shifts[c] # None => pc[c] = "answered"
    /\ \A c \in Calls : Updating(c) =>
           /\ request[c].shift \in Calls => pc[request[c].shift] = "answered"
           /\ shifts[request[c].shift] \in {read[c], None}
    /\ \A s \in ShiftIds : shifts[s] # None => Derived(shifts[s])

\* Where a call that is updating comes from, and what it then knows.
LEMMA UpdatingAfterStep ==
  ASSUME TypeInv, [Next]_vars, NEW c \in Calls, Updating(c)'
  PROVE  /\ request'[c] = request[c] /\ request[c].shift \in ShiftIds
         /\ \/ Updating(c) /\ read'[c] = read[c]
            \/ /\ pc[c] = "readShift" /\ shifts' = shifts
               /\ read'[c] = shifts[request[c].shift] /\ read'[c] # None
<1>0. TypeOK /\ CallOK(c)
  BY DEF TypeInv
<1>1. ASSUME pc'[c] = pc[c]
      PROVE  /\ request'[c] = request[c] /\ request[c].shift \in ShiftIds
             /\ Updating(c) /\ read'[c] = read[c]
  BY <1>0, <1>1, Still, RequestFields DEF Updating, CallOK, CarriedAt, InFlight
<1>2. ASSUME pc'[c] # pc[c]
      PROVE  \/ FindClash(c) /\ pc'[c] = "writeShift"
             \/ ReadShift(c)
  <2>1. CallStep(c)
    BY <1>0, <1>2, Mover
  <2>2. ASSUME NEW r \in Inputs, Arrive(c, r)
        PROVE  FALSE
    <3>1. r.op \in {"create", "update", "remove", "assign", "amend", "clear"}
      BY RequestFields, DomainAssumption
    <3>2. pc'[c] = FirstStage(r)
      BY <1>0, <2>2 DEF Arrive, Goto, TypeOK
    <3>3. QED
      BY <3>1, <3>2 DEF FirstStage, Updating
  <2>3. CASE FindAssignment(c)
    <3>1. request[c].op \in {"amend", "clear"}
      BY <1>0, <2>3 DEF FindAssignment, CallOK, CarriedAt, InFlight
    <3>2. QED
      BY <1>0, <2>3, <3>1 DEF FindAssignment, Goto, TypeOK, Updating
  <2>4. CASE FindClash(c)
    BY <1>0, <2>4 DEF FindClash, Goto, TypeOK, Updating
  <2>5. ASSUME \/ FindName(c) \/ CreateShift(c) \/ WriteShift(c) \/ DeleteShift(c)
               \/ FindEmployees(c) \/ AssignAll(c) \/ AmendAssignment(c) \/ ClearAssignment(c)
               \/ Lose(c)
        PROVE  FALSE
    BY <1>0, <2>5
       DEF FindName, CreateShift, WriteShift, DeleteShift, FindEmployees, AssignAll,
           AmendAssignment, ClearAssignment, Lose, Goto, TypeOK, Updating
  <2>6. QED
    BY <2>1, <2>2, <2>3, <2>4, <2>5 DEF CallStep
<1>3. CASE FindClash(c)
  BY <1>0, <1>3, RequestFields DEF FindClash, Updating, CallOK, CarriedAt, InFlight
<1>4. CASE ReadShift(c)
  <2>1. request[c].shift \in ShiftIds
    BY <1>0, <1>4, RequestFields DEF ReadShift, CallOK, CarriedAt, InFlight
  <2>2. shifts[request[c].shift] # None
    BY <1>0, <1>4 DEF ReadShift, Goto, TypeOK, Updating
  <2>3. QED
    BY <1>0, <1>4, <2>1, <2>2 DEF ReadShift, TypeOK, tables
<1>5. QED
  BY <1>1, <1>2, <1>3, <1>4

\* Where a shift that is there comes from.
LEMMA ShiftAfterStep ==
  ASSUME TypeInv, [Next]_vars, NEW s \in ShiftIds, shifts'[s] # shifts[s], shifts'[s] # None
  PROVE  \/ /\ s \in Calls /\ CreateShift(s) /\ pc[s] = "createShift" /\ pc'[s] = "answered"
            /\ shifts'[s] = NewShift(request[s].body)
         \/ \E c \in Calls : /\ pc[c] = "writeShift" /\ request[c].shift = s
                             /\ pc'[c] = "answered" /\ shifts[s] # None
                             /\ shifts'[s] = Updated(shifts[s], request[c].body, read[c])
<1>0. TypeOK
  BY DEF TypeInv
<1>1. ASSUME NEW c \in Calls, CreateShift(c)
      PROVE  /\ s = c /\ pc[s] = "createShift" /\ pc'[s] = "answered"
             /\ shifts'[s] = NewShift(request[s].body)
  <2>1. /\ shifts' = [shifts EXCEPT ![c] = NewShift(request[c].body)]
        /\ pc' = [pc EXCEPT ![c] = "answered"]
    BY <1>1 DEF CreateShift, Goto
  <2>2. QED
    BY <1>0, <1>1, <2>1 DEF TypeOK, CreateShift
<1>2. ASSUME NEW c \in Calls, WriteShift(c)
      PROVE  /\ pc[c] = "writeShift" /\ request[c].shift = s
             /\ pc'[c] = "answered" /\ shifts[s] # None
             /\ shifts'[s] = Updated(shifts[s], request[c].body, read[c])
  <2>1. /\ shifts[request[c].shift] # None
        /\ shifts' = [shifts EXCEPT ![request[c].shift] =
                          Updated(shifts[request[c].shift], request[c].body, read[c])]
        /\ pc' = [pc EXCEPT ![c] = "answered"]
    BY <1>2 DEF WriteShift, Goto
  <2>2. QED
    BY <1>0, <1>2, <2>1 DEF TypeOK, WriteShift
<1>3. ASSUME NEW c \in Calls, DeleteShift(c)
      PROVE  FALSE
  <2>1. shifts' = [shifts EXCEPT ![request[c].shift] = None]
    BY <1>3 DEF DeleteShift
  <2>2. QED
    BY <1>0, <2>1 DEF TypeOK
<1>4. QED
  BY <1>1, <1>2, <1>3
     DEF Next, CallStep, Arrive, FindName, ReadShift, FindClash, FindEmployees, AssignAll,
         FindAssignment, AmendAssignment, ClearAssignment, Lose, DeleteEmployee, tables, vars

\* A shift created without isOvernight has it from its times.
LEMMA CreatedDerived ==
  ASSUME NEW draft, draft.overnight = None
  PROVE  Derived(NewShift(draft))
<1>1. Or(draft.overnight, deriveOvernight(draft.start, draft.end)) =
          deriveOvernight(draft.start, draft.end)
  BY Zenon DEF Or
<1>2. /\ NewShift(draft).start = draft.start /\ NewShift(draft).end = draft.end
      /\ NewShift(draft).overnight = deriveOvernight(draft.start, draft.end)
  BY <1>1 DEF NewShift
<1>3. QED
  BY <1>2, Zenon DEF Derived

LEMMA UpdateStep ==
  ASSUME TypeInv, TypeInv', NothingPinned, UpdateInv, OneUpdatePerShift, [Next]_vars
  PROVE  UpdateInv'
<1>0. /\ TypeOK /\ TypeOK' /\ \A c \in Calls : CallOK(c) /\ CallOK(c)'
  BY DEF TypeInv
<1>1. ASSUME NEW c \in Calls, pc'[c] # "idle"
      PROVE  request'[c] \in Inputs
  <2>1. CASE pc'[c] = pc[c]
    BY <1>1, <2>1, Still DEF UpdateInv
  <2>2. CASE pc'[c] # pc[c]
    <3>1. CallStep(c)
      BY <1>0, <2>2, Mover
    <3>2. CASE \E r \in Inputs : Arrive(c, r)
      BY <1>0, <3>2 DEF Arrive, TypeOK
    <3>3. CASE request' = request /\ pc[c] # "idle"
      BY <3>3 DEF UpdateInv
    <3>4. QED
      BY <3>1, <3>2, <3>3
         DEF CallStep, FindName, CreateShift, ReadShift, FindClash, WriteShift, DeleteShift,
             FindEmployees, AssignAll, FindAssignment, AmendAssignment, ClearAssignment, Lose,
             InFlight
  <2>3. QED
    BY <2>1, <2>2
<1>2. ASSUME NEW c \in Calls, shifts'[c] # None
      PROVE  pc'[c] = "answered"
  <2>1. c \in ShiftIds
    BY DEF ShiftIds
  <2>2. CASE shifts[c] # None
    BY <2>2, OverStays DEF UpdateInv
  <2>3. CASE shifts[c] = None
    BY <1>2, <2>1, <2>3, ShiftAfterStep
  <2>4. QED
    BY <2>2, <2>3
<1>3. ASSUME NEW c \in Calls, Updating(c)'
      PROVE  /\ request'[c].shift \in Calls => pc'[request'[c].shift] = "answered"
             /\ shifts'[request'[c].shift] \in {read'[c], None}
  <2> DEFINE s == request[c].shift
  <2>1. /\ request'[c] = request[c] /\ s \in ShiftIds
        /\ \/ Updating(c) /\ read'[c] = read[c]
           \/ pc[c] = "readShift" /\ shifts' = shifts /\ read'[c] = shifts[s] /\ read'[c] # None
    BY <1>3, UpdatingAfterStep
  <2>2. s \in Calls => pc'[s] = "answered"
    <3>1. CASE Updating(c)
      BY <3>1, OverStays DEF UpdateInv
    <3>2. CASE ~Updating(c)
      BY <2>1, <3>2, OverStays DEF UpdateInv
    <3>3. QED
      BY <3>1, <3>2
  <2>3. shifts'[s] \in {read'[c], None}
    <3>1. CASE ~Updating(c)
      BY <2>1, <3>1
    <3>2. CASE Updating(c) /\ shifts'[s] \notin {shifts[s], None}
      <4>1. CASE s \in Calls /\ pc[s] = "createShift"
        BY <3>2, <4>1 DEF UpdateInv
      <4>2. CASE \E b \in Calls : pc[b] = "writeShift" /\ request[b].shift = s /\ pc'[b] = "answered"
        <5>1. PICK b \in Calls : pc[b] = "writeShift" /\ request[b].shift = s /\ pc'[b] = "answered"
          BY <4>2
        <5>2. b = c
          BY <3>2, <5>1 DEF OneUpdatePerShift, Updating
        <5>3. QED
          BY <1>3, <5>1, <5>2 DEF Updating
      <4>3. QED
        BY <2>1, <3>2, <4>1, <4>2, ShiftAfterStep
    <3>3. CASE Updating(c) /\ shifts'[s] \in {shifts[s], None}
      <4>1. shifts[s] \in {read[c], None}
        BY <3>3 DEF UpdateInv
      <4>2. read'[c] = read[c]
        BY <2>1, <3>3 DEF Updating
      <4>3. QED
        BY <3>3, <4>1, <4>2
    <3>4. QED
      BY <3>1, <3>2, <3>3
  <2>4. QED
    BY <2>1, <2>2, <2>3
<1>4. ASSUME NEW s \in ShiftIds, shifts'[s] # None
      PROVE  Derived(shifts'[s])
  <2>1. CASE shifts'[s] = shifts[s]
    BY <1>4, <2>1 DEF UpdateInv
  <2>2. CASE s \in Calls /\ pc[s] = "createShift" /\ shifts'[s] = NewShift(request[s].body)
    <3>1. request[s] \in Inputs /\ request[s].op = "create" /\ request[s].body \in Drafts
      BY <1>0, <2>2, RequestFields DEF UpdateInv, CallOK, CarriedAt, InFlight
    <3>2. request[s].body.overnight = None
      BY <3>1 DEF NothingPinned
    <3>3. QED
      BY <2>2, <3>2, CreatedDerived
  <2>3. ASSUME NEW c \in Calls, pc[c] = "writeShift", request[c].shift = s, shifts[s] # None,
               shifts'[s] = Updated(shifts[s], request[c].body, read[c])
        PROVE  Derived(shifts'[s])
    <3>1. request[c] \in Inputs /\ request[c].op = "update" /\ request[c].body \in Patches
      BY <1>0, <2>3, RequestFields DEF UpdateInv, CallOK, CarriedAt, InFlight
    <3>2. request[c].body.overnight = None
      BY <3>1 DEF NothingPinned
    <3>3. shifts[s] = read[c] /\ Derived(shifts[s]) /\ shifts[s] \in Shift
      BY <1>0, <2>3 DEF UpdateInv, Updating, TypeOK
    <3>4. QED
      BY <2>3, <3>1, <3>2, <3>3, QuietlyDerived
  <2>4. QED
    BY <1>4, <2>1, <2>2, <2>3, ShiftAfterStep
<1>5. QED
  BY <1>1, <1>2, <1>3, <1>4 DEF UpdateInv

\* While no two updates of one shift overlap, isOvernight is what the times of
\* the shift say, whatever else races them: names, removals, plans and failures.
THEOREM OneUpdateAtATime ==
  ASSUME \A s \in Shifts : Derived(Existing[s])
  PROVE  Spec /\ []OneUpdatePerShift => []OvernightIsDerived
<1>1. CASE NothingPinned
  <2>1. Init => UpdateInv
    <3> SUFFICES ASSUME Init PROVE UpdateInv
      OBVIOUS
    <3>1. \A c \in Calls : c \in ShiftIds /\ c \notin Shifts /\ pc[c] = "idle" /\ shifts[c] = None
      BY DomainAssumption DEF Init, ShiftIds
    <3>2. \A s \in ShiftIds : shifts[s] # None => s \in Shifts /\ shifts[s] = Existing[s]
      BY DEF Init
    <3>3. QED
      BY <1>1, <3>1, <3>2 DEF UpdateInv, Updating, NothingPinned
  <2>2. TypeInv /\ TypeInv' /\ UpdateInv /\ OneUpdatePerShift /\ [Next]_vars
            => UpdateInv'
    BY <1>1, UpdateStep
  <2>3. UpdateInv => OvernightIsDerived
    BY DEF UpdateInv, OvernightIsDerived
  <2>4. QED
    BY <2>1, <2>2, <2>3, TypeInvariant, PTL DEF Spec
<1>2. CASE ~NothingPinned
  <2>1. OvernightIsDerived
    BY <1>2 DEF NothingPinned, OvernightIsDerived
  <2>2. QED
    BY <2>1, PTL
<1>3. QED
  BY <1>1, <1>2
=============================================================================
