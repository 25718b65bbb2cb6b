----------------------------- MODULE Personnel ------------------------------
(***************************************************************************)
(* Personnel: the employees of one company and what refers to them         *)
(* (EmployeesService and OrganizationService, src/src/modules/employees/,  *)
(* BiometricsService, src/src/modules/biometrics/), with the interceptor   *)
(* that audits the calls (src/src/common/interceptors/                     *)
(* audit-log.interceptor.ts): it reads the row ahead of the handler, and   *)
(* has the log written after the answer, which nobody waits for.           *)
(* A unit is a department, a position or a branch: an employee refers to   *)
(* one at most, and loses it when it is deleted. Of the columns of an      *)
(* employee the code, the unit and the status are told apart.              *)
(***************************************************************************)
EXTENDS Integers, Sequences, FiniteSets

CONSTANTS
    Ids,            \* of rows of Employee, present and future
    Veteran,        \* the one that is there at the start
    Codes,          \* employeeCode
    Units,          \* ids of departments, positions, branches
    Founding,       \* those that are there at the start
    Requests,       \* bound: HTTP requests
    Files,          \* bound: CSV files that are imported, as their rows
    None,
    Gone            \* a row that was deleted: its id is used again only by an
                    \* import that names it

Status == {"ACTIVE", "SUSPENDED", "TERMINATED"}
Employee == [code : Codes, unit : Units \cup {None}, status : Status]
\* A row of a file is not validated: it may have columns for the id and the
\* status, which a create has not.
Line == [code : Codes, unit : Units \cup {None}, id : Ids \cup {None},
         status : Status \cup {None}]

ASSUME StartAssumption == Veteran \in Ids /\ Founding \subseteq Units
ASSUME FilesAssumption == Files \subseteq Seq(Line)

VARIABLES
    employees,      \* employees[i]: row of Employee; None before, Gone after
    units,          \* units[u]: "there", None before and Gone after
    templates,      \* ids of the employees with an EmployeeBiometricTemplate
    stage,          \* stage[r]: where request r is
    request,        \* request[r]: what it asks for, None before
    line,           \* line[r]: the row of the file that an import is at
    before,         \* before[r]: what the interceptor read ahead of the handler
    log,            \* log[r]: the row of AuditLog of r: "none", "pending",
                    \* "written", or "lost"
    prior,          \* history: prior[r]: the row that r changed, as it was
    disturbed,      \* history: requests whose row another changed meanwhile
    hired,          \* history: codes that an employee has or had
    skipped         \* history: skipped[r]: lines that failed for another reason
                    \* than that their code is taken

tables == <<employees, units, templates>>
progress == <<stage, request, line>>
audit == <<before, log>>
history == <<prior, disturbed, hired, skipped>>
vars == <<tables, progress, audit, history>>

Ops == {"create", "update", "remove", "import", "enroll", "erase",
        "createUnit", "removeUnit"}
Request ==
    [op : Ops, id : Ids \cup {None}, code : Codes \cup {None},
     unit : Units \cup {None}, status : Status \cup {None}, file : Files \cup {None}]
Stage == {"idle", "before", "find", "references", "write", "respond",
          "done", "refused", "lost"}

ASSUME NoneAssumption ==
    /\ {None, Gone} \cap ({"there"} \cup Employee \cup Ids \cup Codes \cup Units
                              \cup Status \cup Files \cup Request) = {}
    /\ None # Gone

Exists(i) == employees[i] \in Employee
Taken(c) == \E i \in Ids : Exists(i) /\ employees[i].code = c
Standing == {u \in Units : units[u] = "there"}

TypeOK ==
    /\ employees \in [Ids -> Employee \cup {None, Gone}]
    /\ units \in [Units -> {"there", None, Gone}]
    /\ templates \subseteq {i \in Ids : Exists(i)}
    /\ \A i \in Ids : Exists(i) => employees[i].unit \in Standing \cup {None}
    /\ stage \in [Requests -> Stage]
    /\ request \in [Requests -> Request \cup {None}]
    /\ line \in [Requests -> Nat]
    /\ before \in [Requests -> Employee \cup {None}]
    /\ log \in [Requests -> {"none", "pending", "written", "lost"}]
    /\ prior \in [Requests -> Employee \cup {None}]
    /\ disturbed \subseteq Requests
    /\ hired \subseteq Codes
    /\ skipped \in [Requests -> SUBSET Nat]

Init ==
    /\ units = [u \in Units |-> IF u \in Founding THEN "there" ELSE None]
    /\ \E e \in [code : Codes, unit : Founding \cup {None}, status : Status] :
          /\ employees = [i \in Ids |-> IF i = Veteran THEN e ELSE None]
          /\ hired = {e.code}
    /\ templates = {}
    /\ stage = [r \in Requests |-> "idle"]
    /\ request = [r \in Requests |-> None]
    /\ line = [r \in Requests |-> 1]
    /\ before = [r \in Requests |-> None]
    /\ log = [r \in Requests |-> "none"]
    /\ prior = [r \in Requests |-> None]
    /\ disturbed = {}
    /\ skipped = [r \in Requests |-> {}]

-----------------------------------------------------------------------------
(***************************************************************************)
(* Before and after the handlers. Some helpers follow a mistaken variant,  *)
(* which no action uses.                                                   *)
(***************************************************************************)

Goto(r, s) == stage' = [stage EXCEPT ![r] = s]

\* What r is about to create: its own columns, or those of the line it is at.
Wanted(r) ==
    LET q == request[r]
    IN  IF q.op = "import" THEN q.file[line[r]]
        ELSE [code |-> q.code, unit |-> q.unit, id |-> None, status |-> None]

\* ensureReferences waits for nothing when the unit is not given.
ToCreate(u) == IF u = None THEN "write" ELSE "references"

FirstStep(q) ==
    CASE q.op \in {"update", "remove"} -> "before"
      [] q.op \in {"enroll", "erase", "removeUnit"} -> "find"
      [] q.op = "create" -> ToCreate(q.unit)
      [] q.op = "import" -> ToCreate(q.file[1].unit)
      [] q.op = "createUnit" -> "write"

Ask(op, i, c, u, s, f) ==
    [op |-> op, id |-> i, code |-> c, unit |-> u, status |-> s, file |-> f]

\* What clients ask for. A file has a row at least.
Asked ==
    {Ask("create", None, c, u, None, None) : c \in Codes, u \in Units \cup {None}}
    \cup {Ask("update", i, None, u, s, None) :
             i \in Ids, u \in Units \cup {None}, s \in Status \cup {None}}
    \cup {Ask("import", None, None, None, None, f) : f \in Files \ {<<>>}}
    \cup {Ask(op, i, None, None, None, None) :
             op \in {"remove", "enroll", "erase"}, i \in Ids}
    \cup {Ask(op, None, None, u, None, None) :
             op \in {"createUnit", "removeUnit"}, u \in Units}

\* A request may name any employee, but no unit before its row was created;
\* createUnit makes one.
Receive(r, q) ==
    /\ stage[r] = "idle"
    /\ q.unit # None => (q.op = "createUnit" <=> units[q.unit] = None)
    /\ request' = [request EXCEPT ![r] = q]
    /\ Goto(r, FirstStep(q))
    /\ UNCHANGED <<tables, line, audit, history>>

\* The interceptor reads the row that the id in the path names; that it cannot
\* is caught. Paths of templates have no parameter of that name.
ReadBefore(r) ==
    /\ stage[r] = "before"
    /\ \/ Exists(request[r].id) /\ before' = [before EXCEPT ![r] = employees[request[r].id]]
       \/ UNCHANGED before
    /\ Goto(r, "find")
    /\ UNCHANGED <<tables, request, line, log, history>>

Audits(op) == op \notin {"createUnit", "removeUnit"}

\* The tap of the interceptor: the variant is called on errors too.
LogsOnEveryEnd(r, s) == Audits(request[r].op)
Logs(r, s) == Audits(request[r].op) /\ s = "done"

End(r, s) ==
    /\ Goto(r, s)
    /\ log' = [log EXCEPT ![r] = IF Logs(r, s) THEN "pending" ELSE @]

Refuse(r) ==
    /\ End(r, "refused")
    /\ UNCHANGED <<tables, request, line, before, history>>

Respond(r) ==
    /\ stage[r] = "respond"
    /\ End(r, "done")
    /\ UNCHANGED <<tables, request, line, before, history>>

\* logAction, at some later time; its failure is swallowed.
WriteLog(r) ==
    /\ log[r] = "pending"
    /\ \E outcome \in {"written", "lost"} : log' = [log EXCEPT ![r] = outcome]
    /\ UNCHANGED <<tables, progress, before, history>>

-----------------------------------------------------------------------------
(***************************************************************************)
(* Creating, one by one and by import.                                     *)
(***************************************************************************)

Last(r) == line[r] = Len(request[r].file)

\* The loop of bulkImport catches what a row throws, and goes on; the variant
\* gives up.
StepAfterFailureStops(r) == "respond"
StepAfterFailure(r) ==
    IF Last(r) THEN "respond" ELSE ToCreate(request[r].file[line[r] + 1].unit)
StepAfterLine(r) ==
    IF Last(r) THEN "respond" ELSE ToCreate(request[r].file[line[r] + 1].unit)

\* The row of an import fails, because its code is taken or else.
FailLine(r, taken) ==
    /\ request[r].op = "import"
    /\ Goto(r, StepAfterFailure(r))
    /\ line' = [line EXCEPT ![r] = @ + 1]
    /\ skipped' = [skipped EXCEPT ![r] = IF taken THEN @ ELSE @ \cup {line[r]}]
    /\ UNCHANGED <<tables, request, audit, prior, disturbed, hired>>

\* ensureReferences, of a create, of a row of an import, or of an update.
References(r) ==
    /\ stage[r] = "references"
    /\ LET u == IF request[r].op = "update" THEN request[r].unit ELSE Wanted(r).unit
       IN  \/ /\ u \in Standing
              /\ Goto(r, "write")
              /\ UNCHANGED <<tables, request, line, audit, history>>
           \/ u \notin Standing /\ request[r].op = "import" /\ FailLine(r, FALSE)
           \/ u \notin Standing /\ request[r].op # "import" /\ Refuse(r)

NewEmployee(l) ==
    [code |-> l.code, unit |-> l.unit,
     status |-> IF l.status = None THEN "ACTIVE" ELSE l.status]

\* The id that the line names, were it of a row that was deleted, or a new one.
FreeIds(l) ==
    IF l.id = None THEN {i \in Ids : employees[i] = None}
    ELSE {i \in Ids : i = l.id /\ ~Exists(i)}

\* The code and the id are unique, and the unit must still be there.
Creatable(l) ==
    /\ l.unit \in Standing \cup {None}
    /\ ~Taken(l.code)
    /\ l.id # None => ~Exists(l.id)

\* employee.create.
Insert(r) ==
    /\ stage[r] = "write"
    /\ request[r].op \in {"create", "import"}
    /\ LET l == Wanted(r)
       IN  \/ /\ Creatable(l)
              /\ \E i \in FreeIds(l) :
                    employees' = [employees EXCEPT ![i] = NewEmployee(l)]
              /\ hired' = hired \cup {l.code}
              /\ IF request[r].op = "import"
                 THEN /\ Goto(r, StepAfterLine(r))
                      /\ line' = [line EXCEPT ![r] = @ + 1]
                 ELSE /\ Goto(r, "respond")
                      /\ UNCHANGED line
              /\ UNCHANGED <<units, templates, request, audit, prior, disturbed, skipped>>
           \/ /\ ~Creatable(l)
              /\ IF request[r].op = "import" THEN FailLine(r, Taken(l.code)) ELSE Refuse(r)

-----------------------------------------------------------------------------
(***************************************************************************)
(* Changing and deleting.                                                  *)
(***************************************************************************)

RemovableUnlessActive(e) == e.status # "ACTIVE"
Removable(e) == e.status = "TERMINATED"

\* findOne of update and remove, with the check of remove; findFirst of the
\* templates and of the units.
Found(q) ==
    CASE q.op = "removeUnit" -> q.unit \in Standing
      [] q.op = "remove" -> Exists(q.id) /\ Removable(employees[q.id])
      [] OTHER -> Exists(q.id)

Find(r) ==
    LET q == request[r]
    IN  /\ stage[r] = "find"
        /\ \/ /\ Found(q)
              /\ Goto(r, IF q.op = "update" /\ q.unit # None THEN "references" ELSE "write")
              /\ UNCHANGED <<tables, request, line, audit, history>>
           \/ ~Found(q) /\ Refuse(r)

\* The requests other than r that have looked at one of the rows, and change or
\* delete it later.
Watching(r, rows) ==
    {p \in Requests \ {r} :
        /\ stage[p] \in {"find", "references", "write"}
        /\ request[p].op \in {"update", "remove"}
        /\ request[p].id \in rows}

Changed(e, q) ==
    [code |-> e.code,
     unit |-> IF q.unit = None THEN e.unit ELSE q.unit,
     status |-> IF q.status = None THEN e.status ELSE q.status]

\* The row is changed or deleted by its id, if it is still there.
Update(r) ==
    LET q == request[r]
        fits == Exists(q.id) /\ q.unit \in Standing \cup {None}
    IN  /\ stage[r] = "write"
        /\ q.op = "update"
        /\ \/ /\ fits
              /\ employees' = [employees EXCEPT ![q.id] = Changed(@, q)]
              /\ prior' = [prior EXCEPT ![r] = employees[q.id]]
              /\ disturbed' = disturbed \cup Watching(r, {q.id})
              /\ Goto(r, "respond")
              /\ UNCHANGED <<units, templates, request, line, audit, hired, skipped>>
           \/ ~fits /\ Refuse(r)

Remove(r) ==
    LET i == request[r].id
    IN  /\ stage[r] = "write"
        /\ request[r].op = "remove"
        /\ \/ /\ Exists(i)
              /\ employees' = [employees EXCEPT ![i] = Gone]
              /\ templates' = templates \ {i}
              /\ prior' = [prior EXCEPT ![r] = employees[i]]
              /\ disturbed' = disturbed \cup Watching(r, {i})
              /\ Goto(r, "respond")
              /\ UNCHANGED <<units, request, line, audit, hired, skipped>>
           \/ ~Exists(i) /\ Refuse(r)

\* The upsert of a template needs its employee, the deletion does not.
Template(r) ==
    LET i == request[r].id
        enrolled == request[r].op = "enroll"
    IN  /\ stage[r] = "write"
        /\ request[r].op \in {"enroll", "erase"}
        /\ \/ /\ enrolled => Exists(i)
              /\ templates' = IF enrolled THEN templates \cup {i} ELSE templates \ {i}
              /\ Goto(r, "respond")
              /\ UNCHANGED <<employees, units, request, line, audit, history>>
           \/ enrolled /\ ~Exists(i) /\ Refuse(r)

\* The employees of a unit, which lose it (SetNull); the variant forgets that.
MembersForgotten(u) == {}
Members(u) == {i \in Ids : Exists(i) /\ employees[i].unit = u}

\* A unit is created, if its name is not taken.
CreateUnit(r) ==
    LET u == request[r].unit
    IN  /\ stage[r] = "write"
        /\ request[r].op = "createUnit"
        /\ \/ /\ units[u] = None
              /\ units' = [units EXCEPT ![u] = "there"]
              /\ Goto(r, "respond")
              /\ UNCHANGED <<employees, templates, request, line, audit, history>>
           \/ Refuse(r)

\* A unit that is deleted leaves its employees without one (SetNull).
RemoveUnit(r) ==
    LET u == request[r].unit
    IN  /\ stage[r] = "write"
        /\ request[r].op = "removeUnit"
        /\ \/ /\ u \in Standing
              /\ units' = [units EXCEPT ![u] = Gone]
              /\ employees' = [i \in Ids |-> IF i \in Members(u)
                                             THEN [employees[i] EXCEPT !.unit = None]
                                             ELSE employees[i]]
              /\ disturbed' = disturbed \cup Watching(r, Members(u))
              /\ Goto(r, "respond")
              /\ UNCHANGED <<templates, request, line, audit, prior, hired, skipped>>
           \/ u \notin Standing /\ Refuse(r)

-----------------------------------------------------------------------------

\* A statement is rejected: a 500, but an import goes on with its next row.
Fail(r) ==
    /\ stage[r] \in {"find", "references", "write"}
    /\ FailLine(r, FALSE) \/ (request[r].op # "import" /\ Refuse(r))

\* The process dies, and what it has not written yet is lost.
Restart ==
    /\ stage' = [r \in Requests |->
                    IF stage[r] \in {"idle", "done", "refused"} THEN stage[r] ELSE "lost"]
    /\ log' = [r \in Requests |-> IF log[r] = "pending" THEN "lost" ELSE log[r]]
    /\ UNCHANGED <<tables, request, line, before, history>>

Serve(r) ==
    \/ \E q \in Asked : Receive(r, q)
    \/ ReadBefore(r) \/ Find(r) \/ References(r) \/ Insert(r)
    \/ Update(r) \/ Remove(r) \/ Template(r)
    \/ CreateUnit(r) \/ RemoveUnit(r)
    \/ Respond(r) \/ WriteLog(r) \/ Fail(r)

Next == (\E r \in Requests : Serve(r)) \/ Restart

Spec == Init /\ [][Next]_vars

-----------------------------------------------------------------------------

\* A row of the audit log stands for a change that was made, and its before is
\* the row that the change replaced, or nothing; unless another request changed
\* the row between the read of the interceptor and the handler's statement
\* (lines 57-76 of the interceptor).
ImagesAreExact ==
    \A r \in Requests :
        (log[r] = "written" /\ request[r].op \in {"update", "remove"}) =>
            /\ prior[r] # None
            /\ before[r] \in {prior[r], None} \/ r \in disturbed

\* Action property: an employee that is deleted was terminated ("Only
\* terminated employees may be deleted", employees.service.ts 16), unless
\* another request changed it after the one that deletes it had looked.
QuietRemoval ==
    [][\A i \in Ids :
           (Exists(i) /\ employees'[i] = Gone) =>
               \/ employees[i].status = "TERMINATED"
               \/ \E r \in disturbed :
                     /\ request[r].op = "remove" /\ request[r].id = i
                     /\ stage[r] = "write" /\ stage'[r] = "respond"]_vars

\* An import that was answered has hired everybody in its file, were it before
\* it or in an earlier attempt that died in the middle: a line fails only when
\* its code was taken, its unit missing, its id in use, or its statement rejected
\* (employees.service.ts 17).
ImportCompletes ==
    \A r \in Requests :
        (stage[r] = "done" /\ request[r].op = "import") =>
            \A k \in 1 .. Len(request[r].file) :
                request[r].file[k].code \in hired \/ k \in skipped[r]
=============================================================================
