-------------------------- MODULE Personnel_proofs --------------------------
(***************************************************************************)
(* Proofs about Personnel, for any employees, units, files and requests.   *)
(* The argument: what a request has read of a row it changes stays true    *)
(* until another request disturbs it, and a line of a file that an import  *)
(* has passed has its code hired, or was skipped, for good.                *)
(***************************************************************************)
EXTENDS Personnel, TLAPS

\* The stages before the statement that does a request's work.
Ahead == {"before", "find", "references", "write"}

\* A request that arrived is one a client makes, and an import is at a line.
CallOK(r) ==
    /\ stage[r] = "idle" => line[r] = 1
    /\ stage[r] # "idle" => request[r] \in Asked
    /\ (stage[r] \in Ahead /\ request[r].op = "import") =>
           line[r] \in 1 .. Len(request[r].file)

TypeInv == TypeOK /\ \A r \in Requests : CallOK(r)

\* What a request of each kind carries.
LEMMA AskedFields ==
  ASSUME NEW q \in Asked
  PROVE  /\ q \in Request
         /\ q.op = "create" => q.code \in Codes
         /\ q.op \in {"update", "remove", "enroll", "erase"} => q.id \in Ids
         /\ q.op \in {"createUnit", "removeUnit"} => q.unit \in Units
         /\ q.op = "import" => /\ q.file \in Seq(Line)
                               /\ Len(q.file) \in Nat \ {0}
<1>1. CASE \E c \in Codes, u \in Units \cup {None} : q = Ask("create", None, c, u, None, None)
  BY <1>1 DEF Ask, Request, Ops
<1>2. CASE \E i \in Ids, u \in Units \cup {None}, s \in Status \cup {None} :
              q = Ask("update", i, None, u, s, None)
  BY <1>2 DEF Ask, Request, Ops
<1>3. CASE \E f \in Files \ {<<>>} : q = Ask("import", None, None, None, None, f)
  <2>1. PICK f \in Files \ {<<>>} : q = Ask("import", None, None, None, None, f)
    BY <1>3
  <2>2. f \in Seq(Line) /\ f # <<>>
    BY <2>1, FilesAssumption
  <2>3. Len(f) \in Nat \ {0}
    BY <2>2
  <2>4. QED
    BY <2>1, <2>2, <2>3 DEF Ask, Request, Ops
<1>4. CASE \E op \in {"remove", "enroll", "erase"}, i \in Ids :
              q = Ask(op, i, None, None, None, None)
  BY <1>4 DEF Ask, Request, Ops
<1>5. CASE \E op \in {"createUnit", "removeUnit"}, u \in Units :
              q = Ask(op, None, None, u, None, None)
  BY <1>5 DEF Ask, Request, Ops
<1>6. \/ \E c \in Codes, u \in Units \cup {None} : q = Ask("create", None, c, u, None, None)
      \/ \E i \in Ids, u \in Units \cup {None}, s \in Status \cup {None} :
             q = Ask("update", i, None, u, s, None)
      \/ \E f \in Files \ {<<>>} : q = Ask("import", None, None, None, None, f)
      \/ \E op \in {"remove", "enroll", "erase"}, i \in Ids :
             q = Ask(op, i, None, None, None, None)
      \/ \E op \in {"createUnit", "removeUnit"}, u \in Units :
             q = Ask(op, None, None, u, None, None)
  BY DEF Asked
<1>7. QED
  BY <1>1, <1>2, <1>3, <1>4, <1>5, <1>6

\* What is created has the columns of a line.
LEMMA WantedIsLine ==
  ASSUME NEW r \in Requests, TypeInv, stage[r] \in Ahead,
         request[r].op \in {"create", "import"}
  PROVE  Wanted(r) \in Line
<1>1. request[r] \in Asked
  BY DEF TypeInv, CallOK, Ahead
<1>2. CASE request[r].op = "create"
  <2>1. request[r].code \in Codes /\ request[r].unit \in Units \cup {None}
    BY <1>1, <1>2, AskedFields DEF Request
  <2>2. Wanted(r) = [code |-> request[r].code, unit |-> request[r].unit,
                     id |-> None, status |-> None]
    BY <1>2 DEF Wanted
  <2>3. QED
    BY <2>1, <2>2 DEF Line
<1>3. CASE request[r].op = "import"
  <2>1. request[r].file \in Seq(Line) /\ line[r] \in 1 .. Len(request[r].file)
    BY <1>1, <1>3, AskedFields DEF TypeInv, CallOK, Ahead
  <2>2. QED
    BY <1>3, <2>1 DEF Wanted
<1>4. QED
  BY <1>2, <1>3

LEMMA ToCreateStage == \A u : ToCreate(u) \in {"write", "references"}
  BY DEF ToCreate

LEMMA FirstStepStage ==
  ASSUME NEW q \in Asked
  PROVE  FirstStep(q) \in Ahead
<1>1. q.op \in Ops
  BY AskedFields DEF Request
<1>2. QED
  BY <1>1, ToCreateStage DEF FirstStep, Ahead, Ops

\* An id that is given to a new row is that of no employee; it was never one's,
\* unless the line names it.
LEMMA FreeIsNoEmployee ==
  ASSUME NEW l, NEW i \in FreeIds(l)
  PROVE  /\ i \in Ids /\ ~Exists(i)
         /\ employees[i] = None \/ l.id = i
  BY NoneAssumption DEF FreeIds, Exists

-----------------------------------------------------------------------------
(***************************************************************************)
(* The actions that several handlers share.                                *)
(***************************************************************************)

LEMMA RefuseType ==
  ASSUME TypeInv, NEW r \in Requests, stage[r] \in Ahead, Refuse(r)
  PROVE  TypeInv'
  BY DEF Refuse, End, Goto, TypeInv, TypeOK, CallOK, tables, history, Exists, Standing,
         Stage, Ahead

\* The next line of a file is one of its lines.
LEMMA NextLine ==
  ASSUME TypeInv, NEW r \in Requests, stage[r] \in Ahead, request[r].op = "import"
  PROVE  /\ line[r] \in Nat
         /\ line[r] + 1 \in Nat
         /\ \/ /\ StepAfterFailure(r) = "respond" /\ StepAfterLine(r) = "respond"
               /\ line[r] = Len(request[r].file)
            \/ /\ StepAfterFailure(r) \in {"write", "references"}
               /\ StepAfterLine(r) \in {"write", "references"}
               /\ line[r] + 1 \in 1 .. Len(request[r].file)
<1>1. line[r] \in 1 .. Len(request[r].file) /\ Len(request[r].file) \in Nat
  BY AskedFields DEF TypeInv, CallOK, Ahead
<1>2. CASE Last(r)
  BY <1>1, <1>2 DEF Last, StepAfterFailure, StepAfterLine
<1>3. CASE ~Last(r)
  BY <1>1, <1>3, ToCreateStage DEF Last, StepAfterFailure, StepAfterLine
<1>4. QED
  BY <1>2, <1>3

LEMMA FailLineType ==
  ASSUME TypeInv, NEW r \in Requests, stage[r] \in Ahead,
         NEW taken \in BOOLEAN, FailLine(r, taken)
  PROVE  TypeInv'
<1>1. request[r].op = "import"
  BY DEF FailLine
<1>2. /\ line' \in [Requests -> Nat]
      /\ skipped' \in [Requests -> SUBSET Nat]
      /\ stage' \in [Requests -> Stage]
  BY <1>1, NextLine DEF FailLine, Goto, TypeInv, TypeOK, Stage
<1>3. TypeOK'
  BY <1>2 DEF FailLine, TypeInv, TypeOK, tables, audit, Exists, Standing
<1>4. ASSUME NEW p \in Requests
      PROVE  CallOK(p)'
  <2>1. CASE p = r
    BY <1>1, <2>1, NextLine DEF FailLine, Goto, TypeInv, TypeOK, CallOK, Ahead
  <2>2. CASE p # r
    BY <2>2 DEF FailLine, Goto, TypeInv, TypeOK, CallOK
  <2>3. QED
    BY <2>1, <2>2
<1>5. QED
  BY <1>3, <1>4 DEF TypeInv

-----------------------------------------------------------------------------
(***************************************************************************)
(* The type invariant, action by action.                                   *)
(***************************************************************************)

LEMMA ReceiveType ==
  ASSUME TypeInv, NEW r \in Requests, NEW q \in Asked, Receive(r, q)
  PROVE  TypeInv'
<1>1. FirstStep(q) \in Ahead /\ q \in Request
  BY FirstStepStage, AskedFields
<1>2. TypeOK'
  BY <1>1 DEF Receive, Goto, TypeInv, TypeOK, tables, audit, history, Exists, Standing,
              Stage, Ahead
<1>3. ASSUME NEW p \in Requests
      PROVE  CallOK(p)'
  <2>1. CASE p = r
    <3>1. line[r] = 1 /\ line' = line /\ request'[r] = q /\ stage'[r] \in Ahead
      BY <1>1 DEF Receive, Goto, TypeInv, TypeOK, CallOK
    <3>2. q.op = "import" => 1 \in 1 .. Len(q.file)
      BY AskedFields
    <3>3. QED
      BY <2>1, <3>1, <3>2 DEF CallOK, Ahead
  <2>2. CASE p # r
    BY <2>2 DEF Receive, Goto, TypeInv, TypeOK, CallOK
  <2>3. QED
    BY <2>1, <2>2
<1>4. QED
  BY <1>2, <1>3 DEF TypeInv

LEMMA ReadBeforeType ==
  ASSUME TypeInv, NEW r \in Requests, ReadBefore(r)
  PROVE  TypeInv'
<1>1. before' \in [Requests -> Employee \cup {None}]
  BY DEF ReadBefore, TypeInv, TypeOK, Exists
<1>2. QED
  BY <1>1 DEF ReadBefore, Goto, TypeInv, TypeOK, CallOK, tables, history, Exists, Standing,
              Stage, Ahead

LEMMA FindType ==
  ASSUME TypeInv, NEW r \in Requests, Find(r)
  PROVE  TypeInv'
<1>1. CASE Found(request[r])
  BY <1>1 DEF Find, Goto, TypeInv, TypeOK, CallOK, tables, audit, history, Exists, Standing,
              Stage, Ahead
<1>2. CASE ~Found(request[r])
  BY <1>2, RefuseType DEF Find, Ahead
<1>3. QED
  BY <1>1, <1>2

LEMMA ReferencesType ==
  ASSUME TypeInv, NEW r \in Requests, References(r)
  PROVE  TypeInv'
<1>1. stage[r] \in Ahead
  BY DEF References, Ahead
<1>2. CASE Refuse(r)
  BY <1>1, <1>2, RefuseType
<1>3. CASE FailLine(r, FALSE)
  BY <1>1, <1>3, FailLineType
<1>4. CASE /\ Goto(r, "write")
           /\ UNCHANGED <<tables, request, line, audit, history>>
  BY <1>1, <1>4 DEF Goto, TypeInv, TypeOK, CallOK, tables, audit, history, Exists, Standing,
                    Stage, Ahead
<1>5. QED
  BY <1>2, <1>3, <1>4 DEF References

\* A row made of a line is a row, with the line's code and unit.
LEMMA NewIsEmployee ==
  ASSUME NEW l \in Line
  PROVE  /\ NewEmployee(l) \in Employee
         /\ NewEmployee(l).unit = l.unit /\ NewEmployee(l).code = l.code
<1> DEFINE s == IF l.status = None THEN "ACTIVE" ELSE l.status
<1>1. s \in Status
  BY DEF Line, Status
<1>2. NewEmployee(l) = [code |-> l.code, unit |-> l.unit, status |-> s]
  BY DEF NewEmployee
<1>3. l.code \in Codes /\ l.unit \in Units \cup {None}
  BY DEF Line
<1> HIDE DEF s
<1>4. QED
  BY <1>1, <1>2, <1>3 DEF Employee

LEMMA InsertType ==
  ASSUME TypeInv, NEW r \in Requests, Insert(r)
  PROVE  TypeInv'
<1> DEFINE l == Wanted(r)
<1>1. stage[r] \in Ahead /\ request[r].op \in {"create", "import"}
  BY DEF Insert, Ahead
<1>2. l \in Line
  BY <1>1, WantedIsLine
<1>3. CASE Creatable(l)
  <2>1. PICK i \in FreeIds(l) : employees' = [employees EXCEPT ![i] = NewEmployee(l)]
    BY <1>3 DEF Insert
  <2>2. NewEmployee(l) \in Employee /\ NewEmployee(l).unit \in Standing \cup {None}
    BY <1>2, <1>3, NewIsEmployee DEF Creatable
  <2>3. /\ hired' = hired \cup {l.code}
        /\ UNCHANGED <<units, templates, request, audit, prior, disturbed, skipped>>
    BY <1>3 DEF Insert
  <2>4. /\ employees' \in [Ids -> Employee \cup {None, Gone}]
        /\ hired' \subseteq Codes
        /\ Standing' = Standing
    BY <1>2, <2>1, <2>2, <2>3, FreeIsNoEmployee DEF TypeInv, TypeOK, Line, Standing
  <2>5. /\ templates' \subseteq {j \in Ids : Exists(j)'}
        /\ \A j \in Ids : Exists(j)' => employees'[j].unit \in (Standing \cup {None})'
    BY <2>1, <2>2, <2>3, <2>4, NoneAssumption DEF TypeInv, TypeOK, Exists
  <2>6. /\ stage' \in [Requests -> Stage]
        /\ line' \in [Requests -> Nat]
        /\ \A p \in Requests : CallOK(p)'
    <3>1. CASE request[r].op = "import"
      <4>1. stage' = [stage EXCEPT ![r] = StepAfterLine(r)]
            /\ line' = [line EXCEPT ![r] = @ + 1]
        BY <1>3, <3>1 DEF Insert, Goto
      <4>2. QED
        BY <1>1, <2>3, <3>1, <4>1, NextLine DEF TypeInv, TypeOK, CallOK, Stage, Ahead
    <3>2. CASE request[r].op # "import"
      <4>1. stage' = [stage EXCEPT ![r] = "respond"] /\ line' = line
        BY <1>3, <3>2 DEF Insert, Goto
      <4>2. QED
        BY <1>1, <2>3, <3>2, <4>1 DEF TypeInv, TypeOK, CallOK, Stage, Ahead
    <3>3. QED
      BY <3>1, <3>2
  <2>7. QED
    BY <2>3, <2>4, <2>5, <2>6 DEF TypeInv, TypeOK, audit
<1>4. CASE ~Creatable(l)
  <2>1. \/ FailLine(r, Taken(l.code))
        \/ Refuse(r)
    BY <1>4 DEF Insert
  <2>2. Taken(l.code) \in BOOLEAN
    BY DEF Taken
  <2>3. QED
    BY <1>1, <2>1, <2>2, RefuseType, FailLineType
<1>5. QED
  BY <1>3, <1>4

\* A changed row is a row, in a unit that is there.
LEMMA ChangedIsEmployee ==
  ASSUME NEW e \in Employee, NEW q \in Request
  PROVE  /\ Changed(e, q) \in Employee
         /\ Changed(e, q).unit \in {e.unit, q.unit}
         /\ q.unit = None => Changed(e, q).unit = e.unit
         /\ Changed(e, q).code = e.code
<1> DEFINE u == IF q.unit = None THEN e.unit ELSE q.unit
           s == IF q.status = None THEN e.status ELSE q.status
<1>1. u \in Units \cup {None} /\ s \in Status
  BY DEF Employee, Request
<1>2. Changed(e, q) = [code |-> e.code, unit |-> u, status |-> s]
  BY DEF Changed, Employee
<1>3. u \in {e.unit, q.unit} /\ (q.unit = None => u = e.unit) /\ e.code \in Codes
  BY DEF Employee
<1> HIDE DEF u, s
<1>4. QED
  BY <1>1, <1>2, <1>3 DEF Employee

LEMMA UpdateType ==
  ASSUME TypeInv, NEW r \in Requests, Update(r)
  PROVE  TypeInv'
<1> DEFINE q == request[r]
<1>1. stage[r] = "write" /\ q.op = "update" /\ q \in Request /\ q.id \in Ids
  BY AskedFields DEF Update, TypeInv, CallOK
<1>2. CASE Exists(q.id) /\ q.unit \in Standing \cup {None}
  <2>1. /\ employees' = [employees EXCEPT ![q.id] = Changed(employees[q.id], q)]
        /\ prior' = [prior EXCEPT ![r] = employees[q.id]]
        /\ disturbed' = disturbed \cup Watching(r, {q.id})
        /\ stage' = [stage EXCEPT ![r] = "respond"]
        /\ UNCHANGED <<units, templates, request, line, audit, hired, skipped>>
    BY <1>2 DEF Update, Goto
  <2>2. employees[q.id] \in Employee
    BY <1>2 DEF Exists
  <2>3. Changed(employees[q.id], q) \in Employee
        /\ Changed(employees[q.id], q).unit \in Standing \cup {None}
    BY <1>1, <1>2, <2>2, ChangedIsEmployee DEF TypeInv, TypeOK, Exists
  <2>4. /\ employees' \in [Ids -> Employee \cup {None, Gone}]
        /\ prior' \in [Requests -> Employee \cup {None}]
        /\ disturbed' \subseteq Requests
        /\ Standing' = Standing
    BY <1>1, <2>1, <2>2, <2>3 DEF TypeInv, TypeOK, Standing, Watching
  <2>5. /\ templates' \subseteq {j \in Ids : Exists(j)'}
        /\ \A j \in Ids : Exists(j)' => employees'[j].unit \in (Standing \cup {None})'
    BY <1>1, <1>2, <2>1, <2>3, <2>4 DEF TypeInv, TypeOK, Exists
  <2>6. QED
    BY <1>1, <2>1, <2>4, <2>5 DEF TypeInv, TypeOK, CallOK, Stage, Ahead, audit
<1>3. CASE ~(Exists(q.id) /\ q.unit \in Standing \cup {None})
  BY <1>1, <1>3, RefuseType DEF Update, Ahead
<1>4. QED
  BY <1>2, <1>3

LEMMA RemoveType ==
  ASSUME TypeInv, NEW r \in Requests, Remove(r)
  PROVE  TypeInv'
<1> DEFINE i == request[r].id
<1>1. stage[r] = "write" /\ i \in Ids
  BY AskedFields DEF Remove, TypeInv, CallOK
<1>2. CASE Exists(i)
  <2>1. /\ employees' = [employees EXCEPT ![i] = Gone]
        /\ templates' = templates \ {i}
        /\ prior' = [prior EXCEPT ![r] = employees[i]]
        /\ disturbed' = disturbed \cup Watching(r, {i})
        /\ stage' = [stage EXCEPT ![r] = "respond"]
        /\ UNCHANGED <<units, request, line, audit, hired, skipped>>
    BY <1>2 DEF Remove, Goto
  <2>2. /\ employees' \in [Ids -> Employee \cup {None, Gone}]
        /\ prior' \in [Requests -> Employee \cup {None}]
        /\ disturbed' \subseteq Requests
        /\ Standing' = Standing
    BY <1>2, <2>1 DEF TypeInv, TypeOK, Standing, Watching, Exists
  <2>3. Gone \notin Employee
    BY NoneAssumption
  <2>4. /\ templates' \subseteq {j \in Ids : Exists(j)'}
        /\ \A j \in Ids : Exists(j)' => employees'[j].unit \in (Standing \cup {None})'
    BY <1>1, <2>1, <2>2, <2>3 DEF TypeInv, TypeOK, Exists
  <2>5. QED
    BY <1>1, <2>1, <2>2, <2>4 DEF TypeInv, TypeOK, CallOK, Stage, Ahead, audit
<1>3. CASE ~Exists(i)
  BY <1>1, <1>3, RefuseType DEF Remove, Ahead
<1>4. QED
  BY <1>2, <1>3

LEMMA TemplateType ==
  ASSUME TypeInv, NEW r \in Requests, Template(r)
  PROVE  TypeInv'
<1>1. stage[r] = "write" /\ request[r].op \in {"enroll", "erase"} /\ request[r].id \in Ids
  BY AskedFields DEF Template, TypeInv, CallOK
<1>2. CASE Refuse(r)
  BY <1>1, <1>2, RefuseType DEF Ahead
<1>3. CASE ~Refuse(r)
  <2>1. /\ templates' \subseteq {j \in Ids : Exists(j)}
        /\ stage' = [stage EXCEPT ![r] = "respond"]
        /\ UNCHANGED <<employees, units, request, line, audit, history>>
    BY <1>1, <1>3 DEF Template, Goto, TypeInv, TypeOK
  <2>2. QED
    BY <1>1, <2>1 DEF TypeInv, TypeOK, CallOK, audit, history, Exists, Standing, Stage, Ahead
<1>4. QED
  BY <1>2, <1>3

LEMMA CreateUnitType ==
  ASSUME TypeInv, NEW r \in Requests, CreateUnit(r)
  PROVE  TypeInv'
<1>1. stage[r] = "write" /\ request[r].op = "createUnit" /\ request[r].unit \in Units
  BY AskedFields DEF CreateUnit, TypeInv, CallOK
<1>2. CASE Refuse(r)
  BY <1>1, <1>2, RefuseType DEF Ahead
<1>3. CASE ~Refuse(r)
  <2>1. /\ units' = [units EXCEPT ![request[r].unit] = "there"]
        /\ stage' = [stage EXCEPT ![r] = "respond"]
        /\ UNCHANGED <<employees, templates, request, line, audit, history>>
    BY <1>3 DEF CreateUnit, Goto
  <2>2. units' \in [Units -> {"there", None, Gone}] /\ Standing \subseteq Standing'
    BY <1>1, <2>1 DEF TypeInv, TypeOK, Standing
  <2>3. QED
    BY <1>1, <2>1, <2>2 DEF TypeInv, TypeOK, CallOK, audit, history, Exists, Stage, Ahead
<1>4. QED
  BY <1>2, <1>3

\* Taking the unit of an employee away leaves an employee.
LEMMA WithoutUnit ==
  ASSUME NEW e \in Employee
  PROVE  /\ [e EXCEPT !.unit = None] \in Employee
         /\ [e EXCEPT !.unit = None].unit = None
         /\ [e EXCEPT !.unit = None].code = e.code
  BY DEF Employee

LEMMA RemoveUnitType ==
  ASSUME TypeInv, NEW r \in Requests, RemoveUnit(r)
  PROVE  TypeInv'
<1> DEFINE u == request[r].unit
<1>1. stage[r] = "write" /\ request[r].op = "removeUnit" /\ u \in Units
  BY AskedFields DEF RemoveUnit, TypeInv, CallOK
<1>2. CASE u \in Standing
  <2>1. /\ units' = [units EXCEPT ![u] = Gone]
        /\ employees' = [i \in Ids |-> IF i \in Members(u)
                                       THEN [employees[i] EXCEPT !.unit = None]
                                       ELSE employees[i]]
        /\ disturbed' = disturbed \cup Watching(r, Members(u))
        /\ stage' = [stage EXCEPT ![r] = "respond"]
        /\ UNCHANGED <<templates, request, line, audit, prior, hired, skipped>>
    BY <1>2 DEF RemoveUnit, Goto
  <2>2. /\ units' \in [Units -> {"there", None, Gone}]
        /\ Standing' = Standing \ {u}
        /\ disturbed' \subseteq Requests
    BY <1>1, <2>1, NoneAssumption DEF TypeInv, TypeOK, Standing, Watching
  <2>3. ASSUME NEW i \in Ids
        PROVE  /\ employees'[i] \in Employee \cup {None, Gone}
               /\ Exists(i)' <=> Exists(i)
               /\ Exists(i) => employees'[i].unit \in (Standing \ {u}) \cup {None}
    <3>1. CASE i \in Members(u)
      <4>1. employees[i] \in Employee /\ employees'[i] = [employees[i] EXCEPT !.unit = None]
        BY <2>1, <3>1 DEF Members, Exists
      <4>2. QED
        BY <4>1, WithoutUnit DEF Exists
    <3>2. CASE i \notin Members(u)
      <4>1. employees'[i] = employees[i] /\ (Exists(i) => employees[i].unit # u)
        BY <2>1, <3>2 DEF Members
      <4>2. QED
        BY <4>1 DEF TypeInv, TypeOK, Exists
    <3>3. QED
      BY <3>1, <3>2
  <2>4. employees' \in [Ids -> Employee \cup {None, Gone}]
    BY <2>1, <2>3
  <2>5. QED
    BY <1>1, <2>1, <2>2, <2>3, <2>4 DEF TypeInv, TypeOK, CallOK, audit, Stage, Ahead
<1>3. CASE u \notin Standing
  BY <1>1, <1>3, RefuseType DEF RemoveUnit, Ahead
<1>4. QED
  BY <1>2, <1>3

LEMMA FailType ==
  ASSUME TypeInv, NEW r \in Requests, Fail(r)
  PROVE  TypeInv'
<1>1. stage[r] \in Ahead
  BY DEF Fail, Ahead
<1>2. QED
  BY <1>1, RefuseType, FailLineType DEF Fail

LEMMA RespondType ==
  ASSUME TypeInv, NEW r \in Requests, Respond(r)
  PROVE  TypeInv'
  BY DEF Respond, End, Goto, TypeInv, TypeOK, CallOK, tables, history, Exists, Standing,
         Stage, Ahead

LEMMA WriteLogType ==
  ASSUME TypeInv, NEW r \in Requests, WriteLog(r)
  PROVE  TypeInv'
  BY DEF WriteLog, TypeInv, TypeOK, CallOK, tables, progress, history, Exists, Standing

LEMMA RestartType ==
  ASSUME TypeInv, Restart
  PROVE  TypeInv'
  BY DEF Restart, TypeInv, TypeOK, CallOK, tables, history, Exists, Standing, Stage, Ahead

LEMMA StutterType ==
  ASSUME TypeInv, UNCHANGED vars
  PROVE  TypeInv'
  BY DEF vars, TypeInv, TypeOK, CallOK, tables, progress, audit, history, Exists, Standing

\* Every step keeps the types.
LEMMA TypeStep ==
  ASSUME TypeInv, [Next]_vars
  PROVE  TypeInv'
  BY ReceiveType, ReadBeforeType, FindType, ReferencesType, InsertType, UpdateType,
     RemoveType, TemplateType, CreateUnitType, RemoveUnitType, RespondType, WriteLogType,
     FailType, RestartType, StutterType DEF Next, Serve

\* The variables keep their types, and requests are at a place that fits them.
LEMMA TypeInvariant == Spec => []TypeInv
<1>1. Init => TypeInv
  <2>1. ASSUME Init
        PROVE  TypeInv
    <3>1. PICK e \in [code : Codes, unit : Founding \cup {None}, status : Status] :
             employees = [i \in Ids |-> IF i = Veteran THEN e ELSE None] /\ hired = {e.code}
      BY <2>1 DEF Init
    <3>2. e \in Employee
      BY StartAssumption DEF Employee
    <3>3. \A i \in Ids : Exists(i) => employees[i].unit \in Standing \cup {None}
      BY <2>1, <3>1, StartAssumption, NoneAssumption DEF Init, Exists, Standing
    <3>4. QED
      BY <2>1, <3>1, <3>2, <3>3 DEF Init, TypeInv, TypeOK, CallOK, Stage, Ahead, Employee
  <2>2. QED
    BY <2>1
<1>2. TypeInv /\ [Next]_vars => TypeInv'
  BY TypeStep
<1>3. QED
  BY <1>1, <1>2, PTL DEF Spec

\* Type correctness; units and employees that are referred to are there.
THEOREM PersonnelTypeCorrect == Spec => []TypeOK
<1>1. TypeInv => TypeOK
  BY DEF TypeInv
<1>2. QED
  BY <1>1, TypeInvariant, PTL

-----------------------------------------------------------------------------
(***************************************************************************)
(* What the step of one request leaves to the others.                      *)
(***************************************************************************)

Looked == {"find", "references", "write"}

Untouched(p) ==
    /\ stage'[p] = stage[p] /\ request'[p] = request[p]
    /\ line'[p] = line[p] /\ skipped'[p] = skipped[p]
    /\ before'[p] = before[p] /\ prior'[p] = prior[p] /\ log'[p] = log[p]

\* A request is moved by its own steps, or by a restart.
LEMMA OthersStand ==
  ASSUME TypeInv, NEW r \in Requests, Serve(r), NEW p \in Requests \ {r}
  PROVE  Untouched(p)
<1> USE DEF TypeInv, TypeOK, tables, progress, audit, history, Goto, End, Untouched
<1>1. Refuse(r) => Untouched(p)
  BY DEF Refuse
<1>2. ASSUME NEW taken, FailLine(r, taken)
      PROVE  Untouched(p)
  BY <1>2 DEF FailLine
<1>3. CASE \E q \in Asked : Receive(r, q)
  BY <1>3 DEF Receive
<1>4. CASE ReadBefore(r)
  BY <1>4 DEF ReadBefore
<1>5. CASE Find(r)
  BY <1>1, <1>5 DEF Find
<1>6. CASE References(r)
  BY <1>1, <1>2, <1>6 DEF References
<1>7. CASE Insert(r)
  <2>1. CASE Creatable(Wanted(r))
    <3>1. CASE request[r].op = "import"
      BY <1>7, <2>1, <3>1 DEF Insert
    <3>2. CASE request[r].op # "import"
      BY <1>7, <2>1, <3>2 DEF Insert
    <3>3. QED
      BY <3>1, <3>2
  <2>2. CASE ~Creatable(Wanted(r))
    BY <1>1, <1>2, <1>7, <2>2 DEF Insert
  <2>3. QED
    BY <2>1, <2>2
<1>8. CASE Update(r)
  BY <1>1, <1>8 DEF Update
<1>9. CASE Remove(r)
  BY <1>1, <1>9 DEF Remove
<1>10. CASE Template(r)
  BY <1>1, <1>10 DEF Template
<1>11. CASE CreateUnit(r)
  BY <1>1, <1>11 DEF CreateUnit
<1>12. CASE RemoveUnit(r)
  BY <1>1, <1>12 DEF RemoveUnit
<1>13. CASE Respond(r)
  BY <1>13 DEF Respond
<1>14. CASE WriteLog(r)
  BY <1>14 DEF WriteLog
<1>15. CASE Fail(r)
  BY <1>1, <1>2, <1>15 DEF Fail
<1>16. QED
  BY <1>3, <1>4, <1>5, <1>6, <1>7, <1>8, <1>9, <1>10, <1>11, <1>12, <1>13, <1>14, <1>15
     DEF Serve

\* An employee changes by one of four statements, all of which disturb the
\* requests that have looked at it; history only grows.
LEMMA RowKept ==
  ASSUME TypeInv, NEW r \in Requests, Serve(r), NEW i \in Ids
  PROVE  /\ disturbed \subseteq disturbed'
         /\ hired \subseteq hired'
         /\ \/ employees'[i] = employees[i]
            \/ /\ Insert(r) /\ i \in FreeIds(Wanted(r))
               /\ employees'[i] = NewEmployee(Wanted(r)) /\ Wanted(r).code \in hired'
            \/ /\ Update(r) /\ request[r].id = i /\ Exists(i)
               /\ employees'[i] = Changed(employees[i], request[r])
               /\ prior'[r] = employees[i] /\ stage'[r] = "respond"
               /\ Watching(r, {i}) \subseteq disturbed'
            \/ /\ Remove(r) /\ request[r].id = i /\ Exists(i)
               /\ employees'[i] = Gone
               /\ prior'[r] = employees[i] /\ stage'[r] = "respond"
               /\ Watching(r, {i}) \subseteq disturbed'
            \/ /\ RemoveUnit(r) /\ i \in Members(request[r].unit)
               /\ employees'[i] = [employees[i] EXCEPT !.unit = None]
               /\ Watching(r, {i}) \subseteq disturbed'
<1> DEFINE Kept == disturbed' = disturbed /\ hired' = hired /\ employees' = employees
<1> USE DEF tables, progress, audit, history
<1>1. Refuse(r) => Kept
  BY DEF Refuse
<1>2. ASSUME NEW taken, FailLine(r, taken)
      PROVE  Kept
  BY <1>2 DEF FailLine
<1>3. CASE Insert(r)
  <2>1. CASE Creatable(Wanted(r))
    <3>1. PICK j \in FreeIds(Wanted(r)) :
             employees' = [employees EXCEPT ![j] = NewEmployee(Wanted(r))]
      BY <1>3, <2>1 DEF Insert
    <3>2. disturbed' = disturbed /\ hired' = hired \cup {Wanted(r).code}
      BY <1>3, <2>1 DEF Insert
    <3>3. employees'[i] = IF i = j THEN NewEmployee(Wanted(r)) ELSE employees[i]
      BY <3>1 DEF TypeInv, TypeOK
    <3>4. QED
      BY <1>3, <3>1, <3>2, <3>3
  <2>2. CASE ~Creatable(Wanted(r))
    BY <1>1, <1>2, <1>3, <2>2 DEF Insert
  <2>3. QED
    BY <2>1, <2>2
<1>4. CASE Update(r)
  <2>1. CASE Refuse(r)
    BY <1>1, <2>1
  <2>2. CASE ~Refuse(r)
    <3> DEFINE q == request[r]
    <3>1. /\ Exists(q.id)
          /\ employees' = [employees EXCEPT ![q.id] = Changed(@, q)]
          /\ prior' = [prior EXCEPT ![r] = employees[q.id]]
          /\ disturbed' = disturbed \cup Watching(r, {q.id})
          /\ stage' = [stage EXCEPT ![r] = "respond"]
          /\ hired' = hired
      BY <1>4, <2>2 DEF Update, Goto
    <3>2. prior'[r] = employees[q.id] /\ stage'[r] = "respond"
      BY <3>1 DEF TypeInv, TypeOK
    <3>3. CASE q.id = i
      <4>1. employees'[i] = Changed(employees[i], q)
        BY <3>1, <3>3 DEF TypeInv, TypeOK
      <4>2. Exists(i) /\ prior'[r] = employees[i] /\ Watching(r, {i}) \subseteq disturbed'
        BY <3>1, <3>2, <3>3
      <4>3. QED
        BY <1>4, <3>1, <3>2, <3>3, <4>1, <4>2
    <3>4. CASE q.id # i
      <4>1. employees'[i] = employees[i]
        BY <3>1, <3>4 DEF TypeInv, TypeOK
      <4>2. QED
        BY <3>1, <4>1
    <3>5. QED
      BY <3>3, <3>4
  <2>3. QED
    BY <2>1, <2>2
<1>5. CASE Remove(r)
  <2>1. CASE Refuse(r)
    BY <1>1, <2>1
  <2>2. CASE ~Refuse(r)
    <3> DEFINE j == request[r].id
    <3>1. /\ Exists(j)
          /\ employees' = [employees EXCEPT ![j] = Gone]
          /\ prior' = [prior EXCEPT ![r] = employees[j]]
          /\ disturbed' = disturbed \cup Watching(r, {j})
          /\ stage' = [stage EXCEPT ![r] = "respond"]
          /\ hired' = hired
      BY <1>5, <2>2 DEF Remove, Goto
    <3>2. prior'[r] = employees[j] /\ stage'[r] = "respond"
      BY <3>1 DEF TypeInv, TypeOK
    <3>3. CASE j = i
      <4>1. employees'[i] = Gone
        BY <3>1, <3>3 DEF TypeInv, TypeOK
      <4>2. Exists(i) /\ prior'[r] = employees[i] /\ Watching(r, {i}) \subseteq disturbed'
        BY <3>1, <3>2, <3>3
      <4>3. QED
        BY <1>5, <3>1, <3>2, <3>3, <4>1, <4>2
    <3>4. CASE j # i
      <4>1. employees'[i] = employees[i]
        BY <3>1, <3>4 DEF TypeInv, TypeOK
      <4>2. QED
        BY <3>1, <4>1
    <3>5. QED
      BY <3>3, <3>4
  <2>3. QED
    BY <2>1, <2>2
<1>6. CASE RemoveUnit(r)
  <2>1. CASE Refuse(r)
    BY <1>1, <2>1
  <2>2. CASE ~Refuse(r)
    <3>1. /\ employees' = [j \in Ids |-> IF j \in Members(request[r].unit)
                                         THEN [employees[j] EXCEPT !.unit = None]
                                         ELSE employees[j]]
          /\ disturbed' = disturbed \cup Watching(r, Members(request[r].unit))
          /\ hired' = hired
      BY <1>6, <2>2 DEF RemoveUnit
    <3>2. i \in Members(request[r].unit) =>
              Watching(r, {i}) \subseteq Watching(r, Members(request[r].unit))
      BY DEF Watching
    <3>3. QED
      BY <1>6, <3>1, <3>2
  <2>3. QED
    BY <2>1, <2>2
<1>7. CASE \/ \E q \in Asked : Receive(r, q)
           \/ ReadBefore(r) \/ Find(r) \/ References(r) \/ Template(r) \/ CreateUnit(r)
           \/ Respond(r) \/ WriteLog(r) \/ Fail(r)
  <2>1. Kept
    BY <1>1, <1>2, <1>7 DEF Receive, ReadBefore, Find, References, Template, CreateUnit,
                            Respond, WriteLog, Fail
  <2>2. QED
    BY <2>1
<1>8. QED
  BY <1>3, <1>4, <1>5, <1>6, <1>7 DEF Serve
-----------------------------------------------------------------------------
(***************************************************************************)
(* What a request that changes a row has read of it.                       *)
(***************************************************************************)

Changing(p) == request[p].op \in {"update", "remove"}

ImageInv(p) ==
    /\ stage[p] \in {"idle", "before"} => before[p] = None
    /\ (stage[p] \in Looked /\ Changing(p)) =>
           p \in disturbed \/ before[p] \in {None, employees[request[p].id]}
    /\ (stage[p] \in {"respond", "done"} /\ Changing(p)) =>
           /\ prior[p] # None
           /\ p \in disturbed \/ before[p] \in {None, prior[p]}
    /\ log[p] # "none" => stage[p] = "done"

\* The step of another request.
LEMMA ImageOthers ==
  ASSUME TypeInv, NEW r \in Requests, Serve(r), NEW p \in Requests \ {r}, ImageInv(p)
  PROVE  ImageInv(p)'
<1>1. Untouched(p)
  BY OthersStand
<1>2. CASE stage[p] \in Looked /\ Changing(p)
  <2> DEFINE i == request[p].id
  <2>1. i \in Ids
    BY <1>2, AskedFields DEF TypeInv, CallOK, Looked, Changing
  <2>2. p \in Watching(r, {i})
    BY <1>2 DEF Watching, Looked, Changing
  <2>3. /\ disturbed \subseteq disturbed'
        /\ \/ employees'[i] = employees[i]
           \/ ~Exists(i)
           \/ Watching(r, {i}) \subseteq disturbed'
    BY <2>1, RowKept, FreeIsNoEmployee
  <2>4. before[p] \in Employee \cup {None}
    BY DEF TypeInv, TypeOK
  <2>5. p \in disturbed' \/ before[p] \in {None, employees'[i]}
    BY <1>2, <2>2, <2>3, <2>4 DEF ImageInv, Exists
  <2>6. QED
    BY <1>1, <1>2, <2>5 DEF ImageInv, Untouched, Looked, Changing
<1>3. CASE ~(stage[p] \in Looked /\ Changing(p))
  <2>1. \E i \in Ids : TRUE
    BY StartAssumption
  <2>2. disturbed \subseteq disturbed'
    BY <2>1, RowKept
  <2>3. QED
    BY <1>1, <1>3, <2>2 DEF ImageInv, Untouched, Changing
<1>4. QED
  BY <1>2, <1>3

\* Its own step.
LEMMA ImageOwn ==
  ASSUME TypeInv, NEW r \in Requests, Serve(r), ImageInv(r)
  PROVE  ImageInv(r)'
<1> USE DEF TypeInv, TypeOK, tables, progress, audit, history, Goto, Looked, Changing
<1>1. ASSUME Refuse(r), stage[r] \in Ahead
      PROVE  ImageInv(r)'
  <2>1. log[r] = "none"
    BY <1>1 DEF ImageInv, Ahead
  <2>2. stage'[r] = "refused" /\ log'[r] = "none"
    BY <1>1, <2>1 DEF Refuse, End, Logs
  <2>3. QED
    BY <2>2 DEF ImageInv
<1>2. ASSUME NEW taken, FailLine(r, taken), stage[r] \in Ahead
      PROVE  ImageInv(r)'
  <2>1. log[r] = "none" /\ request[r].op = "import"
    BY <1>2 DEF ImageInv, FailLine, Ahead
  <2>2. /\ stage'[r] \in {"respond", "write", "references"}
        /\ log' = log /\ request' = request
    BY <1>2, <2>1, NextLine DEF FailLine
  <2>3. QED
    BY <2>1, <2>2 DEF ImageInv
<1>3. ASSUME NEW q \in Asked, Receive(r, q)
      PROVE  ImageInv(r)'
  <2>1. /\ stage'[r] = FirstStep(q) /\ request'[r] = q
        /\ before[r] = None /\ before' = before /\ log'[r] = "none"
    BY <1>3 DEF Receive, ImageInv
  <2>2. FirstStep(q) \in Ahead
    BY FirstStepStage
  <2>3. QED
    BY <2>1, <2>2 DEF ImageInv, Ahead
<1>4. CASE ReadBefore(r)
  BY <1>4 DEF ReadBefore, ImageInv
<1>5. CASE Find(r)
  BY <1>1, <1>5 DEF Find, ImageInv, Ahead
<1>6. CASE References(r)
  BY <1>1, <1>2, <1>6 DEF References, ImageInv, Ahead
<1>7. CASE Insert(r)
  <2>1. CASE Refuse(r) \/ FailLine(r, Taken(Wanted(r).code))
    BY <1>1, <1>2, <1>7, <2>1 DEF Insert, Ahead
  <2>2. CASE ~(Refuse(r) \/ FailLine(r, Taken(Wanted(r).code)))
    <3>1. /\ request[r].op \in {"create", "import"} /\ stage[r] = "write"
          /\ request' = request /\ log' = log
          /\ stage'[r] \in {"respond", "write", "references"}
      <4>1. CASE request[r].op = "import"
        BY <1>7, <2>2, <4>1, NextLine DEF Insert, Ahead
      <4>2. CASE request[r].op # "import"
        BY <1>7, <2>2, <4>2 DEF Insert
      <4>3. QED
        BY <4>1, <4>2
    <3>2. QED
      BY <3>1 DEF ImageInv
  <2>3. QED
    BY <2>1, <2>2
<1>8. CASE Update(r) \/ Remove(r)
  <2>1. CASE Refuse(r)
    BY <1>1, <1>8, <2>1 DEF Update, Remove, Ahead
  <2>2. CASE ~Refuse(r)
    <3>1. /\ stage[r] = "write" /\ Changing(r)
          /\ Exists(request[r].id)
          /\ prior' = [prior EXCEPT ![r] = employees[request[r].id]]
          /\ disturbed \subseteq disturbed'
          /\ stage' = [stage EXCEPT ![r] = "respond"]
          /\ request' = request /\ before' = before /\ log' = log
      BY <1>8, <2>2 DEF Update, Remove
    <3>2. prior'[r] = employees[request[r].id] /\ prior'[r] # None /\ stage'[r] = "respond"
      BY <3>1, NoneAssumption DEF Exists
    <3>3. log'[r] = "none"
      BY <3>1 DEF ImageInv
    <3>4. QED
      BY <3>1, <3>2, <3>3 DEF ImageInv
  <2>3. QED
    BY <2>1, <2>2
<1>9. CASE Template(r) \/ CreateUnit(r) \/ RemoveUnit(r)
  <2>1. CASE Refuse(r)
    BY <1>1, <1>9, <2>1 DEF Template, CreateUnit, RemoveUnit, Ahead
  <2>2. CASE ~Refuse(r)
    <3>1. /\ stage[r] = "write" /\ ~Changing(r)
          /\ stage'[r] = "respond" /\ request' = request /\ log' = log
      BY <1>9, <2>2 DEF Template, CreateUnit, RemoveUnit
    <3>2. QED
      BY <3>1 DEF ImageInv
  <2>3. QED
    BY <2>1, <2>2
<1>10. CASE Respond(r)
  BY <1>10 DEF Respond, End, ImageInv
<1>11. CASE WriteLog(r)
  BY <1>11 DEF WriteLog, ImageInv
<1>12. CASE Fail(r)
  BY <1>1, <1>2, <1>12 DEF Fail, Ahead
<1>13. QED
  BY <1>3, <1>4, <1>5, <1>6, <1>7, <1>8, <1>9, <1>10, <1>11, <1>12 DEF Serve

LEMMA ImageRestart ==
  ASSUME TypeInv, Restart, NEW p \in Requests, ImageInv(p)
  PROVE  ImageInv(p)'
  BY DEF Restart, ImageInv, TypeInv, TypeOK, tables, history, Looked, Changing

LEMMA ImageStutter ==
  ASSUME UNCHANGED vars, NEW p \in Requests, ImageInv(p)
  PROVE  ImageInv(p)'
  BY DEF vars, tables, progress, audit, history, ImageInv, Looked, Changing

LEMMA ImageInvariant == Spec => [](\A p \in Requests : ImageInv(p))
<1>1. Init => \A p \in Requests : ImageInv(p)
  BY DEF Init, ImageInv, Looked
<1>2. TypeInv /\ (\A p \in Requests : ImageInv(p)) /\ [Next]_vars
      => (\A p \in Requests : ImageInv(p))'
  <2> SUFFICES ASSUME TypeInv, \A p \in Requests : ImageInv(p), [Next]_vars,
                      NEW p \in Requests
               PROVE  ImageInv(p)'
    OBVIOUS
  <2>1. ASSUME NEW r \in Requests, Serve(r)
        PROVE  ImageInv(p)'
    <3>1. CASE p = r
      BY <2>1, <3>1, ImageOwn
    <3>2. CASE p # r
      BY <2>1, <3>2, ImageOthers
    <3>3. QED
      BY <3>1, <3>2
  <2>2. CASE Restart
    BY <2>2, ImageRestart
  <2>3. CASE UNCHANGED vars
    BY <2>3, ImageStutter
  <2>4. QED
    BY <2>1, <2>2, <2>3 DEF Next
<1>3. QED
  BY <1>1, <1>2, TypeInvariant, PTL DEF Spec

\* What the audit log holds of a change was so, unless the row was disturbed.
THEOREM PersonnelImagesAreExact == Spec => []ImagesAreExact
<1>1. (\A p \in Requests : ImageInv(p)) => ImagesAreExact
  BY DEF ImageInv, ImagesAreExact, Changing
<1>2. QED
  BY <1>1, ImageInvariant, PTL
-----------------------------------------------------------------------------
(***************************************************************************)
(* What a request that deletes a row has checked of it.                    *)
(***************************************************************************)

QuietInv(p) ==
    /\ stage[p] = "references" => request[p].op # "remove"
    /\ (stage[p] = "write" /\ request[p].op = "remove") =>
           \/ p \in disturbed
           \/ /\ Exists(request[p].id)
              /\ employees[request[p].id].status = "TERMINATED"

LEMMA QuietOthers ==
  ASSUME TypeInv, NEW r \in Requests, Serve(r), NEW p \in Requests \ {r}, QuietInv(p)
  PROVE  QuietInv(p)'
<1>1. Untouched(p)
  BY OthersStand
<1>2. CASE stage[p] = "write" /\ request[p].op = "remove"
  <2> DEFINE i == request[p].id
  <2>1. i \in Ids
    BY <1>2, AskedFields DEF TypeInv, CallOK
  <2>2. p \in Watching(r, {i})
    BY <1>2 DEF Watching
  <2>3. /\ disturbed \subseteq disturbed'
        /\ \/ employees'[i] = employees[i]
           \/ ~Exists(i)
           \/ Watching(r, {i}) \subseteq disturbed'
    BY <2>1, RowKept, FreeIsNoEmployee
  <2>4. \/ p \in disturbed'
        \/ employees'[i] \in Employee /\ employees'[i].status = "TERMINATED"
    BY <1>2, <2>2, <2>3 DEF QuietInv, Exists
  <2>5. QED
    BY <1>1, <1>2, <2>4 DEF QuietInv, Untouched, Exists
<1>3. CASE ~(stage[p] = "write" /\ request[p].op = "remove")
  BY <1>1, <1>3 DEF QuietInv, Untouched
<1>4. QED
  BY <1>2, <1>3

LEMMA QuietOwn ==
  ASSUME TypeInv, NEW r \in Requests, Serve(r), QuietInv(r)
  PROVE  QuietInv(r)'
<1> USE DEF TypeInv, TypeOK, tables, progress, audit, history, Goto
<1>1. Refuse(r) => QuietInv(r)'
  BY DEF Refuse, End, QuietInv
<1>2. ASSUME NEW taken, FailLine(r, taken), stage[r] \in Ahead
      PROVE  QuietInv(r)'
  BY <1>2 DEF FailLine, QuietInv
<1>3. ASSUME NEW q \in Asked, Receive(r, q)
      PROVE  QuietInv(r)'
  <2>1. stage'[r] = FirstStep(q) /\ request'[r] = q
    BY <1>3 DEF Receive
  <2>2. q.op = "remove" => FirstStep(q) = "before"
    BY DEF FirstStep
  <2>3. QED
    BY <2>1, <2>2 DEF QuietInv
<1>4. CASE ReadBefore(r)
  BY <1>4 DEF ReadBefore, QuietInv
<1>5. CASE Find(r)
  <2>1. CASE /\ Found(request[r])
             /\ Goto(r, IF request[r].op = "update" /\ request[r].unit # None
                        THEN "references" ELSE "write")
             /\ UNCHANGED <<tables, request, line, audit, history>>
    <3>1. request[r].op = "remove" =>
              Exists(request[r].id) /\ employees[request[r].id].status = "TERMINATED"
      BY <2>1 DEF Found, Removable
    <3>2. CASE request[r].op = "remove"
      BY <2>1, <3>1, <3>2 DEF QuietInv, Exists
    <3>3. CASE request[r].op # "remove"
      BY <2>1, <3>3 DEF QuietInv
    <3>4. QED
      BY <3>2, <3>3
  <2>2. QED
    BY <1>1, <1>5, <2>1 DEF Find
<1>6. CASE References(r)
  BY <1>1, <1>2, <1>6 DEF References, QuietInv, Ahead
<1>7. CASE Insert(r)
  BY <1>7 DEF Insert, FailLine, Refuse, End, QuietInv
<1>8. CASE Update(r) \/ Remove(r) \/ Template(r) \/ CreateUnit(r) \/ RemoveUnit(r)
  <2>1. CASE Refuse(r)
    BY <1>1, <2>1
  <2>2. CASE ~Refuse(r)
    <3>1. stage' = [stage EXCEPT ![r] = "respond"]
      BY <1>8, <2>2 DEF Update, Remove, Template, CreateUnit, RemoveUnit
    <3>2. QED
      BY <3>1 DEF QuietInv
  <2>3. QED
    BY <2>1, <2>2
<1>9. CASE Respond(r)
  BY <1>9 DEF Respond, End, QuietInv
<1>10. CASE WriteLog(r)
  BY <1>10 DEF WriteLog, QuietInv, Exists
<1>11. CASE Fail(r)
  BY <1>1, <1>2, <1>11 DEF Fail, Ahead
<1>12. QED
  BY <1>3, <1>4, <1>5, <1>6, <1>7, <1>8, <1>9, <1>10, <1>11 DEF Serve

LEMMA QuietInvariant == Spec => [](\A p \in Requests : QuietInv(p))
<1>1. Init => \A p \in Requests : QuietInv(p)
  BY DEF Init, QuietInv
<1>2. TypeInv /\ (\A p \in Requests : QuietInv(p)) /\ [Next]_vars
      => (\A p \in Requests : QuietInv(p))'
  <2> SUFFICES ASSUME TypeInv, \A p \in Requests : QuietInv(p), [Next]_vars,
                      NEW p \in Requests
               PROVE  QuietInv(p)'
    OBVIOUS
  <2>1. ASSUME NEW r \in Requests, Serve(r)
        PROVE  QuietInv(p)'
    <3>1. CASE p = r
      BY <2>1, <3>1, QuietOwn
    <3>2. CASE p # r
      BY <2>1, <3>2, QuietOthers
    <3>3. QED
      BY <3>1, <3>2
  <2>2. CASE Restart
    BY <2>2 DEF Restart, QuietInv, TypeInv, TypeOK, tables, history, Exists
  <2>3. CASE UNCHANGED vars
    BY <2>3 DEF vars, tables, progress, audit, history, QuietInv, Exists
  <2>4. QED
    BY <2>1, <2>2, <2>3 DEF Next
<1>3. QED
  BY <1>1, <1>2, TypeInvariant, PTL DEF Spec

\* Who is deleted was terminated, unless the row changed under the check.
THEOREM PersonnelQuietRemoval == Spec => QuietRemoval
<1> DEFINE Quiet(i) ==
      (Exists(i) /\ employees'[i] = Gone) =>
          \/ employees[i].status = "TERMINATED"
          \/ \E r \in disturbed :
                /\ request[r].op = "remove" /\ request[r].id = i
                /\ stage[r] = "write" /\ stage'[r] = "respond"
<1>1. ASSUME TypeInv, \A p \in Requests : QuietInv(p), [Next]_vars, NEW i \in Ids
      PROVE  Quiet(i)
  <2> SUFFICES ASSUME Exists(i), employees'[i] = Gone
               PROVE  \/ employees[i].status = "TERMINATED"
                      \/ \E r \in disturbed :
                            /\ request[r].op = "remove" /\ request[r].id = i
                            /\ stage[r] = "write" /\ stage'[r] = "respond"
    OBVIOUS
  <2>1. Gone \notin Employee /\ None \notin Employee
    BY NoneAssumption
  <2>2. employees[i] \in Employee /\ employees'[i] # employees[i]
    BY <2>1 DEF Exists
  <2>3. PICK r \in Requests : Serve(r)
    BY <1>1, <2>2 DEF Next, Restart, vars, tables
  <2>4. ~(Update(r) /\ request[r].id = i /\ employees'[i] = Changed(employees[i], request[r]))
    <3>1. SUFFICES ASSUME Update(r)
                   PROVE  Changed(employees[i], request[r]) # Gone
      OBVIOUS
    <3>2. request[r] \in Request
      BY <1>1, <3>1, AskedFields DEF Update, TypeInv, CallOK
    <3>3. QED
      BY <2>1, <2>2, <3>2, ChangedIsEmployee
  <2>5. ~(employees'[i] = [employees[i] EXCEPT !.unit = None])
    BY <2>1, <2>2, WithoutUnit
  <2>6. Remove(r) /\ request[r].id = i /\ stage'[r] = "respond"
    <3>1. i \notin FreeIds(Wanted(r))
      BY <2>2, FreeIsNoEmployee DEF Exists
    <3>2. QED
      BY <1>1, <2>1, <2>2, <2>3, <2>4, <2>5, <3>1, RowKept
  <2>7. request[r].op = "remove" /\ stage[r] = "write"
    BY <2>6 DEF Remove
  <2>8. QED
    BY <1>1, <2>6, <2>7 DEF QuietInv
<1>2. TypeInv /\ (\A p \in Requests : QuietInv(p)) /\ [Next]_vars
      => [\A i \in Ids : Quiet(i)]_vars
  BY <1>1
<1>3. QED
  BY <1>2, TypeInvariant, QuietInvariant, PTL DEF Spec, QuietRemoval

-----------------------------------------------------------------------------
(***************************************************************************)
(* What an import has done.                                                *)
(***************************************************************************)

Passed(p, k) == request[p].file[k].code \in hired \/ k \in skipped[p]

ImportInv(p) ==
    /\ (stage[p] \in Ahead /\ request[p].op = "import") =>
           \A k \in 1 .. line[p] - 1 : Passed(p, k)
    /\ (stage[p] \in {"respond", "done"} /\ request[p].op = "import") =>
           \A k \in 1 .. Len(request[p].file) : Passed(p, k)

HiredInv == \A i \in Ids : Exists(i) => employees[i].code \in hired

LEMMA HiredStep ==
  ASSUME TypeInv, NEW r \in Requests, Serve(r), HiredInv
  PROVE  HiredInv'
<1> SUFFICES ASSUME NEW i \in Ids, employees'[i] \in Employee
             PROVE  employees'[i].code \in hired'
  BY DEF HiredInv, Exists
<1>1. Gone \notin Employee
  BY NoneAssumption
<1>2. hired \subseteq hired'
  BY RowKept
<1>3. CASE employees'[i] = employees[i]
  BY <1>2, <1>3 DEF HiredInv, Exists
<1>4. CASE employees'[i] = NewEmployee(Wanted(r)) /\ Wanted(r).code \in hired'
  BY <1>4 DEF NewEmployee
<1>5. CASE Update(r) /\ Exists(i) /\ employees'[i] = Changed(employees[i], request[r])
  BY <1>2, <1>5 DEF HiredInv, Changed
<1>6. CASE RemoveUnit(r) /\ i \in Members(request[r].unit)
           /\ employees'[i] = [employees[i] EXCEPT !.unit = None]
  BY <1>2, <1>6, WithoutUnit DEF HiredInv, Members, Exists
<1>7. QED
  BY <1>1, <1>3, <1>4, <1>5, <1>6, RowKept

LEMMA ImportOthers ==
  ASSUME TypeInv, NEW r \in Requests, Serve(r), NEW p \in Requests \ {r}, ImportInv(p)
  PROVE  ImportInv(p)'
<1>1. Untouched(p)
  BY OthersStand
<1>2. hired \subseteq hired'
  BY StartAssumption, RowKept
<1>3. QED
  BY <1>1, <1>2 DEF ImportInv, Untouched, Passed

\* The line that an import was at is passed.
LEMMA ImportAdvances ==
  ASSUME TypeInv, NEW r \in Requests, ImportInv(r),
         stage[r] \in Ahead, request[r].op = "import",
         \/ stage'[r] = StepAfterLine(r)
         \/ stage'[r] = StepAfterFailure(r),
         request' = request, line'[r] = line[r] + 1,
         hired \subseteq hired', skipped[r] \subseteq skipped'[r],
         \/ request[r].file[line[r]].code \in hired'
         \/ line[r] \in skipped'[r]
  PROVE  ImportInv(r)'
<1>1. \A k \in 1 .. line[r] : Passed(r, k)'
  <2>1. ASSUME NEW k \in 1 .. line[r]
        PROVE  Passed(r, k)'
    <3>1. CASE k = line[r]
      BY <3>1 DEF Passed
    <3>2. CASE k # line[r]
      <4>1. k \in 1 .. line[r] - 1
        BY <3>2, NextLine
      <4>2. Passed(r, k)
        BY <4>1 DEF ImportInv
      <4>3. QED
        BY <4>2 DEF Passed
    <3>3. QED
      BY <3>1, <3>2
  <2>2. QED
    BY <2>1
<1>2. CASE stage'[r] = "respond" /\ line[r] = Len(request[r].file)
  BY <1>1, <1>2 DEF ImportInv, Ahead
<1>3. CASE stage'[r] \in {"write", "references"}
  <2>1. line'[r] - 1 = line[r]
    BY NextLine
  <2>2. QED
    BY <1>1, <1>3, <2>1 DEF ImportInv
<1>4. QED
  BY <1>2, <1>3, NextLine

LEMMA ImportOwn ==
  ASSUME TypeInv, NEW r \in Requests, Serve(r), ImportInv(r), HiredInv
  PROVE  ImportInv(r)'
<1> USE DEF TypeInv, TypeOK, tables, progress, audit, history, Goto
<1>1. Refuse(r) => ImportInv(r)'
  BY DEF Refuse, End, ImportInv, Ahead
<1>2. ASSUME FailLine(r, FALSE), stage[r] \in Ahead
      PROVE  ImportInv(r)'
  <2>1. /\ request[r].op = "import" /\ stage'[r] = StepAfterFailure(r)
        /\ request' = request /\ line'[r] = line[r] + 1 /\ hired' = hired
        /\ skipped'[r] = skipped[r] \cup {line[r]}
    BY <1>2 DEF FailLine
  <2>2. QED
    BY <1>2, <2>1, ImportAdvances
<1>3. ASSUME NEW q \in Asked, Receive(r, q)
      PROVE  ImportInv(r)'
  <2>1. stage'[r] \in Ahead /\ line'[r] = 1
    BY <1>3, FirstStepStage DEF Receive, CallOK
  <2>2. QED
    BY <2>1 DEF ImportInv, Ahead
<1>4. CASE ReadBefore(r)
  BY <1>4 DEF ReadBefore, ImportInv, Passed, Ahead
<1>5. CASE Find(r)
  BY <1>1, <1>5 DEF Find, ImportInv, Passed, Ahead
<1>6. CASE References(r)
  <2>1. stage[r] \in Ahead
    BY <1>6 DEF References, Ahead
  <2>2. CASE /\ Goto(r, "write")
             /\ UNCHANGED <<tables, request, line, audit, history>>
    BY <2>1, <2>2 DEF ImportInv, Passed, Ahead
  <2>3. QED
    BY <1>1, <1>2, <1>6, <2>1, <2>2 DEF References
<1>7. CASE Insert(r)
  <2>1. stage[r] \in Ahead
    BY <1>7 DEF Insert, Ahead
  <2>2. CASE request[r].op # "import"
    BY <1>7, <2>2 DEF Insert, FailLine, Refuse, End, ImportInv
  <2>3. CASE request[r].op = "import"
    <3>1. Wanted(r) = request[r].file[line[r]]
      BY <2>3 DEF Wanted
    <3>2. CASE FailLine(r, Taken(Wanted(r).code))
      <4>1. CASE Taken(Wanted(r).code)
        <5>1. Wanted(r).code \in hired
          BY <4>1 DEF Taken, HiredInv
        <5>2. /\ stage'[r] = StepAfterFailure(r)
              /\ request' = request /\ line'[r] = line[r] + 1 /\ hired' = hired
              /\ skipped'[r] = skipped[r]
          BY <3>2, <4>1 DEF FailLine
        <5>3. QED
          BY <2>1, <2>3, <3>1, <5>1, <5>2, ImportAdvances
      <4>2. CASE ~Taken(Wanted(r).code)
        <5>1. Taken(Wanted(r).code) = FALSE
          BY <4>2 DEF Taken
        <5>2. FailLine(r, FALSE)
          BY <3>2, <5>1
        <5>3. QED
          BY <1>2, <2>1, <5>2
      <4>3. QED
        BY <4>1, <4>2
    <3>3. CASE ~FailLine(r, Taken(Wanted(r).code))
      <4>1. /\ stage'[r] = StepAfterLine(r)
            /\ request' = request /\ line'[r] = line[r] + 1
            /\ hired' = hired \cup {Wanted(r).code}
            /\ skipped' = skipped
        BY <1>7, <2>3, <3>3 DEF Insert
      <4>2. QED
        BY <2>1, <2>3, <3>1, <4>1, ImportAdvances
    <3>4. QED
      BY <3>2, <3>3
  <2>4. QED
    BY <2>2, <2>3
<1>8. CASE Update(r) \/ Remove(r) \/ Template(r) \/ CreateUnit(r) \/ RemoveUnit(r)
  <2>1. CASE Refuse(r)
    BY <1>1, <2>1
  <2>2. CASE ~Refuse(r)
    <3>1. stage' = [stage EXCEPT ![r] = "respond"] /\ request' = request
          /\ request[r].op # "import"
      BY <1>8, <2>2 DEF Update, Remove, Template, CreateUnit, RemoveUnit
    <3>2. QED
      BY <3>1 DEF ImportInv
  <2>3. QED
    BY <2>1, <2>2
<1>9. CASE Respond(r)
  BY <1>9 DEF Respond, End, ImportInv, Passed, Ahead
<1>10. CASE WriteLog(r)
  BY <1>10 DEF WriteLog, ImportInv, Passed
<1>11. CASE Fail(r)
  BY <1>1, <1>2, <1>11 DEF Fail, Ahead
<1>12. QED
  BY <1>3, <1>4, <1>5, <1>6, <1>7, <1>8, <1>9, <1>10, <1>11 DEF Serve

LEMMA ImportInvariant == Spec => [](\A p \in Requests : ImportInv(p))
<1> DEFINE Inv == HiredInv /\ \A p \in Requests : ImportInv(p)
<1>1. Init => Inv
  <2> SUFFICES ASSUME Init
               PROVE  Inv
    OBVIOUS
  <2>1. HiredInv
    BY NoneAssumption DEF Init, HiredInv, Exists
  <2>2. \A p \in Requests : ImportInv(p)
    BY DEF Init, ImportInv, Ahead
  <2>3. QED
    BY <2>1, <2>2
<1>2. TypeInv /\ Inv /\ [Next]_vars => Inv'
  <2> SUFFICES ASSUME TypeInv, HiredInv, \A p \in Requests : ImportInv(p), [Next]_vars
               PROVE  HiredInv' /\ \A p \in Requests : ImportInv(p)'
    OBVIOUS
  <2>1. ASSUME NEW r \in Requests, Serve(r)
        PROVE  HiredInv' /\ \A p \in Requests : ImportInv(p)'
    <3>1. ImportInv(r)'
      BY <2>1, ImportOwn
    <3>2. \A p \in Requests \ {r} : ImportInv(p)'
      BY <2>1, ImportOthers
    <3>3. QED
      BY <2>1, <3>1, <3>2, HiredStep
  <2>2. CASE Restart
    <3>1. HiredInv'
      BY <2>2 DEF Restart, HiredInv, tables, history, Exists
    <3>2. ASSUME NEW p \in Requests
          PROVE  ImportInv(p)'
      BY <2>2 DEF Restart, ImportInv, Passed, TypeInv, TypeOK, tables, history, Ahead
    <3>3. QED
      BY <3>1, <3>2
  <2>3. CASE UNCHANGED vars
    BY <2>3 DEF vars, tables, progress, audit, history, HiredInv, ImportInv, Passed, Exists
  <2>4. QED
    BY <2>1, <2>2, <2>3 DEF Next
<1>3. QED
  BY <1>1, <1>2, TypeInvariant, PTL DEF Spec

\* An import that was answered has hired who is in its file.
THEOREM PersonnelImportCompletes == Spec => []ImportCompletes
<1>1. (\A p \in Requests : ImportInv(p)) => ImportCompletes
  BY DEF ImportInv, ImportCompletes, Passed
<1>2. QED
  BY <1>1, ImportInvariant, PTL

-----------------------------------------------------------------------------
(***************************************************************************)
(* What identifies an employee, and what holds where nobody interferes.    *)
(***************************************************************************)

\* A code stands for one employee at most at a time, however creates and imports
\* overlap (employees.service.ts 11, 17; the unique constraint).
CodesAreUnique ==
    \A i, j \in Ids :
        (Exists(i) /\ Exists(j) /\ employees[i].code = employees[j].code) => i = j

\* An employee that a step leaves there has kept its code, or is the only one
\* the step has hired, with a code that nobody had.
LEMMA CodeKept ==
  ASSUME TypeInv, [Next]_vars, NEW i \in Ids, employees'[i] \in Employee
  PROVE  \/ Exists(i) /\ employees'[i].code = employees[i].code
         \/ /\ ~Exists(i)
            /\ ~Taken(employees'[i].code)
            /\ \A k \in Ids \ {i} : employees'[k] = employees[k]
<1>0. Gone \notin Employee /\ None \notin Employee
  BY NoneAssumption
<1>1. CASE employees'[i] = employees[i]
  BY <1>1 DEF Exists
<1>2. CASE employees'[i] # employees[i]
  <2>1. PICK r \in Requests : Serve(r)
    BY <1>2 DEF Next, Restart, vars, tables
  <2>2. CASE Insert(r) /\ ~Exists(i) /\ employees'[i] = NewEmployee(Wanted(r))
    <3>1. ~Refuse(r) /\ \A taken : ~FailLine(r, taken)
      BY <1>2, <2>2 DEF Refuse, FailLine, tables
    <3>2. /\ ~Taken(Wanted(r).code)
          /\ \E k \in FreeIds(Wanted(r)) :
                employees' = [employees EXCEPT ![k] = NewEmployee(Wanted(r))]
      BY <2>2, <3>1 DEF Insert, Creatable
    <3>3. employees' = [employees EXCEPT ![i] = NewEmployee(Wanted(r))]
      BY <1>2, <3>2 DEF TypeInv, TypeOK
    <3>4. \A k \in Ids \ {i} : employees'[k] = employees[k]
      BY <3>3 DEF TypeInv, TypeOK
    <3>5. employees'[i].code = Wanted(r).code
      BY <2>2 DEF NewEmployee
    <3>6. QED
      BY <2>2, <3>2, <3>4, <3>5
  <2>3. CASE Exists(i) /\ employees'[i] = Changed(employees[i], request[r])
    BY <2>3 DEF Changed
  <2>4. CASE i \in Members(request[r].unit) /\ employees'[i] = [employees[i] EXCEPT !.unit = None]
    BY <2>4, WithoutUnit DEF Members, Exists
  <2>5. QED
    BY <1>0, <1>2, <2>1, <2>2, <2>3, <2>4, RowKept, FreeIsNoEmployee
<1>3. QED
  BY <1>1, <1>2

\* Codes stay unique.
THEOREM PersonnelCodesAreUnique == Spec => []CodesAreUnique
<1>1. Init => CodesAreUnique
  <2>1. ASSUME Init
        PROVE  \A i \in Ids : Exists(i) => i = Veteran
    BY <2>1, NoneAssumption DEF Init, Exists
  <2>2. QED
    BY <2>1 DEF CodesAreUnique
<1>2. ASSUME TypeInv, CodesAreUnique, [Next]_vars
      PROVE  CodesAreUnique'
  <2> SUFFICES ASSUME NEW i \in Ids, NEW j \in Ids, i # j,
                      employees'[i] \in Employee, employees'[j] \in Employee,
                      employees'[i].code = employees'[j].code
               PROVE  FALSE
    BY DEF CodesAreUnique, Exists
  <2>1. CASE Exists(i) /\ employees'[i].code = employees[i].code
    <3>1. CASE Exists(j) /\ employees'[j].code = employees[j].code
      BY <1>2, <2>1, <3>1 DEF CodesAreUnique
    <3>2. CASE ~Taken(employees'[j].code)
      BY <2>1, <3>2 DEF Taken
    <3>3. QED
      BY <1>2, <3>1, <3>2, CodeKept
  <2>2. CASE ~Taken(employees'[i].code) /\ \A k \in Ids \ {i} : employees'[k] = employees[k]
    BY <2>2 DEF Taken, Exists
  <2>3. QED
    BY <1>2, <2>1, <2>2, CodeKept
<1>3. QED
  BY <1>1, <1>2, TypeInvariant, PTL DEF Spec

\* Action property: an id stands for one employee until the row is deleted. It
\* comes back only by the line of an import that names it, which no validation
\* keeps out (employees.service.ts 12, 17), and then without the fingerprint of
\* the one that was deleted.
IdsStandForOne ==
    [][\A i \in Ids :
          /\ (employees[i] = Gone /\ employees'[i] # Gone) =>
                 /\ i \notin templates'
                 /\ \E r \in Requests :
                       /\ request[r].op = "import" /\ stage[r] = "write"
                       /\ Wanted(r).id = i
                       /\ employees'[i] = NewEmployee(Wanted(r))
          /\ Exists(i) => \/ employees'[i] = Gone
                          \/ Exists(i)' /\ employees'[i].code = employees[i].code]_vars

\* A line that an import has for a row that was deleted names its id, and the
\* row has no template.
LEMMA Revived ==
  ASSUME TypeInv, NEW i \in Ids, NEW r \in Requests, Serve(r),
         employees[i] = Gone, employees'[i] # Gone
  PROVE  /\ i \notin templates'
         /\ request[r].op = "import" /\ stage[r] = "write"
         /\ Wanted(r).id = i
         /\ employees'[i] = NewEmployee(Wanted(r))
<1>1. ~Exists(i) /\ i \notin Members(request[r].unit)
  BY NoneAssumption DEF Exists, Members
<1>2. /\ Insert(r) /\ i \in FreeIds(Wanted(r))
      /\ employees'[i] = NewEmployee(Wanted(r))
  BY <1>1, RowKept
<1>3. Wanted(r).id = i /\ Wanted(r).id # None
  BY <1>2, NoneAssumption DEF FreeIds
<1>4. request[r].op = "import" /\ stage[r] = "write"
  BY <1>2, <1>3 DEF Wanted, Insert
<1>5. templates' = templates
  <2>1. ~Refuse(r) /\ \A taken : ~FailLine(r, taken)
    BY DEF Refuse, FailLine, tables
  <2>2. QED
    BY <1>2, <2>1 DEF Insert
<1>6. i \notin templates
  BY <1>1 DEF TypeInv, TypeOK
<1>7. QED
  BY <1>2, <1>3, <1>4, <1>5, <1>6

\* No step gives the id of an employee to another, but an import that names the
\* id of one that was deleted.
THEOREM PersonnelIdsStandForOne == Spec => IdsStandForOne
<1> DEFINE OneEach == \A i \in Ids :
              /\ (employees[i] = Gone /\ employees'[i] # Gone) =>
                     /\ i \notin templates'
                     /\ \E r \in Requests :
                           /\ request[r].op = "import" /\ stage[r] = "write"
                           /\ Wanted(r).id = i
                           /\ employees'[i] = NewEmployee(Wanted(r))
              /\ Exists(i) => \/ employees'[i] = Gone
                              \/ Exists(i)' /\ employees'[i].code = employees[i].code
<1>1. ASSUME TypeInv, [Next]_vars
      PROVE  OneEach
  <2>1. Gone \notin Employee /\ None \notin Employee /\ None # Gone
    BY NoneAssumption
  <2>2. ASSUME NEW i \in Ids, employees'[i] # employees[i]
        PROVE  \E r \in Requests : Serve(r)
    BY <1>1, <2>2 DEF Next, Restart, vars, tables
  <2>3. ASSUME NEW i \in Ids, employees[i] = Gone, employees'[i] # Gone
        PROVE  /\ i \notin templates'
               /\ \E r \in Requests :
                     /\ request[r].op = "import" /\ stage[r] = "write"
                     /\ Wanted(r).id = i
                     /\ employees'[i] = NewEmployee(Wanted(r))
    BY <1>1, <2>2, <2>3, Revived
  <2>4. ASSUME NEW i \in Ids, Exists(i)
        PROVE  employees'[i] \in Employee \cup {Gone}
    <3>1. CASE employees'[i] = employees[i]
      BY <2>4, <3>1 DEF Exists
    <3>2. CASE employees'[i] # employees[i]
      <4>1. PICK r \in Requests : Serve(r)
        BY <2>2, <3>2
      <4>2. i \notin FreeIds(Wanted(r))
        BY <2>4, FreeIsNoEmployee
      <4>3. CASE Update(r) /\ employees'[i] = Changed(employees[i], request[r])
        <5>1. request[r] \in Request
          BY <1>1, <4>3, AskedFields DEF Update, TypeInv, CallOK
        <5>2. QED
          BY <2>4, <4>3, <5>1, ChangedIsEmployee DEF Exists
      <4>4. CASE employees'[i] = [employees[i] EXCEPT !.unit = None]
        BY <2>4, <4>4, WithoutUnit DEF Exists
      <4>5. CASE employees'[i] = Gone
        BY <4>5
      <4>6. QED
        BY <1>1, <3>2, <4>1, <4>2, <4>3, <4>4, <4>5, RowKept
    <3>3. QED
      BY <3>1, <3>2
  <2>5. ASSUME NEW i \in Ids, Exists(i), employees'[i] \in Employee
        PROVE  Exists(i)' /\ employees'[i].code = employees[i].code
    BY <1>1, <2>1, <2>5, CodeKept DEF Exists
  <2>6. ASSUME NEW i \in Ids, Exists(i)
        PROVE  \/ employees'[i] = Gone
               \/ Exists(i)' /\ employees'[i].code = employees[i].code
    BY <2>4, <2>5, <2>6
  <2>7. QED
    BY <2>3, <2>6
<1>2. TypeInv /\ [Next]_vars => [OneEach]_vars
  BY <1>1
<1>3. QED
  BY <1>2, TypeInvariant, PTL DEF Spec, IdsStandForOne

-----------------------------------------------------------------------------

\* While a request that changes or deletes an employee is served, no other for
\* that employee is, and no unit is deleted.
OneRequestPerEmployee ==
    \A p, r \in Requests :
        (/\ p # r
         /\ stage[p] \in Ahead /\ request[p].op \in {"update", "remove"}
         /\ stage[r] \in Ahead) =>
            /\ request[r].op # "removeUnit"
            /\ request[r].op \in {"update", "remove"} => request[r].id # request[p].id

\* Then the images of the audit log are those of the rows that changed.
ImagesWithoutExcuse ==
    \A r \in Requests :
        (log[r] = "written" /\ request[r].op \in {"update", "remove"}) =>
            prior[r] # None /\ before[r] \in {prior[r], None}

\* And only who is terminated is deleted (employees.service.ts 16).
OnlyTerminatedRemoved ==
    [][\A i \in Ids :
          (Exists(i) /\ employees'[i] = Gone) => employees[i].status = "TERMINATED"]_vars

\* No request finds its row changed under its hands.
LEMMA NobodyDisturbed ==
  ASSUME TypeInv, OneRequestPerEmployee, [Next]_vars
  PROVE  disturbed' = disturbed
<1> USE DEF tables, progress, audit, history
<1>1. ASSUME NEW r \in Requests, Refuse(r) \/ \E taken : FailLine(r, taken)
      PROVE  disturbed' = disturbed
  BY <1>1 DEF Refuse, FailLine
<1>2. ASSUME NEW r \in Requests, Update(r) \/ Remove(r)
      PROVE  disturbed' = disturbed
  <2>1. /\ stage[r] = "write" /\ request[r].op \in {"update", "remove"}
        /\ Refuse(r) \/ disturbed' = disturbed \cup Watching(r, {request[r].id})
    BY <1>2 DEF Update, Remove
  <2>2. Watching(r, {request[r].id}) = {}
    BY <2>1 DEF Watching, OneRequestPerEmployee, Ahead
  <2>3. QED
    BY <1>1, <2>1, <2>2
<1>3. ASSUME NEW r \in Requests, RemoveUnit(r)
      PROVE  disturbed' = disturbed
  <2>1. /\ stage[r] = "write" /\ request[r].op = "removeUnit"
        /\ Refuse(r) \/ disturbed' = disturbed \cup Watching(r, Members(request[r].unit))
    BY <1>3 DEF RemoveUnit
  <2>2. Watching(r, Members(request[r].unit)) = {}
    BY <2>1 DEF Watching, OneRequestPerEmployee, Ahead
  <2>3. QED
    BY <1>1, <2>1, <2>2
<1>4. ASSUME NEW r \in Requests, Insert(r)
      PROVE  disturbed' = disturbed
  <2>1. CASE Refuse(r) \/ \E taken : FailLine(r, taken)
    BY <1>1, <2>1
  <2>2. CASE ~(Refuse(r) \/ \E taken : FailLine(r, taken))
    BY <1>4, <2>2 DEF Insert
  <2>3. QED
    BY <2>1, <2>2
<1>5. ASSUME NEW r \in Requests,
             \/ \E q \in Asked : Receive(r, q)
             \/ ReadBefore(r) \/ Find(r) \/ References(r) \/ Template(r) \/ CreateUnit(r)
             \/ Respond(r) \/ WriteLog(r) \/ Fail(r)
      PROVE  disturbed' = disturbed
  BY <1>1, <1>5 DEF Receive, ReadBefore, Find, References, Template, CreateUnit, Respond,
                    WriteLog, Fail
<1>6. CASE Restart \/ UNCHANGED vars
  BY <1>6 DEF Restart, vars
<1>7. QED
  BY <1>2, <1>3, <1>4, <1>5, <1>6 DEF Next, Serve

\* Both hold of requests that do not overlap: it is the overlap, and nothing
\* else in the handlers or the interceptor, that can break them.
THEOREM PersonnelOneAtATime ==
  Spec /\ []OneRequestPerEmployee => []ImagesWithoutExcuse /\ OnlyTerminatedRemoved
<1> DEFINE Nobody == disturbed = {}
           Quiet == \A i \in Ids :
               (Exists(i) /\ employees'[i] = Gone) =>
                   \/ employees[i].status = "TERMINATED"
                   \/ \E r \in disturbed :
                         /\ request[r].op = "remove" /\ request[r].id = i
                         /\ stage[r] = "write" /\ stage'[r] = "respond"
           Terminated == \A i \in Ids :
               (Exists(i) /\ employees'[i] = Gone) => employees[i].status = "TERMINATED"
<1>1. Init => Nobody
  BY DEF Init
<1>2. TypeInv /\ OneRequestPerEmployee /\ Nobody /\ [Next]_vars => Nobody'
  BY NobodyDisturbed
<1>3. Nobody /\ ImagesAreExact => ImagesWithoutExcuse
  BY DEF ImagesAreExact, ImagesWithoutExcuse
<1>4. Nobody /\ [Quiet]_vars => [Terminated]_vars
  OBVIOUS
<1>5. Spec => [][Quiet]_vars
  BY PersonnelQuietRemoval DEF QuietRemoval
<1>6. QED
  BY <1>1, <1>2, <1>3, <1>4, <1>5, TypeInvariant, PersonnelImagesAreExact, PTL
     DEF Spec, OnlyTerminatedRemoved
=============================================================================
