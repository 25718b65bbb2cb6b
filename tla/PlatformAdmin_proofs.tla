------------------------ MODULE PlatformAdmin_proofs -------------------------
(***************************************************************************)
(* Proofs about PlatformAdmin, for any companies, users, calls and         *)
(* lifetimes: every step of the platform is a step of the sessions or      *)
(* leaves them alone, so that what Sessions_proofs shows of the sessions   *)
(* holds of the whole; and the audit log is true. For the log the argument *)
(* is that what a call did is not undone by any other, as companies, users *)
(* and signed claims only grow.                                            *)
(***************************************************************************)
EXTENDS PlatformAdmin, Sessions_proofs

PlatformTypeOK ==
    /\ companies \in [Companies -> Status \cup {None}]
    /\ trail \subseteq Grants
    /\ task \in [Grants -> {"idle"} \cup Working \cup Over]
    /\ order \in [Grants -> Order \cup {None}]
    /\ unwritten \subseteq Grants

\* What a call that was let in asks for.
Shape(g) ==
    LET o == order[g]
    IN  /\ o \in Order
        /\ o.email # None <=> o.op = "provision"
        /\ o.status # None <=> o.op \in {"create", "update", "amend"}
        /\ o.op = "impersonate" => o.actor \in Emails

OrderOK(g) ==
    /\ (task[g] \in Working \cup {"done"} \/ g \in trail) => Shape(g)
    /\ task[g] \in {"idle", "findCode", "findEmail", "create", "find", "write", "sign"} =>
           accessTokens[g] = None /\ g \notin trail
    /\ task[g] = "sign" => order[g].op = "impersonate"
    /\ task[g] \in {"findCode", "findEmail"} => order[g].op = "provision"
    /\ task[g] = "create" => order[g].op \in {"provision", "create"}
    /\ task[g] \in {"find", "write"} => order[g].op \in {"update", "amend"}
    /\ task[g] = "log" => order[g].op \in Audited

PlatformInv ==
    /\ TypeInv
    /\ PlatformTypeOK
    /\ \A g \in Grants : OrderOK(g)

\* What a call has done.
Did(g) ==
    LET o == order[g]
    IN  /\ companies[o.company] # None
        /\ o.op = "provision" => users[o.email] # None /\ users[o.email].company = o.company
        /\ o.op = "impersonate" =>
               accessTokens[g] # None /\ accessTokens[g].company = o.company

TrailInv(g) ==
    /\ (task[g] \in {"log", "answer", "done"} /\ order[g].op \in Audited) => Did(g)
    /\ g \in trail => Did(g)
    /\ (task[g] \in {"answer", "done"} /\ order[g].op \in Audited) =>
           g \in trail \cup unwritten
    /\ g \in held => g \in trail \cup unwritten

-----------------------------------------------------------------------------
(***************************************************************************)
(* The steps of the platform, as the sessions see them.                    *)
(***************************************************************************)

LEMMA GrantNames ==
  ASSUME NEW g \in Grants
  PROVE  g \in Jtis /\ g \notin Tokens /\ g \notin Requests
  BY NamesAssumption DEF Tokens, Jtis

LEMMA FirstSteps ==
  ASSUME NEW op \in Audited \cup Unaudited
  PROVE  /\ FirstStep(op) \in {"findCode", "sign", "create", "find"}
         /\ FirstStep(op) = "findCode" => op = "provision"
         /\ FirstStep(op) = "sign" => op = "impersonate"
         /\ FirstStep(op) = "create" => op = "create"
         /\ FirstStep(op) = "find" => op \in {"update", "amend"}
  BY DEF FirstStep, Audited, Unaudited

LEMMA ImpersonationClaims ==
  ASSUME PlatformInv, NEW g \in Grants, Shape(g), order[g].op = "impersonate"
  PROVE  /\ Impersonation(order[g]) \in Claims
         /\ Impersonation(order[g]).exp <= clock + MaxTtl
         /\ Impersonation(order[g]).company = order[g].company
<1>1. clock + ImpersonationTtl \in Seconds /\ clock + ImpersonationTtl <= clock + MaxTtl
  BY TtlAssumption, ClockAssumption, ImpersonationAssumption
     DEF PlatformInv, TypeInv, SessionsTypeOK, Seconds
<1>2. order[g].actor \in Emails /\ order[g].company \in Companies
  BY DEF Shape, Order
<1>3. QED
  BY <1>1, <1>2 DEF Impersonation, Claims, Roles

LEMMA AdministratorIsUser ==
  ASSUME NEW c \in Companies
  PROVE  Administrator(c) \in User /\ Administrator(c).company = c
  BY DEF Administrator, User, Status, Roles

\* Creating is an enrolment, or leaves the sessions alone.
LEMMA CreateRefines ==
  ASSUME PlatformInv, NEW g \in Grants, Create(g)
  PROVE  [SessionsNext]_sessionVars
<1> DEFINE o == order[g]
<1>1. UNCHANGED <<refreshTokens, accessTokens, held, memory, progress>>
  BY DEF Create
<1>2. Shape(g)
  BY DEF Create, PlatformInv, OrderOK, Working
<1>3. CASE users' = users
  BY <1>1, <1>3 DEF sessionVars, tables
<1>4. CASE users' # users
  <2>1. /\ o.email # None /\ RowsFit(o)
        /\ users' = [users EXCEPT ![o.email] = Administrator(o.company)]
    BY <1>4 DEF Create
  <2>2. o.email \in Emails /\ o.company \in Companies
    BY <1>2, <2>1 DEF Shape, Order
  <2>3. users[o.email] = None
    BY <2>1 DEF RowsFit
  <2>4. Enrol(o.email)
    BY <1>1, <2>1, <2>2, <2>3, AdministratorIsUser DEF Enrol
  <2>5. QED
    BY <2>2, <2>4 DEF SessionsNext
<1>5. QED
  BY <1>3, <1>4

\* Signing for a company is signing a token of a name that is free.
LEMMA SignRefines ==
  ASSUME PlatformInv, NEW g \in Grants, SignFor(g)
  PROVE  [SessionsNext]_sessionVars
<1>1. task[g] = "sign" /\ UNCHANGED <<tables, held, memory, progress>>
  BY DEF SignFor
<1>2. Shape(g) /\ order[g].op = "impersonate" /\ accessTokens[g] = None
  BY <1>1 DEF PlatformInv, OrderOK, Working
<1>3. CASE accessTokens' = accessTokens
  BY <1>1, <1>3 DEF sessionVars
<1>4. CASE accessTokens' # accessTokens
  <2>1. accessTokens' = [accessTokens EXCEPT ![g] = Impersonation(order[g])]
    BY <1>4 DEF SignFor
  <2>2. Sign(g)
    BY <1>1, <1>2, <2>1, ImpersonationClaims DEF Sign
  <2>3. QED
    BY <2>2 DEF SessionsNext
<1>5. QED
  BY <1>3, <1>4

LEMMA RespondRefines ==
  ASSUME PlatformInv, NEW g \in Grants, Respond(g), TrailInv(g)
  PROVE  [SessionsNext]_sessionVars
<1>1. task[g] = "answer" /\ UNCHANGED <<tables, accessTokens, memory, progress>>
  BY DEF Respond
<1>2. CASE order[g].op = "impersonate"
  <2>1. accessTokens[g] # None
    BY <1>1, <1>2 DEF TrailInv, Did, Audited
  <2>2. HandOut(g)
    BY <1>1, <1>2, <2>1 DEF Respond, HandOut
  <2>3. QED
    BY <2>2 DEF SessionsNext
<1>3. CASE order[g].op # "impersonate"
  BY <1>1, <1>3 DEF Respond, sessionVars
<1>4. QED
  BY <1>2, <1>3

\* Every step of the platform is a step of the sessions, or none.
LEMMA StepRefines ==
  ASSUME PlatformInv, \A g \in Grants : TrailInv(g), [Next]_vars
  PROVE  [SessionsNext]_sessionVars
<1>1. CASE \E r \in Requests : Handle(r) /\ UNCHANGED platformVars
  BY <1>1 DEF SessionsNext
<1>2. ASSUME NEW g \in Grants, Serve(g)
      PROVE  [SessionsNext]_sessionVars
  <2>1. ASSUME NEW a \in held, NEW op, NEW c, NEW e, NEW s, Arrive(g, a, op, c, e, s)
        PROVE  [SessionsNext]_sessionVars
    BY <2>1 DEF Arrive, Guarded, SessionsNext
  <2>2. CASE FindCode(g) \/ FindEmail(g) \/ Find(g) \/ Write(g) \/ Log(g) \/ Drop(g)
    BY <2>2 DEF FindCode, FindEmail, Find, Write, Log, Drop
  <2>3. QED
    BY <1>2, <2>1, <2>2, CreateRefines, SignRefines, RespondRefines DEF Serve
<1>3. CASE \E c \in Companies : SeedCompany(c)
  BY <1>3 DEF SeedCompany
<1>4. CASE \E c \in Companies, e \in Emails : SeedAdministrator(c, e)
  <2>1. PICK c \in Companies, e \in Emails : SeedAdministrator(c, e)
    BY <1>4
  <2>2. Enrol(e)
    BY <2>1, AdministratorIsUser DEF SeedAdministrator, Enrol
  <2>3. QED
    BY <2>2 DEF SessionsNext
<1>5. CASE \E e \in Emails \ {SuperAdmin} : Suspend(e) /\ UNCHANGED platformVars
  BY <1>5 DEF SessionsNext
<1>6. CASE RestartAll
  BY <1>6 DEF RestartAll, SessionsNext
<1>7. CASE (Tick /\ UNCHANGED platformVars) \/ UNCHANGED vars
  BY <1>7 DEF SessionsNext, vars
<1>8. QED
  BY <1>1, <1>2, <1>3, <1>4, <1>5, <1>6, <1>7 DEF Next

-----------------------------------------------------------------------------
(***************************************************************************)
(* What a step leaves to the calls it does not move.                       *)
(***************************************************************************)

CompaniesGrow == \A c \in Companies : companies[c] # None => companies'[c] # None

LEMMA ShapeKept ==
  ASSUME NEW h \in Grants, Shape(h), order'[h] = order[h]
  PROVE  Shape(h)'
  BY DEF Shape

LEMMA DidKept ==
  ASSUME RowsGrow, CompaniesGrow, NEW h \in Grants, Shape(h), Did(h), order'[h] = order[h]
  PROVE  Did(h)'
<1> DEFINE o == order[h]
<1>1. o.company \in Companies /\ (o.op = "provision" => o.email \in Emails)
  BY OrderAssumption DEF Shape, Order
<1>2. companies'[o.company] # None
  BY <1>1 DEF CompaniesGrow, Did
<1>3. o.op = "provision" => users'[o.email] # None /\ users'[o.email].company = o.company
  BY <1>1 DEF RowsGrow, Did
<1>4. o.op = "impersonate" => accessTokens'[h] # None /\ accessTokens'[h].company = o.company
  BY GrantNames DEF RowsGrow, Did
<1>5. QED
  BY <1>2, <1>3, <1>4 DEF Did

CallKept(h) ==
    /\ task'[h] = task[h] /\ order'[h] = order[h]
    /\ accessTokens'[h] = accessTokens[h]
    /\ (h \in trail') = (h \in trail)
    /\ (h \in unwritten') = (h \in unwritten)
    /\ (h \in held') = (h \in held)

\* A call that does not move stays well.
LEMMA CallKeptOK ==
  ASSUME RowsGrow, CompaniesGrow, NEW h \in Grants, OrderOK(h), TrailInv(h), CallKept(h)
  PROVE  OrderOK(h)' /\ TrailInv(h)'
<1>1. Shape(h) => Shape(h)'
  BY ShapeKept DEF CallKept
<1>2. (Shape(h) /\ Did(h)) => Did(h)'
  BY DidKept DEF CallKept
<1>3. OrderOK(h)'
  BY <1>1 DEF OrderOK, CallKept
<1>4. (task[h] \in {"log", "answer", "done"} \/ h \in trail) => Shape(h)
  BY DEF OrderOK, Working
<1>5. TrailInv(h)'
  BY <1>2, <1>4 DEF TrailInv, CallKept
<1>6. QED
  BY <1>3, <1>5

\* Requests of the sessions leave the calls alone.
LEMMA HandleKeepsCalls ==
  ASSUME PlatformInv, NEW r \in Requests, Handle(r), UNCHANGED platformVars, NEW h \in Grants
  PROVE  CallKept(h)
<1>1. h \in Jtis /\ h # r
  BY GrantNames
<1>2. accessTokens'[h] = accessTokens[h]
  <2>1. CASE Issue(r)
    BY <1>1, <2>1, IssueStep DEF PlatformInv
  <2>2. CASE ~Issue(r)
    BY <2>2 DEF Handle, Login, Refresh, Logout, Call, Revoke, Blacklist, Close, Answer, Lose
  <2>3. QED
    BY <2>1, <2>2
<1>3. (h \in held') = (h \in held)
  BY <1>1 DEF Handle, Login, Refresh, Logout, Call, Revoke, Issue, Blacklist, Close, Answer,
              Lose
<1>4. QED
  BY <1>2, <1>3 DEF CallKept, platformVars

\* A call moves itself.
LEMMA ServeKeepsOthers ==
  ASSUME PlatformInv, NEW g \in Grants, Serve(g), NEW h \in Grants \ {g}
  PROVE  CallKept(h)
<1> USE DEF CallKept, Proceed, PlatformInv, PlatformTypeOK
<1>1. accessTokens \in [Jtis -> Claims \cup {None}] /\ h \in Jtis
  BY GrantNames DEF TypeInv, SessionsTypeOK
<1>2. ASSUME NEW a \in held, NEW op, NEW c, NEW e, NEW s, Arrive(g, a, op, c, e, s)
      PROVE  CallKept(h)
  BY <1>2 DEF Arrive
<1>3. CASE FindCode(g) \/ FindEmail(g) \/ Find(g) \/ Write(g) \/ Drop(g)
  BY <1>3 DEF FindCode, FindEmail, Find, Write, Drop, sessionVars
<1>4. CASE Create(g)
  BY <1>4 DEF Create
<1>5. CASE SignFor(g)
  BY <1>1, <1>5 DEF SignFor
<1>6. CASE Log(g)
  BY <1>6 DEF Log, sessionVars
<1>7. CASE Respond(g)
  BY <1>7 DEF Respond
<1>8. CASE \E a \in held, op \in Audited \cup Unaudited, c \in Companies,
              e \in Emails \cup {None}, s \in Status \cup {None} : Arrive(g, a, op, c, e, s)
  BY <1>2, <1>8
<1>9. QED
  BY <1>3, <1>4, <1>5, <1>6, <1>7, <1>8 DEF Serve

-----------------------------------------------------------------------------
(***************************************************************************)
(* The call that a step moves, action by action.                           *)
(***************************************************************************)

LEMMA ArriveOK ==
  ASSUME PlatformInv, NEW g \in Grants, TrailInv(g), NEW a \in held,
         NEW op \in Audited \cup Unaudited, NEW c \in Companies, NEW e \in Emails \cup {None},
         NEW s \in Status \cup {None}, Arrive(g, a, op, c, e, s)
  PROVE  PlatformTypeOK' /\ CompaniesGrow /\ OrderOK(g)' /\ TrailInv(g)'
<1> DEFINE o == [op |-> op, company |-> c, email |-> e, status |-> s,
                 actor |-> IF op = "impersonate" THEN accessTokens[a].user ELSE None]
<1>1. /\ task[g] = "idle"
      /\ e # None <=> op = "provision"
      /\ s # None <=> op \in {"create", "update", "amend"}
      /\ UNCHANGED <<tables, accessTokens, held, companies, trail, unwritten>>
  BY DEF Arrive
<1>2. CompaniesGrow /\ accessTokens[g] = None /\ g \notin trail
  BY <1>1 DEF CompaniesGrow, PlatformInv, OrderOK
<1>3. PICK admitted \in BOOLEAN :
        /\ Guard(a, admitted)
        /\ \/ /\ admitted /\ Permitted(a, op)
              /\ Proceed(g, FirstStep(op))
              /\ order' = [order EXCEPT ![g] = o]
           \/ /\ ~(admitted /\ Permitted(a, op))
              /\ Proceed(g, "refused")
              /\ UNCHANGED order
  BY DEF Arrive
<1>4. CASE admitted /\ Permitted(a, op)
  <2>1. Verified(a, clock) /\ a \in Jtis
    BY <1>3, <1>4 DEF Guard, PlatformInv, TypeInv, SessionsTypeOK
  <2>2. accessTokens[a].user \in Emails
    BY <2>1 DEF Verified, Claims, PlatformInv, TypeInv, SessionsTypeOK
  <2>3. /\ o \in Order /\ o.op = op /\ o.email = e /\ o.status = s
        /\ op = "impersonate" => o.actor \in Emails
    BY <2>2 DEF Order
  <2>4. task' = [task EXCEPT ![g] = FirstStep(op)] /\ order' = [order EXCEPT ![g] = o]
    BY <1>3, <1>4 DEF Proceed
  <2> HIDE DEF o
  <2>5. task'[g] = FirstStep(op) /\ order'[g] = o
    BY <2>4 DEF PlatformInv, PlatformTypeOK
  <2>6. PlatformTypeOK'
    BY <1>1, <2>3, <2>4, FirstSteps DEF PlatformInv, PlatformTypeOK, Working
  <2>7. Shape(g)'
    BY <1>1, <2>3, <2>5 DEF Shape
  <2>8. OrderOK(g)'
    BY <1>1, <1>2, <2>3, <2>5, <2>7, FirstSteps DEF OrderOK
  <2>9. TrailInv(g)'
    BY <1>1, <1>2, <2>5, FirstSteps DEF TrailInv
  <2>10. QED
    BY <1>2, <2>6, <2>8, <2>9
<1>5. CASE ~(admitted /\ Permitted(a, op))
  <2>1. task' = [task EXCEPT ![g] = "refused"] /\ order' = order
    BY <1>3, <1>5 DEF Proceed
  <2>2. PlatformTypeOK' /\ task'[g] = "refused"
    BY <1>1, <2>1 DEF PlatformInv, PlatformTypeOK, Over
  <2>3. QED
    BY <1>1, <1>2, <2>2 DEF OrderOK, TrailInv, Working
<1>6. QED
  BY <1>4, <1>5

\* A check passes a call on, or refuses it.
LEMMA FindOK ==
  ASSUME PlatformInv, NEW g \in Grants, TrailInv(g),
         FindCode(g) \/ FindEmail(g) \/ Find(g)
  PROVE  PlatformTypeOK' /\ CompaniesGrow /\ OrderOK(g)' /\ TrailInv(g)'
<1>1. /\ task[g] \in {"findCode", "findEmail", "find"}
      /\ UNCHANGED <<sessionVars, companies, trail, order, unwritten>>
  BY DEF FindCode, FindEmail, Find
<1>2. PICK s \in {"findEmail", "create", "write", "refused"} :
        /\ task' = [task EXCEPT ![g] = s]
        /\ s = "findEmail" => task[g] = "findCode"
        /\ s = "create" => task[g] = "findEmail"
        /\ s = "write" => task[g] = "find"
  BY DEF FindCode, FindEmail, Find, Proceed
<1>3. PlatformTypeOK' /\ task'[g] = s
  BY <1>1, <1>2 DEF PlatformInv, PlatformTypeOK, Working, Over
<1>4. Shape(g) /\ accessTokens[g] = None /\ g \notin trail
  BY <1>1 DEF PlatformInv, OrderOK, Working
<1>5. Shape(g)'
  BY <1>1, <1>4, ShapeKept
<1>6. OrderOK(g)'
  BY <1>1, <1>2, <1>3, <1>4, <1>5 DEF PlatformInv, OrderOK, sessionVars
<1>7. QED
  BY <1>1, <1>3, <1>4, <1>6 DEF TrailInv, CompaniesGrow, sessionVars

LEMMA CreateOK ==
  ASSUME PlatformInv, RowsGrow, NEW g \in Grants, TrailInv(g), Create(g)
  PROVE  PlatformTypeOK' /\ CompaniesGrow /\ OrderOK(g)' /\ TrailInv(g)'
<1> DEFINE o == order[g]
<1>1. /\ task[g] = "create"
      /\ UNCHANGED <<refreshTokens, accessTokens, held, memory, progress, trail, order,
                     unwritten>>
  BY DEF Create
<1>2. /\ Shape(g) /\ accessTokens[g] = None /\ g \notin trail
      /\ o.op \in {"provision", "create"}
  BY <1>1 DEF PlatformInv, OrderOK, Working
<1>3. Shape(g)'
  BY <1>1, <1>2, ShapeKept
<1>4. /\ o.company \in Companies
      /\ o.op = "provision" => o.email \in Emails /\ o.email # None
      /\ o.op = "create" => o.status \in Status /\ o.status # None
  BY <1>2, OrderAssumption DEF Shape, Order
<1>5. "ACTIVE" \in Status /\ None \notin Status
  BY OrderAssumption DEF Status
<1>6. CASE RowsFit(o)
  <2>1. /\ companies' = [companies EXCEPT ![o.company] =
                            IF o.op = "create" THEN o.status ELSE "ACTIVE"]
        /\ users' = IF o.email = None THEN users
                    ELSE [users EXCEPT ![o.email] = Administrator(o.company)]
        /\ task' = [task EXCEPT ![g] = IF o.op = "create" THEN "answer" ELSE "log"]
    BY <1>6 DEF Create, Proceed
  <2>2. PlatformTypeOK' /\ CompaniesGrow /\ companies'[o.company] # None
    BY <1>1, <1>2, <1>4, <1>5, <2>1 DEF PlatformInv, PlatformTypeOK, CompaniesGrow, Working
  <2>3. task'[g] = IF o.op = "create" THEN "answer" ELSE "log"
    BY <2>1 DEF PlatformInv, PlatformTypeOK
  <2>4. OrderOK(g)'
    BY <1>1, <1>2, <1>3, <2>3 DEF OrderOK, Audited
  <2>5. o.op = "provision" => users'[o.email] # None /\ users'[o.email].company = o.company
    <3>1. SUFFICES ASSUME o.op = "provision"
                   PROVE  users'[o.email] = Administrator(o.company)
      BY <1>4, AdministratorIsUser, Names
    <3>2. QED
      BY <1>4, <2>1, <3>1 DEF PlatformInv, TypeInv, SessionsTypeOK
  <2>6. (o.op \in Audited) => Did(g)'
    BY <1>1, <1>2, <2>2, <2>5 DEF Did, Audited
  <2>7. TrailInv(g)'
    <3>1. CASE o.op = "create"
      BY <1>1, <1>2, <2>3, <3>1 DEF TrailInv, Audited
    <3>2. CASE o.op = "provision"
      BY <1>1, <1>2, <2>3, <2>6, <3>2 DEF TrailInv, Audited
    <3>3. QED
      BY <1>2, <3>1, <3>2
  <2>8. QED
    BY <2>2, <2>4, <2>7
<1>7. CASE ~RowsFit(o)
  <2>1. task' = [task EXCEPT ![g] = "refused"] /\ UNCHANGED <<companies, users>>
    BY <1>7 DEF Create, Proceed
  <2>2. PlatformTypeOK' /\ task'[g] = "refused"
    BY <1>1, <2>1 DEF PlatformInv, PlatformTypeOK, Over
  <2>3. QED
    BY <1>1, <1>2, <2>1, <2>2 DEF OrderOK, TrailInv, Working, CompaniesGrow
<1>8. QED
  BY <1>6, <1>7

LEMMA WriteOK ==
  ASSUME PlatformInv, NEW g \in Grants, TrailInv(g), Write(g)
  PROVE  PlatformTypeOK' /\ CompaniesGrow /\ OrderOK(g)' /\ TrailInv(g)'
<1> DEFINE o == order[g]
<1>1. /\ task[g] = "write"
      /\ companies' = [companies EXCEPT ![o.company] = o.status]
      /\ task' = [task EXCEPT ![g] = IF o.op = "update" THEN "log" ELSE "answer"]
      /\ UNCHANGED <<sessionVars, trail, order, unwritten>>
  BY DEF Write, Proceed
<1>2. /\ Shape(g) /\ accessTokens[g] = None /\ g \notin trail
      /\ o.op \in {"update", "amend"}
  BY <1>1 DEF PlatformInv, OrderOK, Working
<1>3. o.company \in Companies /\ o.status \in Status /\ o.status # None
  BY <1>2 DEF Shape, Order
<1>4. PlatformTypeOK' /\ CompaniesGrow /\ companies'[o.company] # None
  BY <1>1, <1>3 DEF PlatformInv, PlatformTypeOK, CompaniesGrow, Working
<1>5. task'[g] = IF o.op = "update" THEN "log" ELSE "answer"
  BY <1>1 DEF PlatformInv, PlatformTypeOK
<1>6. Shape(g)'
  BY <1>1, <1>2, ShapeKept
<1>7. OrderOK(g)'
  BY <1>1, <1>2, <1>5, <1>6 DEF OrderOK, Audited
<1>8. Did(g)'
  BY <1>1, <1>2, <1>4 DEF Did
<1>9. TrailInv(g)'
  BY <1>1, <1>2, <1>5, <1>8 DEF TrailInv, Audited, sessionVars
<1>10. QED
  BY <1>4, <1>7, <1>9

LEMMA SignOK ==
  ASSUME PlatformInv, NEW g \in Grants, TrailInv(g), SignFor(g)
  PROVE  PlatformTypeOK' /\ CompaniesGrow /\ OrderOK(g)' /\ TrailInv(g)'
<1> DEFINE o == order[g]
<1>1. /\ task[g] = "sign"
      /\ UNCHANGED <<tables, held, companies, trail, order, unwritten>>
  BY DEF SignFor
<1>2. /\ Shape(g) /\ accessTokens[g] = None /\ g \notin trail
      /\ o.op = "impersonate"
  BY <1>1 DEF PlatformInv, OrderOK, Working
<1>3. Shape(g)' /\ CompaniesGrow
  BY <1>1, <1>2, ShapeKept DEF CompaniesGrow
<1>4. CASE companies[o.company] = "ACTIVE"
  <2>1. /\ accessTokens' = [accessTokens EXCEPT ![g] = Impersonation(o)]
        /\ task' = [task EXCEPT ![g] = "log"]
    BY <1>4, OrderAssumption DEF SignFor, Proceed, AfterSigning
  <2>2. PlatformTypeOK' /\ task'[g] = "log"
    BY <1>1, <2>1 DEF PlatformInv, PlatformTypeOK, Working
  <2>3. accessTokens'[g] # None /\ accessTokens'[g].company = o.company
    <3>1. accessTokens'[g] = Impersonation(o)
      BY <2>1, GrantNames DEF PlatformInv, TypeInv, SessionsTypeOK
    <3>2. QED
      BY <1>2, <3>1, ImpersonationClaims, Names
  <2>4. companies[o.company] # None
    BY <1>4, OrderAssumption DEF Status
  <2>5. Did(g)'
    BY <1>1, <1>2, <2>3, <2>4 DEF Did
  <2>6. OrderOK(g)'
    BY <1>1, <1>2, <1>3, <2>2 DEF OrderOK, Audited
  <2>7. TrailInv(g)'
    BY <1>1, <1>2, <2>2, <2>5 DEF TrailInv
  <2>8. QED
    BY <1>3, <2>2, <2>6, <2>7
<1>5. CASE companies[o.company] # "ACTIVE"
  <2>1. task' = [task EXCEPT ![g] = "refused"] /\ accessTokens' = accessTokens
    BY <1>5 DEF SignFor, Proceed
  <2>2. PlatformTypeOK' /\ task'[g] = "refused"
    BY <1>1, <2>1 DEF PlatformInv, PlatformTypeOK, Over
  <2>3. QED
    BY <1>1, <1>2, <1>3, <2>2 DEF OrderOK, TrailInv, Working
<1>6. QED
  BY <1>4, <1>5

\* The log is written, or refused; then the answer goes out.
LEMMA LogOK ==
  ASSUME PlatformInv, RowsGrow, NEW g \in Grants, TrailInv(g), Log(g)
  PROVE  PlatformTypeOK' /\ CompaniesGrow /\ OrderOK(g)' /\ TrailInv(g)'
<1>1. /\ task[g] = "log" /\ task' = [task EXCEPT ![g] = "answer"]
      /\ UNCHANGED <<sessionVars, companies, order>>
      /\ trail' \in {trail, trail \cup {g}} /\ unwritten' \in {unwritten, unwritten \cup {g}}
      /\ g \in trail' \cup unwritten'
  BY DEF Log, Proceed
<1>2. Shape(g) /\ order[g].op \in Audited /\ Did(g)
  BY <1>1 DEF PlatformInv, OrderOK, TrailInv, Working
<1>3. PlatformTypeOK' /\ CompaniesGrow /\ task'[g] = "answer"
  BY <1>1 DEF PlatformInv, PlatformTypeOK, CompaniesGrow, Working
<1>4. Shape(g)' /\ Did(g)'
  BY <1>1, <1>2, <1>3, ShapeKept, DidKept
<1>5. OrderOK(g)' /\ TrailInv(g)'
  BY <1>1, <1>3, <1>4 DEF OrderOK, TrailInv
<1>6. QED
  BY <1>3, <1>5

LEMMA RespondOK ==
  ASSUME PlatformInv, RowsGrow, NEW g \in Grants, TrailInv(g), Respond(g)
  PROVE  PlatformTypeOK' /\ CompaniesGrow /\ OrderOK(g)' /\ TrailInv(g)'
<1>1. /\ task[g] = "answer" /\ task' = [task EXCEPT ![g] = "done"]
      /\ UNCHANGED <<tables, accessTokens, companies, trail, order, unwritten>>
      /\ held' = IF order[g].op = "impersonate" THEN held \cup {g} ELSE held
  BY DEF Respond, Proceed
<1>2. Shape(g)
  BY <1>1 DEF PlatformInv, OrderOK, Working
<1>3. PlatformTypeOK' /\ CompaniesGrow /\ task'[g] = "done"
  BY <1>1 DEF PlatformInv, PlatformTypeOK, CompaniesGrow, Over
<1>4. Shape(g)' /\ (Did(g) => Did(g)')
  BY <1>1, <1>2, <1>3, ShapeKept, DidKept
<1>5. OrderOK(g)'
  BY <1>1, <1>3, <1>4 DEF OrderOK
<1>6. TrailInv(g)'
  BY <1>1, <1>3, <1>4 DEF TrailInv, Audited
<1>7. QED
  BY <1>3, <1>5, <1>6

LEMMA DropOK ==
  ASSUME PlatformInv, RowsGrow, NEW g \in Grants, TrailInv(g), Drop(g)
  PROVE  PlatformTypeOK' /\ CompaniesGrow /\ OrderOK(g)' /\ TrailInv(g)'
<1>1. /\ task[g] \in Working /\ task' = [task EXCEPT ![g] = "lost"]
      /\ UNCHANGED <<sessionVars, companies, trail, order, unwritten>>
  BY DEF Drop, Proceed
<1>2. PlatformTypeOK' /\ CompaniesGrow /\ task'[g] = "lost"
  BY <1>1 DEF PlatformInv, PlatformTypeOK, CompaniesGrow, Over
<1>3. Shape(g)
  BY <1>1 DEF PlatformInv, OrderOK
<1>4. Shape(g)' /\ (Did(g) => Did(g)')
  BY <1>1, <1>2, <1>3, ShapeKept, DidKept
<1>5. QED
  BY <1>1, <1>2, <1>4 DEF OrderOK, TrailInv, Working, sessionVars

-----------------------------------------------------------------------------
(***************************************************************************)
(* The invariant, and what follows from it.                                *)
(***************************************************************************)

LEMMA ServeOK ==
  ASSUME PlatformInv, RowsGrow, NEW g \in Grants, TrailInv(g), Serve(g)
  PROVE  PlatformTypeOK' /\ CompaniesGrow /\ OrderOK(g)' /\ TrailInv(g)'
  BY ArriveOK, FindOK, CreateOK, WriteOK, SignOK, LogOK, RespondOK, DropOK DEF Serve

LEMMA PlatformStep ==
  ASSUME PlatformInv, \A g \in Grants : TrailInv(g), [Next]_vars
  PROVE  PlatformInv' /\ \A g \in Grants : TrailInv(g)'
<1>1. [SessionsNext]_sessionVars
  BY StepRefines
<1>2. TypeInv' /\ RowsGrow
  BY <1>1, TypeStep DEF PlatformInv
<1>3. CASE \E g \in Grants : Serve(g)
  <2>1. PICK g \in Grants : Serve(g)
    BY <1>3
  <2>2. PlatformTypeOK' /\ CompaniesGrow /\ OrderOK(g)' /\ TrailInv(g)'
    BY <1>2, <2>1, ServeOK
  <2>3. ASSUME NEW h \in Grants \ {g}
        PROVE  OrderOK(h)' /\ TrailInv(h)'
    BY <1>2, <2>1, <2>2, ServeKeepsOthers, CallKeptOK DEF PlatformInv
  <2>4. QED
    BY <1>2, <2>2, <2>3 DEF PlatformInv
<1>4. CASE RestartAll
  <2>1. /\ UNCHANGED <<tables, accessTokens, held, companies, trail, order, unwritten>>
        /\ task' = [g \in Grants |-> IF task[g] \in Working THEN "lost" ELSE task[g]]
    BY <1>4 DEF RestartAll, Restart
  <2>2. PlatformTypeOK' /\ CompaniesGrow
    BY <2>1 DEF PlatformInv, PlatformTypeOK, CompaniesGrow, Over
  <2>3. ASSUME NEW h \in Grants
        PROVE  OrderOK(h)' /\ TrailInv(h)'
    <3>1. CASE task[h] \in Working
      <4>1. Shape(h)' /\ (Did(h) => Did(h)')
        BY <1>2, <2>1, <2>2, <3>1, ShapeKept, DidKept DEF PlatformInv, OrderOK
      <4>2. task'[h] = "lost"
        BY <2>1, <3>1
      <4>3. QED
        BY <2>1, <4>1, <4>2 DEF OrderOK, TrailInv, Working
    <3>2. CASE task[h] \notin Working
      <4>1. CallKept(h)
        BY <2>1, <3>2 DEF CallKept
      <4>2. QED
        BY <1>2, <2>2, <4>1, CallKeptOK DEF PlatformInv
    <3>3. QED
      BY <3>1, <3>2
  <2>4. QED
    BY <1>2, <2>2, <2>3 DEF PlatformInv
<1>5. CASE ~RestartAll /\ ~(\E g \in Grants : Serve(g))
  <2>1. PlatformTypeOK' /\ CompaniesGrow
    <3>1. CASE \E c \in Companies : SeedCompany(c)
      BY <3>1, OrderAssumption DEF SeedCompany, PlatformInv, PlatformTypeOK, CompaniesGrow,
                                   Status
    <3>2. CASE UNCHANGED platformVars
      BY <3>2 DEF platformVars, PlatformInv, PlatformTypeOK, CompaniesGrow
    <3>3. QED
      BY <1>5, <3>1, <3>2 DEF Next, vars, SeedAdministrator
  <2>2. ASSUME NEW h \in Grants
        PROVE  CallKept(h)
    <3>1. CASE \E r \in Requests : Handle(r) /\ UNCHANGED platformVars
      BY <3>1, HandleKeepsCalls
    <3>2. CASE \/ \E c \in Companies : SeedCompany(c)
               \/ \E c \in Companies, e \in Emails : SeedAdministrator(c, e)
               \/ \E e \in Emails \ {SuperAdmin} : Suspend(e) /\ UNCHANGED platformVars
               \/ Tick /\ UNCHANGED platformVars
               \/ UNCHANGED vars
      BY <3>2 DEF SeedCompany, SeedAdministrator, Suspend, Tick, vars, sessionVars,
                  platformVars, CallKept
    <3>3. QED
      BY <1>5, <3>1, <3>2 DEF Next
  <2>3. QED
    BY <1>2, <2>1, <2>2, CallKeptOK DEF PlatformInv
<1>6. QED
  BY <1>3, <1>4, <1>5

LEMMA PlatformInit ==
  ASSUME Init
  PROVE  PlatformInv /\ \A g \in Grants : TrailInv(g)
<1>1. TypeInv
  BY InitType DEF Init
<1>2. PlatformTypeOK
  BY DEF Init, PlatformTypeOK
<1>3. ASSUME NEW g \in Grants
      PROVE  OrderOK(g) /\ TrailInv(g)
  <2>1. g # SuperAdmin /\ g \in Jtis
    BY GrantNames, Names
  <2>2. task[g] = "idle" /\ g \notin trail /\ accessTokens[g] = None /\ g \notin held
    BY <2>1 DEF Init, SessionsInit
  <2>3. QED
    BY <2>2 DEF OrderOK, TrailInv, Working
<1>4. QED
  BY <1>1, <1>2, <1>3 DEF PlatformInv

\* Type correctness.
THEOREM PlatformTypeCorrect == Spec => []TypeOK
<1> DEFINE Inv == PlatformInv /\ \A g \in Grants : TrailInv(g)
<1>1. Init => Inv
  BY PlatformInit
<1>2. Inv /\ [Next]_vars => Inv'
  BY PlatformStep
<1>3. Inv => TypeOK
  BY DEF PlatformInv, PlatformTypeOK, TypeInv, TypeOK
<1>4. QED
  BY <1>1, <1>2, <1>3, PTL DEF Spec

\* The audit log is true.
THEOREM PlatformTrailIsTrue == Spec => []TrailIsTrue
<1> DEFINE Inv == PlatformInv /\ \A g \in Grants : TrailInv(g)
<1>1. Init => Inv
  BY PlatformInit
<1>2. Inv /\ [Next]_vars => Inv'
  BY PlatformStep
<1>3. Inv => TrailIsTrue
  BY DEF PlatformInv, PlatformTypeOK, TrailInv, Did, TrailIsTrue
<1>4. QED
  BY <1>1, <1>2, <1>3, PTL DEF Spec

\* The platform is an environment as the sessions assume it.
THEOREM PlatformImplementsSessions == Spec => ImplementsSessions
<1> DEFINE Inv == PlatformInv /\ \A g \in Grants : TrailInv(g)
<1>1. Init => Inv
  BY PlatformInit
<1>2. Init => SessionsInit
  BY DEF Init
<1>3. Inv /\ [Next]_vars => Inv'
  BY PlatformStep
<1>4. Inv /\ [Next]_vars => [SessionsNext]_sessionVars
  BY StepRefines
<1>5. QED
  BY <1>1, <1>2, <1>3, <1>4, PTL DEF Spec, ImplementsSessions, SessionsSpec

\* So a spent refresh token is refused, whatever the platform does.
THEOREM PlatformSpentIsRefused == Spec => SpentIsRefused
  BY PlatformImplementsSessions, SessionsSpentIsRefused, PTL DEF ImplementsSessions

\* And an access token that was logged out opens nothing.
THEOREM PlatformLoggedOutIsRefused == Spec => LoggedOutIsRefused
  BY PlatformImplementsSessions, SessionsLoggedOutIsRefused, PTL DEF ImplementsSessions

-----------------------------------------------------------------------------
(***************************************************************************)
(* Tenants stay apart: who may hold a token for another company.           *)
(***************************************************************************)

\* A token carries the company and the role of its user, or else it was signed
\* for an impersonation that a SUPER_ADMIN asked for, in a company that exists,
\* and with no more than the role of its administrator. So nobody else gets at
\* another company, and an impersonation opens no other
\* (super-admin.service.ts 180-213, super-admin.controller.ts 28).
TenantsStayApart ==
    \A j \in Jtis : accessTokens[j] # None =>
        LET c == accessTokens[j]
            u == users[c.user]
        IN  /\ u # None
            /\ (c.company # u.company \/ c.role # u.role) =>
                   /\ j \in Grants /\ order[j].op = "impersonate"
                   /\ u.role = "SUPER_ADMIN"
                   /\ c.role = "COMPANY_ADMIN"
                   /\ c.company = order[j].company /\ companies[c.company] # None

\* The actor of an impersonation is a SUPER_ADMIN by the row, and not only by
\* the token that was shown; what is signed for the call is what was asked for.
ActorOK(g) ==
    /\ (order[g] # None /\ order[g].op = "impersonate") =>
           /\ order[g].actor \in Emails
           /\ users[order[g].actor] # None
           /\ users[order[g].actor].role = "SUPER_ADMIN"
    /\ accessTokens[g] # None =>
           /\ order[g] \in Order /\ order[g].op = "impersonate"
           /\ accessTokens[g].user = order[g].actor
           /\ accessTokens[g].company = order[g].company
           /\ accessTokens[g].role = "COMPANY_ADMIN"
           /\ companies[order[g].company] # None

LEMMA CompaniesKept ==
  ASSUME PlatformInv, \A g \in Grants : TrailInv(g), [Next]_vars
  PROVE  CompaniesGrow
<1>1. RowsGrow
  BY StepRefines, TypeStep DEF PlatformInv
<1>2. CASE \E g \in Grants : Serve(g)
  BY <1>1, <1>2, ServeOK
<1>3. CASE \E c \in Companies : SeedCompany(c)
  BY <1>3, OrderAssumption DEF SeedCompany, PlatformInv, PlatformTypeOK, CompaniesGrow, Status
<1>4. CASE companies' = companies
  BY <1>4 DEF CompaniesGrow
<1>5. QED
  BY <1>2, <1>3, <1>4 DEF Next, vars, platformVars, SeedAdministrator, RestartAll

\* Only impersonate signs, and only what was asked for.
LEMMA GrantSigned ==
  ASSUME PlatformInv, [Next]_vars, NEW g \in Grants, accessTokens'[g] # accessTokens[g]
  PROVE  /\ task[g] = "sign" /\ Shape(g) /\ order[g].op = "impersonate" /\ order' = order
         /\ accessTokens'[g] = Impersonation(order[g])
         /\ companies[order[g].company] = "ACTIVE" /\ companies' = companies
<1>1. accessTokens \in [Jtis -> Claims \cup {None}] /\ g \in Jtis
  BY GrantNames DEF PlatformInv, TypeInv, SessionsTypeOK
<1>2. ~CallKept(g)
  BY DEF CallKept
<1>3. Serve(g)
  <2>1. ~(\E r \in Requests : Handle(r) /\ UNCHANGED platformVars)
    BY <1>2, HandleKeepsCalls
  <2>2. \E h \in Grants : Serve(h)
    BY <2>1 DEF Next, SeedCompany, SeedAdministrator, Suspend, RestartAll, Restart, Tick, vars,
                sessionVars
  <2>3. QED
    BY <1>2, <2>2, ServeKeepsOthers
<1>4. SignFor(g)
  BY <1>3 DEF Serve, Arrive, FindCode, FindEmail, Create, Find, Write, Log, Respond, Drop,
              sessionVars
<1>5. /\ task[g] = "sign" /\ order' = order /\ companies' = companies
      /\ companies[order[g].company] = "ACTIVE"
      /\ accessTokens' = [accessTokens EXCEPT ![g] = Impersonation(order[g])]
  BY <1>4 DEF SignFor
<1>6. Shape(g) /\ order[g].op = "impersonate"
  BY <1>5 DEF PlatformInv, OrderOK, Working
<1>7. QED
  BY <1>1, <1>5, <1>6

\* An order is taken down once, when a call is let in.
LEMMA OrderTaken ==
  ASSUME PlatformInv, [Next]_vars, NEW g \in Grants, order'[g] # order[g],
         order'[g].op = "impersonate"
  PROVE  \E a \in held :
            /\ a \in Jtis /\ accessTokens[a] # None
            /\ accessTokens[a].role = "SUPER_ADMIN"
            /\ order'[g].actor = accessTokens[a].user
            /\ task[g] = "idle" /\ UNCHANGED <<tables, accessTokens, companies>>
<1>1. order \in [Grants -> Order \cup {None}] /\ held \subseteq Jtis
  BY DEF PlatformInv, PlatformTypeOK, TypeInv, SessionsTypeOK
<1>2. Serve(g)
  <2>1. \E h \in Grants : Serve(h)
    BY DEF Next, SeedCompany, SeedAdministrator, RestartAll, platformVars, vars
  <2>2. QED
    BY <2>1, ServeKeepsOthers DEF CallKept
<1>3. PICK a \in held, op \in Audited \cup Unaudited, c \in Companies, e \in Emails \cup {None},
           s \in Status \cup {None} : Arrive(g, a, op, c, e, s)
  BY <1>2 DEF Serve, FindCode, FindEmail, Create, Find, Write, SignFor, Log, Respond, Drop
<1> DEFINE o == [op |-> op, company |-> c, email |-> e, status |-> s,
                 actor |-> IF op = "impersonate" THEN accessTokens[a].user ELSE None]
<1>4. /\ task[g] = "idle" /\ UNCHANGED <<tables, accessTokens, companies>>
      /\ \E admitted \in BOOLEAN : Guard(a, admitted) /\ admitted
      /\ Permitted(a, op) /\ order' = [order EXCEPT ![g] = o]
  BY <1>3 DEF Arrive
<1>5. accessTokens[a] # None
  BY <1>4 DEF Guard, Verified
<1>6. order'[g] = o
  BY <1>1, <1>4
<1>7. op = "impersonate" /\ order'[g].actor = accessTokens[a].user
  BY <1>6
<1>8. accessTokens[a].role = "SUPER_ADMIN"
  BY <1>4, <1>7 DEF Permitted, Audited
<1>9. QED
  BY <1>1, <1>4, <1>5, <1>7, <1>8

LEMMA ActorStep ==
  ASSUME PlatformInv, \A g \in Grants : TrailInv(g), SessionsAreTheirUsers,
         \A g \in Grants : ActorOK(g), [Next]_vars, NEW g \in Grants
  PROVE  ActorOK(g)'
<1>1. [SessionsNext]_sessionVars /\ CompaniesGrow /\ TypeInv
  BY StepRefines, CompaniesKept DEF PlatformInv
<1> DEFINE Asked == /\ order[g].actor \in Emails
                    /\ users[order[g].actor] # None
                    /\ users[order[g].actor].role = "SUPER_ADMIN"
           Granted == /\ order[g] \in Order /\ order[g].op = "impersonate"
                      /\ accessTokens[g].user = order[g].actor
                      /\ accessTokens[g].company = order[g].company
                      /\ accessTokens[g].role = "COMPANY_ADMIN"
                      /\ companies[order[g].company] # None
<1>2. ASSUME order'[g] # None, order'[g].op = "impersonate"
      PROVE  Asked'
  <2>1. CASE order'[g] = order[g]
    <3>1. Asked
      BY <1>2, <2>1 DEF ActorOK
    <3>2. users'[order[g].actor] # None /\ users'[order[g].actor].role = "SUPER_ADMIN"
      BY <1>1, <3>1, UserKept
    <3>3. QED
      BY <2>1, <3>1, <3>2
  <2>2. CASE order'[g] # order[g]
    <3>1. PICK a \in held :
            /\ a \in Jtis /\ accessTokens[a] # None
            /\ accessTokens[a].role = "SUPER_ADMIN"
            /\ order'[g].actor = accessTokens[a].user
            /\ users' = users
      BY <1>2, <2>2, OrderTaken DEF tables
    <3>2. a \notin Grants
      <4>1. "COMPANY_ADMIN" # "SUPER_ADMIN"
        OBVIOUS
      <4>2. QED
        BY <3>1, <4>1 DEF ActorOK
    <3>3. a \in Tokens
      BY <3>1, <3>2 DEF Jtis
    <3>4. /\ accessTokens[a].user \in Emails /\ users[accessTokens[a].user] # None
          /\ users[accessTokens[a].user].role = "SUPER_ADMIN"
      BY <3>1, <3>3 DEF SessionsAreTheirUsers
    <3>5. QED
      BY <3>1, <3>4
  <2>3. QED
    BY <2>1, <2>2
<1>3. ASSUME accessTokens'[g] # None
      PROVE  Granted'
  <2>1. CASE accessTokens'[g] = accessTokens[g]
    <3>1. Granted
      BY <1>3, <2>1 DEF ActorOK
    <3>2. order'[g] = order[g]
      <4>1. CASE Serve(g)
        <5>1. task[g] # "idle"
          BY <1>3, <2>1 DEF PlatformInv, OrderOK
        <5>2. QED
          BY <4>1, <5>1 DEF Serve, Arrive, FindCode, FindEmail, Create, Find, Write, SignFor, Log,
                            Respond, Drop
      <4>2. CASE ~Serve(g)
        <5>1. CASE \E h \in Grants \ {g} : Serve(h)
          BY <5>1, ServeKeepsOthers DEF CallKept
        <5>2. CASE ~(\E h \in Grants : Serve(h))
          BY <5>2 DEF Next, SeedCompany, SeedAdministrator, RestartAll, platformVars, vars
        <5>3. QED
          BY <4>2, <5>1, <5>2
      <4>3. QED
        BY <4>1, <4>2
    <3>3. order[g].company \in Companies
      BY <3>1 DEF Order
    <3>4. companies'[order[g].company] # None
      BY <1>1, <3>1, <3>3 DEF CompaniesGrow
    <3>5. QED
      BY <2>1, <3>1, <3>2, <3>4
  <2>2. CASE accessTokens'[g] # accessTokens[g]
    <3>1. /\ Shape(g) /\ order[g].op = "impersonate" /\ order' = order
          /\ accessTokens'[g] = Impersonation(order[g])
          /\ companies[order[g].company] = "ACTIVE" /\ companies' = companies
      BY <2>2, GrantSigned
    <3>2. order[g] \in Order /\ "ACTIVE" # None
      BY <3>1, OrderAssumption DEF Shape, Status
    <3>3. QED
      BY <3>1, <3>2 DEF Impersonation
  <2>3. QED
    BY <2>1, <2>2
<1>4. QED
  BY <1>2, <1>3 DEF ActorOK

\* Whatever calls, requests and restarts come in between.
THEOREM PlatformTenantsStayApart == Spec => []TenantsStayApart
<1> DEFINE Inv == /\ PlatformInv /\ \A g \in Grants : TrailInv(g)
                  /\ SessionsAreTheirUsers
                  /\ \A g \in Grants : ActorOK(g)
<1>1. Init => Inv
  <2>1. ASSUME Init
        PROVE  \A g \in Grants : ActorOK(g)
    <3>1. ASSUME NEW g \in Grants
          PROVE  order[g] = None /\ accessTokens[g] = None
      BY <2>1, <3>1, GrantNames, Names DEF Init, SessionsInit
    <3>2. QED
      BY <3>1 DEF ActorOK
  <2>2. QED
    BY <2>1, PlatformInit, TheirUsersInit DEF Init
<1>2. Inv /\ [Next]_vars => Inv'
  <2>1. ASSUME Inv, [Next]_vars
        PROVE  SessionsAreTheirUsers'
    BY <2>1, StepRefines, TheirUsersStep DEF PlatformInv
  <2>2. QED
    BY <2>1, PlatformStep, ActorStep
<1>3. Inv => TenantsStayApart
  <2>1. ASSUME Inv, NEW j \in Grants, accessTokens[j] # None
        PROVE  /\ order[j].op = "impersonate"
               /\ users[accessTokens[j].user] # None
               /\ users[accessTokens[j].user].role = "SUPER_ADMIN"
               /\ accessTokens[j].role = "COMPANY_ADMIN"
               /\ accessTokens[j].company = order[j].company
               /\ companies[accessTokens[j].company] # None
    <3>1. /\ order[j] \in Order /\ order[j].op = "impersonate"
          /\ accessTokens[j].user = order[j].actor
          /\ accessTokens[j].company = order[j].company
          /\ accessTokens[j].role = "COMPANY_ADMIN"
          /\ companies[order[j].company] # None
      BY <2>1 DEF ActorOK
    <3>2. order[j] # None
      BY <3>1, OrderAssumption
    <3>3. users[order[j].actor] # None /\ users[order[j].actor].role = "SUPER_ADMIN"
      BY <2>1, <3>1, <3>2 DEF ActorOK
    <3>4. QED
      BY <3>1, <3>3
  <2>2. ASSUME Inv, NEW j \in Tokens, accessTokens[j] # None
        PROVE  /\ users[accessTokens[j].user] # None
               /\ accessTokens[j].company = users[accessTokens[j].user].company
               /\ accessTokens[j].role = users[accessTokens[j].user].role
    BY <2>2 DEF SessionsAreTheirUsers
  <2>3. QED
    BY <2>1, <2>2 DEF TenantsStayApart, Jtis
<1>4. QED
  BY <1>1, <1>2, <1>3, PTL DEF Spec

\* A suspended user is kept out for good in the whole platform, too.
THEOREM PlatformLockedOutForGood == Spec => LockedOutForGood
  BY PlatformImplementsSessions, SessionsLockedOutForGood, PTL DEF ImplementsSessions
=============================================================================
