--------------------------- MODULE PlatformAdmin ----------------------------
(***************************************************************************)
(* PlatformAdmin: SuperAdminService                                        *)
(* (src/src/modules/super-admin/super-admin.service.ts) composed with the  *)
(* sessions: the calls that provision a company with its first user,       *)
(* change a company, or sign an access token for a company that is         *)
(* impersonated, and the row that each writes to the audit log             *)
(* (AuditService.logAction, src/src/modules/audit/audit.service.ts). Next  *)
(* to them the other writers of the same tables: CompaniesService, and the *)
(* seed (src/src/prisma/seed.ts).                                          *)
(* A call has a name in Grants, and so has the token it may sign. A        *)
(* company is its code, which is unique; of its columns, and of what a     *)
(* call changes, the status is told apart: ACTIVE, or not.                 *)
(***************************************************************************)
EXTENDS Sessions

CONSTANTS
    ImpersonationTtl    \* IMPERSONATION_TTL_SECONDS

ASSUME ImpersonationAssumption == ImpersonationTtl \in 1 .. MaxTtl

VARIABLES
    companies,      \* companies[c]: the status of the row of Company, or None
    trail,          \* calls with a row in AuditLog
    task,           \* task[g]: where the handler of call g is
    order,          \* order[g]: what it asked for, None before and if refused
    unwritten       \* history: calls whose row AuditLog refused

platformVars == <<companies, trail, task, order, unwritten>>
vars == <<sessionVars, platformVars>>

Audited == {"provision", "update", "impersonate"}
Unaudited == {"create", "amend"}
Order ==
    [op : Audited \cup Unaudited, company : Companies, email : Emails \cup {None},
     status : Status \cup {None}, actor : Emails \cup {None}]
Working == {"findCode", "findEmail", "create", "find", "write", "sign", "log", "answer"}

ASSUME OrderAssumption == None \notin Order \cup Status

TypeOK ==
    /\ SessionsTypeOK
    /\ companies \in [Companies -> Status \cup {None}]
    /\ trail \subseteq Grants
    /\ task \in [Grants -> {"idle"} \cup Working \cup Over]
    /\ order \in [Grants -> Order \cup {None}]
    /\ unwritten \subseteq Grants

Init ==
    /\ SessionsInit
    /\ companies = [c \in Companies |-> None]
    /\ trail = {}
    /\ task = [g \in Grants |-> "idle"]
    /\ order = [g \in Grants |-> None]
    /\ unwritten = {}

-----------------------------------------------------------------------------
(***************************************************************************)
(* The handlers, from await to await. Some helpers follow a mistaken       *)
(* variant, which no action uses.                                          *)
(***************************************************************************)

Proceed(g, s) == task' = [task EXCEPT ![g] = s]

\* @Roles('SUPER_ADMIN') of SuperAdminController; CompaniesController asks for
\* no role.
Permitted(a, op) == op \in Audited => accessTokens[a].role = "SUPER_ADMIN"

FirstStep(op) ==
    CASE op = "provision" -> "findCode"
      [] op = "impersonate" -> "sign"
      [] op = "create" -> "create"
      [] OTHER -> "find"

\* A call that passes JwtAuthGuard and RbacGuard with token a, or does not.
Arrive(g, a, op, c, e, s) ==
    /\ task[g] = "idle"
    /\ e # None <=> op = "provision"
    /\ s # None <=> op \in {"create", "update", "amend"}
    /\ \E admitted \in BOOLEAN :
          /\ Guard(a, admitted)
          /\ \/ /\ admitted /\ Permitted(a, op)
                /\ Proceed(g, FirstStep(op))
                /\ order' = [order EXCEPT ![g] =
                      [op |-> op, company |-> c, email |-> e, status |-> s,
                       actor |-> IF op = "impersonate" THEN accessTokens[a].user
                                 ELSE None]]
             \/ /\ ~(admitted /\ Permitted(a, op))
                /\ Proceed(g, "refused")
                /\ UNCHANGED order
    /\ UNCHANGED <<tables, accessTokens, held, dismissed, progress,
                   companies, trail, unwritten>>

FindCode(g) ==
    /\ task[g] = "findCode"
    /\ Proceed(g, IF companies[order[g].company] = None THEN "findEmail" ELSE "refused")
    /\ UNCHANGED <<sessionVars, companies, trail, order, unwritten>>

FindEmail(g) ==
    /\ task[g] = "findEmail"
    /\ Proceed(g, IF users[order[g].email] = None THEN "create" ELSE "refused")
    /\ UNCHANGED <<sessionVars, companies, trail, order, unwritten>>

\* The unique constraints on the code and on the email.
RowsFit(o) ==
    /\ companies[o.company] = None
    /\ o.email # None => users[o.email] = None

Administrator(c) == [status |-> "ACTIVE", company |-> c, role |-> "COMPANY_ADMIN"]

\* The transaction of provisionCompany creates both rows or none;
\* CompaniesService.create creates a company only.
Create(g) ==
    LET o == order[g]
    IN  /\ task[g] = "create"
        /\ \/ /\ RowsFit(o)
              /\ companies' = [companies EXCEPT ![o.company] =
                                  IF o.op = "create" THEN o.status ELSE "ACTIVE"]
              /\ users' = IF o.email = None THEN users
                          ELSE [users EXCEPT ![o.email] = Administrator(o.company)]
              /\ Proceed(g, IF o.op = "create" THEN "answer" ELSE "log")
           \/ /\ ~RowsFit(o)
              /\ Proceed(g, "refused")
              /\ UNCHANGED <<companies, users>>
        /\ UNCHANGED <<refreshTokens, accessTokens, held, memory, progress,
                       trail, order, unwritten>>

\* getCompany of updateCompany, findOne of CompaniesService.update.
Find(g) ==
    /\ task[g] = "find"
    /\ Proceed(g, IF companies[order[g].company] = None THEN "refused" ELSE "write")
    /\ UNCHANGED <<sessionVars, companies, trail, order, unwritten>>

Write(g) ==
    /\ task[g] = "write"
    /\ companies' = [companies EXCEPT ![order[g].company] = order[g].status]
    /\ Proceed(g, IF order[g].op = "update" THEN "log" ELSE "answer")
    /\ UNCHANGED <<sessionVars, trail, order, unwritten>>

\* The claims of an impersonation; the variant takes its lifetime for
\* milliseconds.
ImpersonationForLong(o) ==
    [user |-> o.actor, company |-> o.company, role |-> "COMPANY_ADMIN",
     exp |-> clock + 1000 * ImpersonationTtl]
Impersonation(o) ==
    [user |-> o.actor, company |-> o.company, role |-> "COMPANY_ADMIN",
     exp |-> clock + ImpersonationTtl]

AfterSigningAtOnce(o) == "answer"
AfterSigning(o) == "log"

\* impersonate reads the company and signs, with no await in between.
SignFor(g) ==
    LET o == order[g]
    IN  /\ task[g] = "sign"
        /\ \/ /\ companies[o.company] = "ACTIVE"
              /\ accessTokens' = [accessTokens EXCEPT ![g] = Impersonation(o)]
              /\ Proceed(g, AfterSigning(o))
           \/ /\ companies[o.company] # "ACTIVE"
              /\ Proceed(g, "refused")
              /\ UNCHANGED accessTokens
        /\ UNCHANGED <<tables, held, memory, progress, companies, trail, order, unwritten>>

\* logAction: the caller waits for it, and does not learn that it failed.
Log(g) ==
    /\ task[g] = "log"
    /\ \/ trail' = trail \cup {g} /\ UNCHANGED unwritten
       \/ unwritten' = unwritten \cup {g} /\ UNCHANGED trail
    /\ Proceed(g, "answer")
    /\ UNCHANGED <<sessionVars, companies, order>>

Respond(g) ==
    /\ task[g] = "answer"
    /\ held' = IF order[g].op = "impersonate" THEN held \cup {g} ELSE held
    /\ Proceed(g, "done")
    /\ UNCHANGED <<tables, accessTokens, memory, progress, companies, trail, order, unwritten>>

\* A statement is rejected, the connection goes, or the answer is lost.
Drop(g) ==
    /\ task[g] \in Working
    /\ Proceed(g, "lost")
    /\ UNCHANGED <<sessionVars, companies, trail, order, unwritten>>

-----------------------------------------------------------------------------

\* The seed, which may be run at any time: one upsert, then another.
SeedCompany(c) ==
    /\ companies[c] = None
    /\ companies' = [companies EXCEPT ![c] = "ACTIVE"]
    /\ UNCHANGED <<sessionVars, trail, task, order, unwritten>>

SeedAdministrator(c, e) ==
    /\ companies[c] # None
    /\ users[e] = None
    /\ users' = [users EXCEPT ![e] = Administrator(c)]
    /\ UNCHANGED <<refreshTokens, accessTokens, held, memory, progress, platformVars>>

RestartAll ==
    /\ Restart
    /\ task' = [g \in Grants |-> IF task[g] \in Working THEN "lost" ELSE task[g]]
    /\ UNCHANGED <<companies, trail, order, unwritten>>

Serve(g) ==
    \/ \E a \in held, op \in Audited \cup Unaudited, c \in Companies,
          e \in Emails \cup {None}, s \in Status \cup {None} : Arrive(g, a, op, c, e, s)
    \/ FindCode(g) \/ FindEmail(g) \/ Create(g) \/ Find(g) \/ Write(g)
    \/ SignFor(g) \/ Log(g) \/ Respond(g) \/ Drop(g)

Next ==
    \/ \E r \in Requests : Handle(r) /\ UNCHANGED platformVars
    \/ \E g \in Grants : Serve(g)
    \/ \E c \in Companies : SeedCompany(c)
    \/ \E c \in Companies, e \in Emails : SeedAdministrator(c, e)
    \/ \E e \in Emails \ {SuperAdmin} : Suspend(e) /\ UNCHANGED platformVars
    \/ RestartAll
    \/ Tick /\ UNCHANGED platformVars

Spec == Init /\ [][Next]_vars

-----------------------------------------------------------------------------

\* The audit log tells what was done, whatever is lost and whenever the process
\* dies: a row is there only for a call that did its work, and a call that was
\* answered, or whose token is in a client's hands, has its row unless the
\* table refused it (lines 63-68, 123-128, 199-207; audit.service.ts 23-40).
TrailIsTrue ==
    /\ \A g \in trail :
          LET o == order[g]
          IN  /\ companies[o.company] # None
              /\ o.op = "provision" => users[o.email].company = o.company
              /\ o.op = "impersonate" => accessTokens[g].company = o.company
    /\ \A g \in Grants :
          (g \in held \/ (task[g] = "done" /\ order[g].op \in Audited)) =>
              g \in trail \cup unwritten

\* For the sessions, the platform is their environment: it creates users and
\* changes none, its tokens do not outlive MaxTtl, and it passes the guard as
\* everybody does.
ImplementsSessions == SessionsSpec
=============================================================================
