----------------------------- MODULE PunchIntake -----------------------------
(***************************************************************************)
(* POST /attendance/punches: AttendanceService.submitPunch                 *)
(* (src/src/modules/attendance/attendance.service.ts, lines 129-164), with *)
(* the device that calls it. The device keeps what it captures in a buffer *)
(* and sends it again until it hears that the punch was taken; requests    *)
(* and answers get lost, several requests for one capture may be under way *)
(* at once, and the server may die between any two statements.             *)
(* A capture stands for everything in its body (time, direction, method,   *)
(* confidence) and for its idempotency key, which the device derives from  *)
(* that body, so that two captures never share one.                        *)
(***************************************************************************)
EXTENDS Integers, FiniteSets

CONSTANTS
    Employees,  \* rows of the Employee table
    Captures,   \* what the devices capture
    Keyed,      \* the captures sent with an idempotency key
    Posts,      \* bound: requests under way at a time
    MaxCopies,  \* bound: rows a capture without a key may be given
    None

ASSUME KeyedAssumption == Keyed \subseteq Captures
ASSUME CopiesAssumption == MaxCopies \in Nat \ {0}

\* Rows of AttendancePunch: the n-th one stored for a capture.
Copies == 1 .. MaxCopies
Ids == Captures \X Copies

\* "queued" and "duplicate" are 201, "notFound" 404 and "error" 500.
Accepted == [kind : {"queued", "duplicate"}, punchId : Ids]
Refused == [kind : {"notFound", "error"}, punchId : {None}]
Replies == Accepted \cup Refused

ASSUME NoneAssumption ==
    /\ None \notin Employees \cup Captures \cup Ids \cup Replies
    /\ "absent" \notin Employees \cup {None}

VARIABLES
    employees,  \* rows of the Employee table
    rows,       \* rows[id]: "absent", or the punch's employeeId (None: NULL)
    buffer,     \* buffer[c]: the device's copy of capture c
    owner,      \* owner[c]: dto.employeeId
    told,       \* told[c]: the punchIds the device got for capture c
    stage,      \* stage[p]: where request p is
    capture,    \* capture[p]: the capture request p carries
    reply       \* reply[p]: what the server answered, None before

vars == <<employees, rows, buffer, owner, told, stage, capture, reply>>
device == <<buffer, owner, told>>

Stages == {"free", "findKey", "findEmployee", "insert", "answered"}

TypeOK ==
    /\ employees \subseteq Employees
    /\ rows \in [Ids -> Employees \cup {None, "absent"}]
    /\ buffer \in [Captures -> {"empty", "waiting", "done"}]
    /\ owner \in [Captures -> Employees \cup {None}]
    /\ told \in [Captures -> SUBSET Ids]
    /\ stage \in [Posts -> Stages]
    /\ capture \in [Posts -> Captures \cup {None}]
    /\ reply \in [Posts -> Replies \cup {None}]

Init ==
    /\ employees = Employees
    /\ rows = [id \in Ids |-> "absent"]
    /\ buffer = [c \in Captures |-> "empty"]
    /\ owner = [c \in Captures |-> None]
    /\ told = [c \in Captures |-> {}]
    /\ stage = [p \in Posts |-> "free"]
    /\ capture = [p \in Posts |-> None]
    /\ reply = [p \in Posts |-> None]

-----------------------------------------------------------------------------
(***************************************************************************)
(* The server. Variants that no action uses stand before some helpers:     *)
(* plausible mistakes, kept to show that a property would catch them.      *)
(***************************************************************************)

Stored(c) == {id \in Ids : id[1] = c /\ rows[id] # "absent"}

Goto(p, s) == stage' = [stage EXCEPT ![p] = s]

Answer(p, r) ==
    /\ Goto(p, "answered")
    /\ reply' = [reply EXCEPT ![p] = r]

\* findUnique on the key, and the early return when there is a punch.
AlreadyTakenNever(c) == {}
AlreadyTaken(c) == Stored(c)

FindKey(p) ==
    /\ stage[p] = "findKey"
    /\ LET existing == AlreadyTaken(capture[p])
       IN  \/ /\ existing = {}
              /\ Goto(p, "findEmployee")
              /\ UNCHANGED reply
           \/ \E id \in existing : Answer(p, [kind |-> "duplicate", punchId |-> id])
    /\ UNCHANGED <<employees, rows, device, capture>>

\* employee.findFirst in the tenant: 404 when it is not there.
FindEmployee(p) ==
    /\ stage[p] = "findEmployee"
    /\ \/ /\ owner[capture[p]] \in employees
          /\ Goto(p, "insert")
          /\ UNCHANGED reply
       \/ /\ owner[capture[p]] \notin employees
          /\ Answer(p, [kind |-> "notFound", punchId |-> None])
    /\ UNCHANGED <<employees, rows, device, capture>>

\* What the table accepts: a key that no row has, an employee that is there.
RowAcceptedTwice(c) == owner[c] \in employees
RowAcceptedOncePerEmployee(c) ==
    /\ owner[c] \in employees
    /\ c \in Keyed => \A id \in Ids : rows[id] # owner[c]
RowAccepted(c) ==
    /\ owner[c] \in employees
    /\ c \in Keyed => Stored(c) = {}

\* A constraint violation is not caught: the filter answers 500.
RejectedAsDuplicate(c) == [kind |-> "duplicate", punchId |-> <<c, 1>>]
Rejected(c) == [kind |-> "error", punchId |-> None]

QueuedWithoutId(id) == [kind |-> "queued", punchId |-> None]
Queued(id) == [kind |-> "queued", punchId |-> id]

\* attendancePunch.create and the answer. MaxCopies bounds the rows.
Insert(p) ==
    /\ stage[p] = "insert"
    /\ LET c == capture[p]
       IN  \/ /\ RowAccepted(c)
              /\ \E n \in Copies :
                    /\ rows[<<c, n>>] = "absent"
                    /\ \A k \in 1 .. n - 1 : rows[<<c, k>>] # "absent"
                    /\ rows' = [rows EXCEPT ![<<c, n>>] = owner[c]]
                    /\ Answer(p, Queued(<<c, n>>))
           \/ /\ ~RowAccepted(c)
              /\ Answer(p, Rejected(c))
              /\ UNCHANGED rows
    /\ UNCHANGED <<employees, device, capture>>

\* AttendancePunch.employee: onDelete SetNull.
RowsWithout(e) == [id \in Ids |-> IF rows[id] = e THEN "absent" ELSE rows[id]]
RowsOrphaned(e) == [id \in Ids |-> IF rows[id] = e THEN None ELSE rows[id]]

\* EmployeesService.remove: the punches stay and keep their idempotency key.
DeleteEmployee(e) ==
    /\ e \in employees
    /\ employees' = employees \ {e}
    /\ rows' = RowsOrphaned(e)
    /\ UNCHANGED <<device, stage, capture, reply>>

-----------------------------------------------------------------------------
(***************************************************************************)
(* The device and the network, as the handler and its DTO describe them.   *)
(***************************************************************************)

Capture(c, e) ==
    /\ buffer[c] = "empty"
    /\ buffer' = [buffer EXCEPT ![c] = "waiting"]
    /\ owner' = [owner EXCEPT ![c] = e]
    /\ UNCHANGED <<employees, rows, told, stage, capture, reply>>

\* Sent for the first time, or again, whatever became of earlier requests.
\* Without a key the handler goes straight to the employee.
Send(p, c) ==
    /\ stage[p] = "free"
    /\ buffer[c] = "waiting"
    /\ c \notin Keyed =>
          Cardinality(Stored(c)) + Cardinality({q \in Posts : capture[q] = c}) < MaxCopies
    /\ Goto(p, IF c \in Keyed THEN "findKey" ELSE "findEmployee")
    /\ capture' = [capture EXCEPT ![p] = c]
    /\ UNCHANGED <<employees, rows, device, reply>>

Release(p) ==
    /\ Goto(p, "free")
    /\ capture' = [capture EXCEPT ![p] = None]
    /\ reply' = [reply EXCEPT ![p] = None]

\* A 2xx answer takes the capture out of the buffer; any other leaves it there.
Deliver(p) ==
    /\ stage[p] = "answered"
    /\ LET c == capture[p]
       IN  IF reply[p].kind \in {"queued", "duplicate"}
           THEN /\ buffer' = [buffer EXCEPT ![c] = "done"]
                /\ told' = [told EXCEPT ![c] = @ \cup {reply[p].punchId}]
           ELSE UNCHANGED <<buffer, told>>
    /\ Release(p)
    /\ UNCHANGED <<employees, rows, owner>>

\* The request, the handler running it or its answer is gone; what was stored
\* stays. The death of the server is this step for every request under way.
Lose(p) ==
    /\ stage[p] # "free"
    /\ Release(p)
    /\ UNCHANGED <<employees, rows, device>>

Next ==
    \/ \E c \in Captures, e \in Employees : Capture(c, e)
    \/ \E p \in Posts, c \in Captures : Send(p, c)
    \/ \E p \in Posts :
          FindKey(p) \/ FindEmployee(p) \/ Insert(p) \/ Deliver(p) \/ Lose(p)
    \/ \E e \in Employees : DeleteEmployee(e)

\* The requests that carry a capture now.
Carriers(c) == {p \in Posts : capture[p] = c}

\* The device keeps replaying a capture with a key until it hears of it, and
\* neither the network nor the server loses the same step of one capture for
\* ever. A capture without a key is served too, or it would hold its request.
Fairness ==
    /\ \A c \in Keyed : /\ SF_vars(\E p \in Posts : Send(p, c))
                        /\ SF_vars(\E p \in Carriers(c) : FindKey(p))
    /\ \A c \in Captures : /\ SF_vars(\E p \in Carriers(c) : FindEmployee(p))
                           /\ SF_vars(\E p \in Carriers(c) : Insert(p))
                           /\ SF_vars(\E p \in Carriers(c) : Deliver(p))

Spec == Init /\ [][Next]_vars
FairSpec == Spec /\ Fairness

-----------------------------------------------------------------------------

\* However often a capture with a key is sent, and however its requests overlap,
\* one row at most stands for it (lines 133-140, 149-161).
AtMostOneRow ==
    \A c \in Keyed : \A m, n \in Copies :
        (rows[<<c, m>>] # "absent" /\ rows[<<c, n>>] # "absent") => m = n

\* What the device takes out of its buffer is stored: every punchId it was told,
\* by the request that stored the punch or by one that found it, is a row of
\* that capture, and a capture is dropped only after such an answer
\* (lines 137-139, 163).
AcknowledgedIsStored ==
    \A c \in Captures :
        /\ told[c] \subseteq Stored(c)
        /\ buffer[c] = "done" => told[c] # {}
        /\ \A p \in Posts : (capture[p] = c /\ reply[p] \in Accepted) =>
                                reply[p].punchId \in Stored(c)

\* A 500 loses nothing: the capture it answers is in the table already, or its
\* employee is gone (lines 149-161).
ErrorLosesNothing ==
    \A p \in Posts :
        (stage[p] = "answered" /\ reply[p].kind = "error") =>
            \/ Stored(capture[p]) # {}
            \/ owner[capture[p]] \notin employees

\* The table as a device sees it.
OneOf(ids) == IF ids = {} THEN None ELSE CHOOSE id \in ids : TRUE
RowOf(c) == OneOf(Stored(c))
Delivery == INSTANCE PunchDelivery WITH
                recorded <- [c \in Keyed |-> RowOf(c)],
                told <- [c \in Keyed |-> told[c]]
ImplementsDelivery == Delivery!DeliverySpec

\* A capture with a key is acknowledged in the end, unless its employee goes:
\* a lost answer is made up for by the replay that finds the punch.
EventuallyAcknowledged ==
    \A c \in Keyed :
        buffer[c] = "waiting" ~> (buffer[c] = "done" \/ owner[c] \notin employees)
=============================================================================
