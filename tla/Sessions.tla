------------------------------ MODULE Sessions ------------------------------
(***************************************************************************)
(* Sessions: AuthService (src/src/modules/auth/auth.service.ts) with       *)
(* JwtService, JwtAuthGuard and TokenBlacklistService                      *)
(* (src/src/common/auth/). A login or a refresh hands out a pair of        *)
(* tokens: a refresh token, whose row a later refresh revokes, and a       *)
(* signed access token, which no table knows and which ends by its expiry  *)
(* or, after a logout, by a list that the process keeps in its memory. One *)
(* process, which may restart at any moment.                               *)
(* A pair has the name of the request that got it, or of the user when it  *)
(* is older than the behaviour; an access token that another service signs *)
(* has a name in Grants. A user is its email, which is unique.             *)
(***************************************************************************)
EXTENDS Integers, FiniteSets

CONSTANTS
    Emails,         \* of the rows of User, present and future
    SuperAdmin,     \* the one the seed created, logged in at the start
    Companies,      \* what a user's companyId may be, besides None
    Requests,       \* bound: requests of clients
    Grants,         \* access tokens signed outside AuthService
    AccessTtl,      \* JWT_ACCESS_TTL_SECONDS
    RefreshTtl,     \* JWT_REFRESH_TTL_SECONDS
    MaxTtl,         \* bound: the longest life of an access token
    MaxClock,       \* bound: the last second of the clock
    None

\* The ids of refresh tokens, and the jti of access tokens.
Tokens == Emails \cup Requests
Jtis == Tokens \cup Grants

ASSUME SuperAdminAssumption == SuperAdmin \in Emails
ASSUME TtlAssumption ==
    /\ {AccessTtl, RefreshTtl, MaxTtl} \subseteq Nat \ {0}
    /\ AccessTtl <= MaxTtl
ASSUME ClockAssumption == MaxClock \in Nat
ASSUME NamesAssumption ==
    /\ Emails \cap Requests = {}
    /\ Tokens \cap Grants = {}

VARIABLES
    clock,          \* seconds
    users,          \* users[e]: row of User, or None
    refreshTokens,  \* refreshTokens[t]: row of RefreshToken, or None
    accessTokens,   \* accessTokens[j]: the claims that were signed, or None
    held,           \* the tokens that reached the client
    blacklist,      \* blacklist[j]: expiry in TokenBlacklistService.local, or None
    stage,          \* stage[r]: where the handler of request r is
    request,        \* request[r]: what it asked for, None before and if refused
    dismissed       \* history: tokens whose logout this process answered

tables == <<users, refreshTokens>>
memory == <<clock, blacklist, dismissed>>
progress == <<stage, request>>
sessionVars == <<tables, accessTokens, held, memory, progress>>

Roles == {"SUPER_ADMIN", "COMPANY_ADMIN"}
Status == {"ACTIVE", "SUSPENDED"}
Seconds == 0 .. MaxClock + RefreshTtl + MaxTtl
User == [status : Status, company : Companies \cup {None}, role : Roles]
RefreshToken == [user : Emails, expiresAt : Seconds, revoked : BOOLEAN]
Claims ==
    [user : Emails, company : Companies \cup {None}, role : Roles, exp : Seconds]
Request ==
    [op : {"login", "refresh", "logout", "call"}, user : Emails \cup {None},
     access : Jtis \cup {None}, refresh : Tokens \cup {None}]

Busy == {"issue", "revoke", "blacklist", "close", "answer"}
Over == {"done", "refused", "lost"}

ASSUME NoneAssumption ==
    None \notin Emails \cup Companies \cup Jtis \cup User \cup RefreshToken
                    \cup Claims \cup Request \cup Nat

SessionsTypeOK ==
    /\ clock \in 0 .. MaxClock
    /\ users \in [Emails -> User \cup {None}]
    /\ refreshTokens \in [Tokens -> RefreshToken \cup {None}]
    /\ accessTokens \in [Jtis -> Claims \cup {None}]
    /\ held \subseteq Jtis
    /\ blacklist \in [Jtis -> Seconds \cup {None}]
    /\ stage \in [Requests -> {"idle"} \cup Busy \cup Over]
    /\ request \in [Requests -> Request \cup {None}]
    /\ dismissed \subseteq Jtis

Seeded == [status |-> "ACTIVE", company |-> None, role |-> "SUPER_ADMIN"]

ClaimsOf(e, now) ==
    [user |-> e, company |-> users[e].company, role |-> users[e].role,
     exp |-> now + AccessTtl]

SessionsInit ==
    /\ clock = 0
    /\ users = [e \in Emails |-> IF e = SuperAdmin THEN Seeded ELSE None]
    /\ \E end \in 1 .. RefreshTtl :
          refreshTokens =
             [t \in Tokens |->
                 IF t = SuperAdmin
                 THEN [user |-> SuperAdmin, expiresAt |-> end, revoked |-> FALSE]
                 ELSE None]
    /\ accessTokens =
           [j \in Jtis |-> IF j = SuperAdmin THEN ClaimsOf(SuperAdmin, 0) ELSE None]
    /\ held = {SuperAdmin}
    /\ blacklist = [j \in Jtis |-> None]
    /\ stage = [r \in Requests |-> "idle"]
    /\ request = [r \in Requests |-> None]
    /\ dismissed = {}

-----------------------------------------------------------------------------
(***************************************************************************)
(* Requests. Variants that no action uses stand before some helpers:       *)
(* plausible mistakes, kept to show that a property would catch them.      *)
(***************************************************************************)

Goto(r, s) == stage' = [stage EXCEPT ![r] = s]

\* A request arrives, and is refused or goes on at s.
Start(r, op, e, a, t, accepted, s) ==
    /\ stage[r] = "idle"
    /\ Goto(r, IF accepted THEN s ELSE "refused")
    /\ request' =
           IF accepted
           THEN [request EXCEPT ![r] =
                    [op |-> op, user |-> e, access |-> a, refresh |-> t]]
           ELSE request

Active(e) == users[e] # None /\ users[e].status = "ACTIVE"

\* login: the user is found, and the password compared.
Login(r, e, correct) ==
    /\ Start(r, "login", e, None, None, Active(e) /\ correct, "issue")
    /\ UNCHANGED <<tables, accessTokens, held, memory>>

\* What refresh accepts.
RefreshableTwice(t) ==
    /\ refreshTokens[t] # None
    /\ refreshTokens[t].expiresAt > clock
    /\ Active(refreshTokens[t].user)
Refreshable(t) ==
    /\ refreshTokens[t] # None
    /\ ~refreshTokens[t].revoked
    /\ refreshTokens[t].expiresAt > clock
    /\ Active(refreshTokens[t].user)

Refresh(r, t) ==
    /\ Start(r, "refresh", None, None, t, Refreshable(t), "revoke")
    /\ UNCHANGED <<tables, accessTokens, held, memory>>

Revoked(t) == [refreshTokens EXCEPT ![t].revoked = TRUE]

\* The transaction of refresh: it asks for nothing but the id.
Revoke(r) ==
    /\ stage[r] = "revoke"
    /\ refreshTokens' = Revoked(request[r].refresh)
    /\ Goto(r, "issue")
    /\ UNCHANGED <<users, accessTokens, held, memory, request>>

Subject(r) ==
    IF request[r].op = "login" THEN request[r].user
    ELSE refreshTokens[request[r].refresh].user

\* issue: an access token is signed and a refresh token stored.
Issue(r) ==
    /\ stage[r] = "issue"
    /\ LET e == Subject(r)
       IN  /\ accessTokens' = [accessTokens EXCEPT ![r] = ClaimsOf(e, clock)]
           /\ refreshTokens' = [refreshTokens EXCEPT ![r] =
                  [user |-> e, expiresAt |-> clock + RefreshTtl, revoked |-> FALSE]]
    /\ Goto(r, "answer")
    /\ UNCHANGED <<users, held, memory, request>>

-----------------------------------------------------------------------------
(***************************************************************************)
(* The guard of every endpoint that is not public, and logout.             *)
(***************************************************************************)

Verified(a, now) == accessTokens[a] # None /\ accessTokens[a].exp > now

\* TokenBlacklistService.isBlacklisted.
BlacklistedLate(a, now) == blacklist[a] # None /\ blacklist[a] > now + 1
Blacklisted(a, now) == blacklist[a] # None /\ blacklist[a] > now

\* Entries that have expired are dropped when they are asked for.
Pruned(a, now) ==
    IF blacklist[a] # None /\ ~Blacklisted(a, now)
    THEN [blacklist EXCEPT ![a] = None] ELSE blacklist

\* JwtAuthGuard.canActivate. It reads the clock twice, in verify and in
\* isBlacklisted: the second may turn in between.
Guard(a, admitted) ==
    \E later \in {clock, clock + 1} :
        /\ later <= MaxClock
        /\ clock' = later
        /\ admitted = (Verified(a, clock) /\ ~Blacklisted(a, later))
        /\ blacklist' = IF Verified(a, clock) THEN Pruned(a, later) ELSE blacklist

\* A request to any endpoint but the public ones and logout.
Call(r, a) ==
    \E admitted \in BOOLEAN :
        /\ Start(r, "call", None, a, None, admitted, "done")
        /\ Guard(a, admitted)
        /\ UNCHANGED <<tables, accessTokens, held, dismissed>>

Logout(r, a, t) ==
    \E admitted \in BOOLEAN :
        /\ Start(r, "logout", None, a, t, admitted, "blacklist")
        /\ Guard(a, admitted)
        /\ UNCHANGED <<tables, accessTokens, held, dismissed>>

\* payload.exp is in seconds; the variant takes it for milliseconds.
ListedUntilMillis(a) == 1000 * accessTokens[a].exp
ListedUntil(a) == accessTokens[a].exp

\* logout verifies the token once more and puts it on the list.
Blacklist(r) ==
    LET a == request[r].access
    IN  /\ stage[r] = "blacklist"
        /\ \/ /\ Verified(a, clock)
              /\ blacklist' = [blacklist EXCEPT ![a] = ListedUntil(a)]
              /\ Goto(r, IF request[r].refresh = None THEN "answer" ELSE "close")
           \/ /\ ~Verified(a, clock)
              /\ Goto(r, "refused")
              /\ UNCHANGED blacklist
        /\ UNCHANGED <<tables, accessTokens, held, clock, dismissed, request>>

\* The refresh token a logout names is its own: updateMany asks for the user.
Owned(r) == refreshTokens[request[r].refresh].user = accessTokens[request[r].access].user

Close(r) ==
    /\ stage[r] = "close"
    /\ refreshTokens' = IF Owned(r) THEN Revoked(request[r].refresh) ELSE refreshTokens
    /\ Goto(r, "answer")
    /\ UNCHANGED <<users, accessTokens, held, memory, request>>

\* The answer reaches the client, with the pair of a login or a refresh.
Answer(r) ==
    /\ stage[r] = "answer"
    /\ Goto(r, "done")
    /\ IF request[r].op = "logout"
       THEN dismissed' = dismissed \cup {request[r].access} /\ UNCHANGED held
       ELSE held' = held \cup {r} /\ UNCHANGED dismissed
    /\ UNCHANGED <<tables, accessTokens, clock, blacklist, request>>

\* A statement is rejected, the connection goes, or the answer is lost.
Lose(r) ==
    /\ stage[r] \in Busy
    /\ Goto(r, "lost")
    /\ UNCHANGED <<tables, accessTokens, held, memory, request>>

-----------------------------------------------------------------------------
(***************************************************************************)
(* The rest of the program, as the sessions see it.                        *)
(***************************************************************************)

\* The process dies and comes back: its list is empty, its requests are lost.
Restart ==
    /\ blacklist' = [j \in Jtis |-> None]
    /\ dismissed' = {}
    /\ stage' = [r \in Requests |-> IF stage[r] \in Busy THEN "lost" ELSE stage[r]]
    /\ UNCHANGED <<tables, accessTokens, held, clock, request>>

Tick ==
    /\ clock < MaxClock
    /\ clock' = clock + 1
    /\ UNCHANGED <<tables, accessTokens, held, blacklist, dismissed, progress>>

\* A user is suspended: by hand, no endpoint does it.
Suspend(e) ==
    /\ users[e] # None
    /\ users' = [users EXCEPT ![e].status = "SUSPENDED"]
    /\ UNCHANGED <<refreshTokens, accessTokens, held, memory, progress>>

\* Another service creates a user.
Enrol(e) ==
    /\ users[e] = None
    /\ \E u \in User : users' = [users EXCEPT ![e] = u]
    /\ UNCHANGED <<refreshTokens, accessTokens, held, memory, progress>>

\* Another service signs an access token, and hands it out.
Sign(j) ==
    /\ accessTokens[j] = None
    /\ \E c \in Claims :
          /\ c.exp <= clock + MaxTtl
          /\ accessTokens' = [accessTokens EXCEPT ![j] = c]
    /\ UNCHANGED <<tables, held, memory, progress>>

HandOut(j) ==
    /\ accessTokens[j] # None
    /\ held' = held \cup {j}
    /\ UNCHANGED <<tables, accessTokens, memory, progress>>

\* An endpoint of another service, behind the guard.
Guarded ==
    /\ \E a \in held, admitted \in BOOLEAN : Guard(a, admitted)
    /\ UNCHANGED <<tables, accessTokens, held, dismissed, progress>>

Handle(r) ==
    \/ \E e \in Emails, correct \in BOOLEAN : Login(r, e, correct)
    \/ \E t \in held \cap Tokens : Refresh(r, t)
    \/ \E a \in held, t \in (held \cap Tokens) \cup {None} : Logout(r, a, t)
    \/ \E a \in held : Call(r, a)
    \/ Revoke(r) \/ Issue(r) \/ Blacklist(r) \/ Close(r) \/ Answer(r) \/ Lose(r)

SessionsNext ==
    \/ \E r \in Requests : Handle(r)
    \/ \E e \in Emails : Suspend(e) \/ Enrol(e)
    \/ \E j \in Grants : Sign(j) \/ HandOut(j)
    \/ Guarded
    \/ Restart
    \/ Tick

SessionsSpec == SessionsInit /\ [][SessionsNext]_sessionVars

-----------------------------------------------------------------------------

\* An answered request ended refresh token t: it exchanged it, or its user
\* logged out with it.
Spent(t) ==
    \E q \in Requests :
        /\ stage[q] = "done"
        /\ request[q].op \in {"refresh", "logout"}
        /\ request[q].refresh = t
        /\ request[q].op = "logout" => Owned(q)

\* Action property: a refresh token is exchanged no more once another exchange
\* of it, or a logout with it, was answered. Two pairs for one token take two
\* requests that overlap (lines 63-81, 86-94).
SpentIsRefused ==
    [][\A r \in Requests :
           (/\ stage[r] = "idle"
            /\ stage'[r] = "revoke") => ~Spent(request'[r].refresh)]_sessionVars

\* Action property: once a logout is answered, its access token opens nothing
\* for as long as the process lives: a request that the guard lets pass with it
\* passes in the very second the token expires (jwt-auth.guard.ts 11,
\* token-blacklist.service.ts 25-37).
LoggedOutIsRefused ==
    [][\A r \in Requests :
           (/\ stage[r] = "idle"
            /\ stage'[r] \in {"done", "blacklist"}
            /\ request'[r].access \in dismissed) =>
               accessTokens[request'[r].access].exp <= clock']_sessionVars
=============================================================================
