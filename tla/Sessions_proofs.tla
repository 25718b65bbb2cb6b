--------------------------- MODULE Sessions_proofs ---------------------------
(***************************************************************************)
(* Proofs about Sessions, for any users, requests, tokens and lifetimes.   *)
(* The argument: a row of a token keeps its user and stays revoked, an     *)
(* access token keeps its claims, and what a request has checked or done   *)
(* of them therefore holds until its end; only the list of the process is  *)
(* lost, with every request that relies on it.                             *)
(***************************************************************************)
EXTENDS Sessions, TLAPS

\* What a request that was accepted refers to is there.
Needs(r) ==
    LET q == request[r]
    IN  /\ q \in Request
        /\ q.user # None => users[q.user] # None
        /\ q.refresh # None => refreshTokens[q.refresh] # None
        /\ q.op = "login" => q.user # None
        /\ q.op = "refresh" => q.refresh # None
        /\ q.op \in {"logout", "call"} => q.access # None

CallOK(r) ==
    /\ stage[r] \in Busy \cup {"done"} => Needs(r)
    /\ stage[r] \in {"idle", "revoke", "issue"} =>
           refreshTokens[r] = None /\ accessTokens[r] = None
    /\ stage[r] = "revoke" => request[r].op = "refresh"
    /\ stage[r] = "issue" => request[r].op \in {"login", "refresh"}
    /\ stage[r] \in {"blacklist", "close"} => request[r].op = "logout"
    /\ stage[r] = "close" => request[r].refresh # None
    /\ stage[r] = "answer" => request[r].op = "logout" \/ refreshTokens[r] # None

\* Tokens that clients hold, and their users, have rows.
RowsOK ==
    /\ \A t \in held \cap Tokens : refreshTokens[t] # None
    /\ \A t \in Tokens : refreshTokens[t] # None => users[refreshTokens[t].user] # None

TypeInv ==
    /\ SessionsTypeOK
    /\ RowsOK
    /\ \A r \in Requests : CallOK(r)

-----------------------------------------------------------------------------
(***************************************************************************)
(* Names, and rows that change a column.                                   *)
(***************************************************************************)

LEMMA Names ==
  /\ None \notin Emails /\ None \notin Tokens /\ None \notin Jtis
  /\ None \notin User /\ None \notin RefreshToken /\ None \notin Claims
  /\ Requests \subseteq Tokens /\ Emails \subseteq Tokens
  /\ Tokens \subseteq Jtis /\ Grants \subseteq Jtis
  /\ Requests \cap Grants = {} /\ SuperAdmin \notin Requests
  /\ SuperAdmin \in Emails /\ None \notin Request /\ None \notin Nat
  BY NoneAssumption, NamesAssumption, SuperAdminAssumption DEF Tokens, Jtis

LEMMA RevokedRow ==
  ASSUME SessionsTypeOK, NEW t \in Tokens, refreshTokens[t] # None
  PROVE  /\ Revoked(t) \in [Tokens -> RefreshToken \cup {None}]
         /\ \A x \in Tokens \ {t} : Revoked(t)[x] = refreshTokens[x]
         /\ Revoked(t)[t] \in RefreshToken
         /\ Revoked(t)[t].user = refreshTokens[t].user
         /\ Revoked(t)[t].revoked = TRUE
<1>1. refreshTokens \in [Tokens -> RefreshToken \cup {None}] /\ refreshTokens[t] \in RefreshToken
  BY DEF SessionsTypeOK
<1>2. [refreshTokens[t] EXCEPT !.revoked = TRUE] \in RefreshToken
  BY <1>1 DEF RefreshToken
<1>3. /\ [refreshTokens[t] EXCEPT !.revoked = TRUE].user = refreshTokens[t].user
      /\ [refreshTokens[t] EXCEPT !.revoked = TRUE].revoked = TRUE
  BY <1>1 DEF RefreshToken
<1>4. Revoked(t) = [refreshTokens EXCEPT ![t] = [refreshTokens[t] EXCEPT !.revoked = TRUE]]
  BY DEF Revoked
<1>5. Revoked(t)[t] = [refreshTokens[t] EXCEPT !.revoked = TRUE]
  BY <1>1, <1>4
<1>6. QED
  BY <1>1, <1>2, <1>3, <1>4, <1>5

LEMMA SuspendedRow ==
  ASSUME NEW u \in User
  PROVE  /\ [u EXCEPT !.status = "SUSPENDED"] \in User
         /\ [u EXCEPT !.status = "SUSPENDED"].company = u.company
         /\ [u EXCEPT !.status = "SUSPENDED"].role = u.role
  BY DEF User, Status

LEMMA SignedClaims ==
  ASSUME SessionsTypeOK, NEW e \in Emails, users[e] # None
  PROVE  ClaimsOf(e, clock) \in Claims
<1>1. users[e] \in User
  BY DEF SessionsTypeOK
<1>2. clock + AccessTtl \in Seconds
  BY TtlAssumption, ClockAssumption DEF SessionsTypeOK, Seconds
<1>3. QED
  BY <1>1, <1>2 DEF ClaimsOf, Claims, User

\* Who a pair is issued to is a user.
LEMMA SubjectIsUser ==
  ASSUME TypeInv, NEW r \in Requests, stage[r] = "issue"
  PROVE  Subject(r) \in Emails /\ users[Subject(r)] # None
<1>1. Needs(r) /\ request[r].op \in {"login", "refresh"}
  BY DEF TypeInv, CallOK, Busy
<1>2. CASE request[r].op = "login"
  BY <1>1, <1>2 DEF Needs, Request, Subject
<1>3. CASE request[r].op = "refresh"
  <2>1. request[r].refresh \in Tokens /\ refreshTokens[request[r].refresh] # None
    BY <1>1, <1>3 DEF Needs, Request
  <2>2. refreshTokens[request[r].refresh] \in RefreshToken
    BY <2>1 DEF TypeInv, SessionsTypeOK
  <2>3. QED
    BY <1>3, <2>1, <2>2 DEF TypeInv, RowsOK, Subject, RefreshToken
<1>4. QED
  BY <1>1, <1>2, <1>3

-----------------------------------------------------------------------------
(***************************************************************************)
(* Three ways a step changes the state: what the guard does, the rows it   *)
(* may touch, and the request it moves.                                    *)
(***************************************************************************)

LEMMA GuardType ==
  ASSUME SessionsTypeOK, NEW a \in Jtis, NEW admitted, Guard(a, admitted)
  PROVE  /\ clock' \in 0 .. MaxClock
         /\ blacklist' \in [Jtis -> Seconds \cup {None}]
         /\ clock <= clock'
<1>1. PICK later \in {clock, clock + 1} :
        /\ later <= MaxClock
        /\ clock' = later
        /\ blacklist' = IF Verified(a, clock) THEN Pruned(a, later) ELSE blacklist
  BY DEF Guard
<1>2. Pruned(a, later) \in [Jtis -> Seconds \cup {None}]
  BY DEF Pruned, SessionsTypeOK
<1>3. QED
  BY <1>1, <1>2, ClockAssumption DEF SessionsTypeOK

\* Rows and claims only gain: no user goes, no token does or changes its user,
\* revoked tokens stay so, and claims are never written again.
RowsGrow ==
    /\ \A e \in Emails : users[e] # None =>
           users'[e] # None /\ users'[e].company = users[e].company
    /\ \A t \in Tokens : refreshTokens[t] # None =>
           /\ refreshTokens'[t] # None
           /\ refreshTokens'[t].user = refreshTokens[t].user
           /\ refreshTokens[t].revoked => refreshTokens'[t].revoked
    /\ \A j \in Jtis : accessTokens[j] # None => accessTokens'[j] = accessTokens[j]

\* A step keeps the rows that it does not write.
LEMMA SameRows ==
  ASSUME TypeInv, UNCHANGED <<tables, accessTokens>>
  PROVE  RowsGrow
  BY DEF RowsGrow, tables

LEMMA IssueStep ==
  ASSUME TypeInv, NEW r \in Requests, Issue(r)
  PROVE  /\ RowsGrow
         /\ refreshTokens' \in [Tokens -> RefreshToken \cup {None}]
         /\ accessTokens' \in [Jtis -> Claims \cup {None}]
         /\ refreshTokens'[r] # None
         /\ users'[refreshTokens'[r].user] # None
         /\ \A x \in Tokens \ {r} : refreshTokens'[x] = refreshTokens[x]
         /\ \A x \in Jtis \ {r} : accessTokens'[x] = accessTokens[x]
<1> DEFINE e == Subject(r)
           row == [user |-> e, expiresAt |-> clock + RefreshTtl, revoked |-> FALSE]
<1>1. /\ stage[r] = "issue"
      /\ accessTokens' = [accessTokens EXCEPT ![r] = ClaimsOf(e, clock)]
      /\ refreshTokens' = [refreshTokens EXCEPT ![r] = row]
      /\ users' = users
  BY DEF Issue
<1>2. e \in Emails /\ users[e] # None
  BY <1>1, SubjectIsUser
<1>3. ClaimsOf(e, clock) \in Claims
  BY <1>2, SignedClaims DEF TypeInv
<1>4. row \in RefreshToken /\ row.user = e
  BY <1>2, TtlAssumption, ClockAssumption DEF TypeInv, SessionsTypeOK, Seconds, RefreshToken
<1> HIDE DEF e, row
<1>5. r \in Tokens /\ r \in Jtis /\ None \notin RefreshToken
  BY Names
<1>6. refreshTokens[r] = None /\ accessTokens[r] = None
  BY <1>1 DEF TypeInv, CallOK
<1>7. /\ refreshTokens' \in [Tokens -> RefreshToken \cup {None}]
      /\ accessTokens' \in [Jtis -> Claims \cup {None}]
      /\ refreshTokens'[r] = row
      /\ \A x \in Tokens \ {r} : refreshTokens'[x] = refreshTokens[x]
      /\ \A x \in Jtis \ {r} : accessTokens'[x] = accessTokens[x]
  BY <1>1, <1>3, <1>4, <1>5 DEF TypeInv, SessionsTypeOK
<1>8. RowsGrow
  BY <1>1, <1>6, <1>7 DEF RowsGrow
<1>9. QED
  BY <1>1, <1>2, <1>4, <1>5, <1>7, <1>8

\* Revoking a token that is there.
LEMMA RevokeStep ==
  ASSUME TypeInv, NEW t \in Tokens, refreshTokens[t] # None,
         refreshTokens' = Revoked(t), UNCHANGED <<users, accessTokens>>
  PROVE  /\ RowsGrow
         /\ refreshTokens' \in [Tokens -> RefreshToken \cup {None}]
         /\ refreshTokens'[t].revoked
         /\ \A x \in Tokens : refreshTokens[x] = None => refreshTokens'[x] = None
         /\ \A x \in Tokens : refreshTokens'[x] # None =>
                users'[refreshTokens'[x].user] # None
<1>1. /\ refreshTokens' \in [Tokens -> RefreshToken \cup {None}]
      /\ \A x \in Tokens \ {t} : refreshTokens'[x] = refreshTokens[x]
      /\ refreshTokens'[t] # None
      /\ refreshTokens'[t].user = refreshTokens[t].user
      /\ refreshTokens'[t].revoked
  BY RevokedRow, Names DEF TypeInv
<1>2. RowsGrow
  BY <1>1 DEF RowsGrow
<1>3. QED
  BY <1>1, <1>2 DEF TypeInv, RowsOK

LEMMA NeedsKept ==
  ASSUME RowsGrow, NEW p \in Requests, Needs(p), request'[p] = request[p]
  PROVE  Needs(p)'
<1> DEFINE q == request[p]
<1>1. q.user \in Emails \cup {None} /\ q.refresh \in Tokens \cup {None}
  BY DEF Needs, Request
<1>2. /\ q.user # None => users'[q.user] # None
      /\ q.refresh # None => refreshTokens'[q.refresh] # None
  BY <1>1 DEF RowsGrow, Needs
<1>3. QED
  BY <1>2 DEF Needs

\* A request that does not move stays well.
LEMMA OthersOK ==
  ASSUME TypeInv, RowsGrow, NEW p \in Requests,
         stage'[p] = stage[p], request'[p] = request[p],
         stage[p] \in {"idle", "revoke", "issue"} =>
             refreshTokens'[p] = refreshTokens[p] /\ accessTokens'[p] = accessTokens[p]
  PROVE  CallOK(p)'
<1>1. Needs(p) => Needs(p)'
  BY NeedsKept
<1>2. refreshTokens[p] # None => refreshTokens'[p] # None
  BY Names DEF RowsGrow
<1>3. QED
  BY <1>1, <1>2 DEF TypeInv, CallOK

\* Steps that write neither users nor refresh tokens keep the rows.
LEMMA RowsOKKept ==
  ASSUME TypeInv, UNCHANGED tables, \A t \in held' \cap Tokens : refreshTokens[t] # None
  PROVE  RowsOK'
  BY DEF TypeInv, RowsOK, tables

-----------------------------------------------------------------------------
(***************************************************************************)
(* The type invariant, action by action.                                   *)
(***************************************************************************)

\* What a request is after it arrived.
LEMMA StartStep ==
  ASSUME TypeInv, NEW r \in Requests,
         NEW op \in {"login", "refresh", "logout", "call"}, NEW e \in Emails \cup {None},
         NEW a \in Jtis \cup {None}, NEW t \in Tokens \cup {None}, NEW accepted \in BOOLEAN,
         NEW s \in Busy \cup {"done"},
         Start(r, op, e, a, t, accepted, s)
  PROVE  /\ stage[r] = "idle"
         /\ stage' \in [Requests -> {"idle"} \cup Busy \cup Over]
         /\ request' \in [Requests -> Request \cup {None}]
         /\ \A p \in Requests \ {r} : stage'[p] = stage[p] /\ request'[p] = request[p]
         /\ accepted => /\ stage'[r] = s
                        /\ request'[r] \in Request
                        /\ request'[r] = [op |-> op, user |-> e, access |-> a, refresh |-> t]
         /\ ~accepted => stage'[r] = "refused"
<1> DEFINE q == [op |-> op, user |-> e, access |-> a, refresh |-> t]
<1>1. q \in Request
  BY DEF Request
<1>2. /\ stage[r] = "idle"
      /\ stage' = [stage EXCEPT ![r] = IF accepted THEN s ELSE "refused"]
      /\ request' = IF accepted THEN [request EXCEPT ![r] = q] ELSE request
  BY DEF Start, Goto
<1> HIDE DEF q
<1>3. QED
  <2>1. CASE accepted
    <3>1. stage' = [stage EXCEPT ![r] = s] /\ request' = [request EXCEPT ![r] = q]
      BY <1>2, <2>1
    <3>2. QED
      BY <1>1, <1>2, <2>1, <3>1 DEF q, TypeInv, SessionsTypeOK, Over
  <2>2. CASE ~accepted
    <3>1. stage' = [stage EXCEPT ![r] = "refused"] /\ request' = request
      BY <1>2, <2>2
    <3>2. QED
      BY <1>2, <2>2, <3>1 DEF TypeInv, SessionsTypeOK, Over
  <2>3. QED
    BY <2>1, <2>2

LEMMA LoginType ==
  ASSUME TypeInv, NEW r \in Requests, NEW e \in Emails, NEW correct \in BOOLEAN,
         Login(r, e, correct)
  PROVE  TypeInv' /\ RowsGrow
<1> DEFINE accepted == Active(e) /\ correct
<1>1. /\ Start(r, "login", e, None, None, accepted, "issue")
      /\ UNCHANGED <<tables, accessTokens, held, memory>>
  BY DEF Login
<1>2. accepted \in BOOLEAN /\ (accepted => users[e] # None)
  BY DEF Active
<1> HIDE DEF accepted
<1>3. /\ stage[r] = "idle"
      /\ stage' \in [Requests -> {"idle"} \cup Busy \cup Over]
      /\ request' \in [Requests -> Request \cup {None}]
      /\ \A p \in Requests \ {r} : stage'[p] = stage[p] /\ request'[p] = request[p]
      /\ accepted => /\ stage'[r] = "issue"
                     /\ request'[r] \in Request
                     /\ request'[r] = [op |-> "login", user |-> e, access |-> None, refresh |-> None]
      /\ ~accepted => stage'[r] = "refused"
  BY <1>1, <1>2, StartStep DEF Busy
<1>4. RowsGrow
  BY <1>1, SameRows
<1>5. SessionsTypeOK'
  BY <1>1, <1>3 DEF TypeInv, SessionsTypeOK, tables, memory
<1>6. RowsOK'
  BY <1>1, RowsOKKept DEF TypeInv, RowsOK
<1>7. CallOK(r)'
  <2>1. CASE accepted
    <3>1. Needs(r)'
      BY <1>1, <1>2, <1>3, <2>1, Names DEF Needs, tables
    <3>2. QED
      BY <1>1, <1>3, <2>1, <3>1 DEF TypeInv, CallOK, tables
  <2>2. CASE ~accepted
    BY <1>3, <2>2 DEF CallOK, Busy
  <2>3. QED
    BY <2>1, <2>2
<1>8. \A p \in Requests \ {r} : CallOK(p)'
  BY <1>1, <1>3, <1>4, OthersOK DEF tables
<1>9. QED
  BY <1>4, <1>5, <1>6, <1>7, <1>8 DEF TypeInv

LEMMA RefreshType ==
  ASSUME TypeInv, NEW r \in Requests, NEW t \in held \cap Tokens, Refresh(r, t)
  PROVE  TypeInv' /\ RowsGrow
<1> DEFINE accepted == Refreshable(t)
<1>1. /\ Start(r, "refresh", None, None, t, accepted, "revoke")
      /\ UNCHANGED <<tables, accessTokens, held, memory>>
  BY DEF Refresh
<1>2. accepted \in BOOLEAN /\ (accepted => refreshTokens[t] # None)
  BY DEF Refreshable
<1> HIDE DEF accepted
<1>3. /\ stage[r] = "idle"
      /\ stage' \in [Requests -> {"idle"} \cup Busy \cup Over]
      /\ request' \in [Requests -> Request \cup {None}]
      /\ \A p \in Requests \ {r} : stage'[p] = stage[p] /\ request'[p] = request[p]
      /\ accepted => /\ stage'[r] = "revoke"
                     /\ request'[r] \in Request
                     /\ request'[r] = [op |-> "refresh", user |-> None, access |-> None, refresh |-> t]
      /\ ~accepted => stage'[r] = "refused"
  BY <1>1, <1>2, StartStep DEF Busy
<1>4. RowsGrow
  BY <1>1, SameRows
<1>5. SessionsTypeOK'
  BY <1>1, <1>3 DEF TypeInv, SessionsTypeOK, tables, memory
<1>6. RowsOK'
  BY <1>1, RowsOKKept DEF TypeInv, RowsOK
<1>7. CallOK(r)'
  <2>1. CASE accepted
    <3>1. Needs(r)'
      BY <1>1, <1>2, <1>3, <2>1, Names DEF Needs, tables
    <3>2. QED
      BY <1>1, <1>3, <2>1, <3>1 DEF TypeInv, CallOK, tables
  <2>2. CASE ~accepted
    BY <1>3, <2>2 DEF CallOK, Busy
  <2>3. QED
    BY <2>1, <2>2
<1>8. \A p \in Requests \ {r} : CallOK(p)'
  BY <1>1, <1>3, <1>4, OthersOK DEF tables
<1>9. QED
  BY <1>4, <1>5, <1>6, <1>7, <1>8 DEF TypeInv

\* A call, and a logout that the guard lets pass.
LEMMA CallType ==
  ASSUME TypeInv, NEW r \in Requests, NEW a \in held, NEW t \in (held \cap Tokens) \cup {None},
         Call(r, a) \/ Logout(r, a, t)
  PROVE  TypeInv' /\ RowsGrow
<1>1. PICK admitted \in BOOLEAN, op \in {"call", "logout"},
           u \in (held \cap Tokens) \cup {None} :
        /\ Start(r, op, None, a, u, admitted, IF op = "call" THEN "done" ELSE "blacklist")
        /\ Guard(a, admitted)
        /\ UNCHANGED <<tables, accessTokens, held, dismissed>>
  BY DEF Call, Logout
<1>2. a \in Jtis
  BY DEF TypeInv, SessionsTypeOK
<1>3. /\ stage[r] = "idle"
      /\ stage' \in [Requests -> {"idle"} \cup Busy \cup Over]
      /\ request' \in [Requests -> Request \cup {None}]
      /\ \A p \in Requests \ {r} : stage'[p] = stage[p] /\ request'[p] = request[p]
      /\ admitted => /\ stage'[r] = IF op = "call" THEN "done" ELSE "blacklist"
                     /\ request'[r] \in Request
                     /\ request'[r] = [op |-> op, user |-> None, access |-> a, refresh |-> u]
      /\ ~admitted => stage'[r] = "refused"
  BY <1>1, <1>2, StartStep DEF Busy
<1>4. RowsGrow
  BY <1>1, SameRows
<1>5. SessionsTypeOK'
  <2>1. /\ clock' \in 0 .. MaxClock
        /\ blacklist' \in [Jtis -> Seconds \cup {None}]
    BY <1>1, <1>2, GuardType DEF TypeInv
  <2>2. QED
    BY <1>1, <1>3, <2>1 DEF TypeInv, SessionsTypeOK, tables
<1>6. RowsOK'
  BY <1>1, RowsOKKept DEF TypeInv, RowsOK
<1>7. CallOK(r)'
  <2>1. CASE admitted
    <3>1. u # None => refreshTokens[u] # None
      BY <1>1 DEF TypeInv, RowsOK
    <3>2. Needs(r)'
      BY <1>1, <1>2, <1>3, <2>1, <3>1, Names DEF Needs, tables
    <3>3. QED
      BY <1>3, <2>1, <3>2 DEF CallOK
  <2>2. CASE ~admitted
    BY <1>3, <2>2 DEF CallOK, Busy
  <2>3. QED
    BY <2>1, <2>2
<1>8. \A p \in Requests \ {r} : CallOK(p)'
  BY <1>1, <1>3, <1>4, OthersOK DEF tables
<1>9. QED
  BY <1>4, <1>5, <1>6, <1>7, <1>8 DEF TypeInv

\* The rows of a step that revokes token t, of request r, and moves it on to s.
LEMMA EndTokenType ==
  ASSUME TypeInv, NEW r \in Requests, NEW t \in Tokens, refreshTokens[t] # None,
         \/ /\ stage[r] = "revoke" /\ Goto(r, "issue")
         \/ /\ stage[r] = "close" /\ Goto(r, "answer"),
         refreshTokens' = Revoked(t),
         UNCHANGED <<users, accessTokens, held, memory, request>>
  PROVE  TypeInv' /\ RowsGrow
<1>1. /\ RowsGrow
      /\ refreshTokens' \in [Tokens -> RefreshToken \cup {None}]
      /\ \A x \in Tokens : refreshTokens[x] = None => refreshTokens'[x] = None
      /\ \A x \in Tokens : refreshTokens'[x] # None => users'[refreshTokens'[x].user] # None
  BY RevokeStep
<1>2. SessionsTypeOK'
  BY <1>1 DEF TypeInv, SessionsTypeOK, memory, Goto, Busy
<1>3. RowsOK'
  BY <1>1 DEF TypeInv, RowsOK, RowsGrow
<1>4. CallOK(r)'
  <2>1. Needs(r)'
    BY <1>1, NeedsKept DEF TypeInv, CallOK, Busy
  <2>2. CASE stage[r] = "revoke"
    <3>1. stage'[r] = "issue"
      BY <2>2 DEF Goto, TypeInv, SessionsTypeOK
    <3>2. request[r].op = "refresh" /\ refreshTokens[r] = None /\ accessTokens[r] = None
      BY <2>2 DEF TypeInv, CallOK
    <3>3. QED
      BY <1>1, <2>1, <3>1, <3>2, Names DEF CallOK
  <2>3. CASE stage[r] = "close"
    <3>1. stage'[r] = "answer"
      BY <2>3 DEF Goto, TypeInv, SessionsTypeOK
    <3>2. request[r].op = "logout"
      BY <2>3 DEF TypeInv, CallOK
    <3>3. QED
      BY <2>1, <3>1, <3>2 DEF CallOK
  <2>4. QED
    BY <2>2, <2>3
<1>5. ASSUME NEW p \in Requests \ {r}
      PROVE  CallOK(p)'
  <2>1. stage'[p] = stage[p] /\ request'[p] = request[p]
    BY DEF Goto, TypeInv, SessionsTypeOK
  <2>2. stage[p] \in {"idle", "revoke", "issue"} =>
            refreshTokens'[p] = refreshTokens[p] /\ accessTokens'[p] = accessTokens[p]
    BY <1>1, Names DEF TypeInv, CallOK
  <2>3. QED
    BY <1>1, <2>1, <2>2, OthersOK
<1>6. QED
  BY <1>1, <1>2, <1>3, <1>4, <1>5 DEF TypeInv

LEMMA RevokeType ==
  ASSUME TypeInv, NEW r \in Requests, Revoke(r)
  PROVE  TypeInv' /\ RowsGrow
<1>1. stage[r] = "revoke" /\ request[r].op = "refresh" /\ Needs(r)
  BY DEF Revoke, TypeInv, CallOK, Busy
<1>2. request[r].refresh \in Tokens /\ refreshTokens[request[r].refresh] # None
  BY <1>1 DEF Needs, Request
<1>3. QED
  BY <1>1, <1>2, EndTokenType DEF Revoke

\* The answer of a logout follows at once, or after its row was looked at.
LEMMA CloseType ==
  ASSUME TypeInv, NEW r \in Requests, Close(r)
  PROVE  TypeInv' /\ RowsGrow
<1>1. /\ stage[r] = "close" /\ request[r].op = "logout"
      /\ request[r].refresh # None /\ Needs(r)
  BY DEF Close, TypeInv, CallOK, Busy
<1>2. request[r].refresh \in Tokens /\ refreshTokens[request[r].refresh] # None
  BY <1>1 DEF Needs, Request
<1>3. CASE Owned(r)
  BY <1>1, <1>2, <1>3, EndTokenType DEF Close
<1>4. CASE ~Owned(r)
  <2>1. /\ stage' = [stage EXCEPT ![r] = "answer"]
        /\ UNCHANGED <<tables, accessTokens, held, memory, request>>
    BY <1>4 DEF Close, Goto, tables
  <2>2. RowsGrow
    BY <2>1, SameRows
  <2>3. SessionsTypeOK'
    BY <2>1 DEF TypeInv, SessionsTypeOK, tables, memory, Busy
  <2>4. RowsOK'
    BY <2>1, RowsOKKept DEF TypeInv, RowsOK
  <2>5. CallOK(r)'
    <3>1. stage'[r] = "answer" /\ Needs(r)'
      BY <1>1, <2>1, <2>2, NeedsKept DEF TypeInv, SessionsTypeOK
    <3>2. QED
      BY <1>1, <2>1, <3>1 DEF CallOK
  <2>6. \A p \in Requests \ {r} : CallOK(p)'
    BY <2>1, <2>2, OthersOK DEF TypeInv, SessionsTypeOK, tables
  <2>7. QED
    BY <2>2, <2>3, <2>4, <2>5, <2>6 DEF TypeInv
<1>5. QED
  BY <1>3, <1>4

LEMMA IssueType ==
  ASSUME TypeInv, NEW r \in Requests, Issue(r)
  PROVE  TypeInv' /\ RowsGrow
<1>1. /\ stage[r] = "issue" /\ stage' = [stage EXCEPT ![r] = "answer"]
      /\ UNCHANGED <<users, held, memory, request>>
  BY DEF Issue, Goto
<1>2. /\ RowsGrow
      /\ refreshTokens' \in [Tokens -> RefreshToken \cup {None}]
      /\ accessTokens' \in [Jtis -> Claims \cup {None}]
      /\ refreshTokens'[r] # None
      /\ users'[refreshTokens'[r].user] # None
      /\ \A x \in Tokens \ {r} : refreshTokens'[x] = refreshTokens[x]
      /\ \A x \in Jtis \ {r} : accessTokens'[x] = accessTokens[x]
  BY IssueStep
<1>3. SessionsTypeOK'
  BY <1>1, <1>2 DEF TypeInv, SessionsTypeOK, memory, Busy
<1>4. RowsOK'
  BY <1>1, <1>2 DEF TypeInv, RowsOK, RowsGrow
<1>5. CallOK(r)'
  <2>1. Needs(r)'
    BY <1>1, <1>2, NeedsKept DEF TypeInv, CallOK, Busy
  <2>2. stage'[r] = "answer"
    BY <1>1 DEF TypeInv, SessionsTypeOK
  <2>3. QED
    BY <1>2, <2>1, <2>2 DEF CallOK
<1>6. ASSUME NEW p \in Requests \ {r}
      PROVE  CallOK(p)'
  <2>1. /\ stage'[p] = stage[p] /\ request'[p] = request[p]
        /\ refreshTokens'[p] = refreshTokens[p] /\ accessTokens'[p] = accessTokens[p]
    BY <1>1, <1>2, Names DEF TypeInv, SessionsTypeOK
  <2>2. QED
    BY <1>2, <2>1, OthersOK
<1>7. QED
  BY <1>2, <1>3, <1>4, <1>5, <1>6 DEF TypeInv

LEMMA BlacklistType ==
  ASSUME TypeInv, NEW r \in Requests, Blacklist(r)
  PROVE  TypeInv' /\ RowsGrow
<1>1. stage[r] = "blacklist" /\ request[r].op = "logout" /\ Needs(r)
  BY DEF Blacklist, TypeInv, CallOK, Busy
<1>2. request[r].access \in Jtis
  BY <1>1 DEF Needs, Request
<1>3. UNCHANGED <<tables, accessTokens, held, clock, dismissed, request>>
  BY DEF Blacklist
<1>4. /\ blacklist' \in [Jtis -> Seconds \cup {None}]
      /\ stage' \in [Requests -> {"idle"} \cup Busy \cup Over]
      /\ stage'[r] \in {"answer", "close", "refused"}
      /\ stage'[r] = "close" => request[r].refresh # None
      /\ \A p \in Requests \ {r} : stage'[p] = stage[p]
  <2>1. CASE Verified(request[r].access, clock)
    <3>1. accessTokens[request[r].access] \in Claims
      BY <1>2, <2>1 DEF Verified, TypeInv, SessionsTypeOK
    <3>2. ListedUntil(request[r].access) \in Seconds
      BY <3>1 DEF ListedUntil, Claims
    <3>3. /\ blacklist' = [blacklist EXCEPT ![request[r].access] =
                              ListedUntil(request[r].access)]
          /\ stage' = [stage EXCEPT ![r] =
                          IF request[r].refresh = None THEN "answer" ELSE "close"]
      BY <2>1 DEF Blacklist, Goto
    <3>4. QED
      BY <1>2, <3>2, <3>3 DEF TypeInv, SessionsTypeOK, Busy
  <2>2. CASE ~Verified(request[r].access, clock)
    BY <2>2 DEF Blacklist, Goto, TypeInv, SessionsTypeOK, Over
  <2>3. QED
    BY <2>1, <2>2
<1>5. RowsGrow
  BY <1>3, SameRows
<1>6. SessionsTypeOK'
  BY <1>3, <1>4 DEF TypeInv, SessionsTypeOK, tables
<1>7. RowsOK'
  BY <1>3, RowsOKKept DEF TypeInv, RowsOK
<1>8. CallOK(r)'
  <2>1. Needs(r)'
    BY <1>1, <1>3, <1>5, NeedsKept
  <2>2. QED
    BY <1>1, <1>3, <1>4, <2>1 DEF CallOK, Busy
<1>9. \A p \in Requests \ {r} : CallOK(p)'
  BY <1>3, <1>4, <1>5, OthersOK DEF tables
<1>10. QED
  BY <1>5, <1>6, <1>7, <1>8, <1>9 DEF TypeInv

LEMMA AnswerType ==
  ASSUME TypeInv, NEW r \in Requests, Answer(r)
  PROVE  TypeInv' /\ RowsGrow
<1>1. /\ stage[r] = "answer" /\ stage' = [stage EXCEPT ![r] = "done"]
      /\ UNCHANGED <<tables, accessTokens, clock, blacklist, request>>
  BY DEF Answer, Goto
<1>2. Needs(r) /\ (request[r].op = "logout" \/ refreshTokens[r] # None)
  BY <1>1 DEF TypeInv, CallOK, Busy
<1>3. /\ held' \subseteq Jtis /\ dismissed' \subseteq Jtis
      /\ \A t \in held' \cap Tokens : refreshTokens[t] # None
  <2>1. CASE request[r].op = "logout"
    <3>1. request[r].access \in Jtis
      BY <1>2, <2>1 DEF Needs, Request
    <3>2. held' = held /\ dismissed' = dismissed \cup {request[r].access}
      BY <2>1 DEF Answer
    <3>3. QED
      BY <3>1, <3>2 DEF TypeInv, SessionsTypeOK, RowsOK
  <2>2. CASE request[r].op # "logout"
    <3>1. held' = held \cup {r} /\ dismissed' = dismissed
      BY <2>2 DEF Answer
    <3>2. QED
      BY <1>2, <2>2, <3>1, Names DEF TypeInv, SessionsTypeOK, RowsOK
  <2>3. QED
    BY <2>1, <2>2
<1>4. RowsGrow
  BY <1>1, SameRows
<1>5. SessionsTypeOK'
  BY <1>1, <1>3 DEF TypeInv, SessionsTypeOK, tables, Over
<1>6. RowsOK'
  BY <1>1, <1>3, RowsOKKept
<1>7. CallOK(r)'
  <2>1. stage'[r] = "done" /\ Needs(r)'
    BY <1>1, <1>2, <1>4, NeedsKept DEF TypeInv, SessionsTypeOK
  <2>2. QED
    BY <2>1 DEF CallOK
<1>8. \A p \in Requests \ {r} : CallOK(p)'
  BY <1>1, <1>4, OthersOK DEF TypeInv, SessionsTypeOK, tables
<1>9. QED
  BY <1>4, <1>5, <1>6, <1>7, <1>8 DEF TypeInv

LEMMA LoseType ==
  ASSUME TypeInv, NEW r \in Requests, Lose(r)
  PROVE  TypeInv' /\ RowsGrow
<1>1. /\ stage' = [stage EXCEPT ![r] = "lost"]
      /\ UNCHANGED <<tables, accessTokens, held, memory, request>>
  BY DEF Lose, Goto
<1>2. RowsGrow
  BY <1>1, SameRows
<1>3. SessionsTypeOK'
  BY <1>1 DEF TypeInv, SessionsTypeOK, tables, memory, Over
<1>4. RowsOK'
  BY <1>1, RowsOKKept DEF TypeInv, RowsOK
<1>5. CallOK(r)'
  BY <1>1 DEF TypeInv, SessionsTypeOK, CallOK, Busy
<1>6. \A p \in Requests \ {r} : CallOK(p)'
  BY <1>1, <1>2, OthersOK DEF TypeInv, SessionsTypeOK, tables
<1>7. QED
  BY <1>2, <1>3, <1>4, <1>5, <1>6 DEF TypeInv

\* What the rest of the program does.
LEMMA UserType ==
  ASSUME TypeInv, NEW e \in Emails, Suspend(e) \/ Enrol(e)
  PROVE  TypeInv' /\ RowsGrow
<1>1. UNCHANGED <<refreshTokens, accessTokens, held, memory, progress>>
  BY DEF Suspend, Enrol
<1>2. PICK u \in User :
        /\ users' = [users EXCEPT ![e] = u]
        /\ users[e] # None => u.company = users[e].company
  <2>1. CASE Suspend(e)
    <3>1. users[e] \in User
      BY <2>1 DEF Suspend, TypeInv, SessionsTypeOK
    <3>2. users' = [users EXCEPT ![e] = [users[e] EXCEPT !.status = "SUSPENDED"]]
      BY <2>1 DEF Suspend
    <3>3. QED
      BY <3>1, <3>2, SuspendedRow
  <2>2. CASE Enrol(e)
    BY <2>2 DEF Enrol
  <2>3. QED
    BY <2>1, <2>2
<1>3. users' \in [Emails -> User \cup {None}] /\ users'[e] = u
  BY <1>2 DEF TypeInv, SessionsTypeOK
<1>4. RowsGrow
  BY <1>1, <1>2, <1>3, Names DEF RowsGrow, TypeInv, SessionsTypeOK
<1>5. SessionsTypeOK'
  BY <1>1, <1>3 DEF TypeInv, SessionsTypeOK, memory, progress
<1>6. RowsOK'
  <2>1. ASSUME NEW t \in Tokens, refreshTokens[t] # None
        PROVE  users'[refreshTokens[t].user] # None
    <3>1. refreshTokens[t].user \in Emails /\ users[refreshTokens[t].user] # None
      BY <2>1 DEF TypeInv, SessionsTypeOK, RowsOK, RefreshToken
    <3>2. QED
      BY <1>4, <3>1 DEF RowsGrow
  <2>2. QED
    BY <1>1, <2>1 DEF TypeInv, RowsOK
<1>7. \A p \in Requests : CallOK(p)'
  BY <1>1, <1>4, OthersOK DEF progress
<1>8. QED
  BY <1>4, <1>5, <1>6, <1>7 DEF TypeInv

LEMMA GrantType ==
  ASSUME TypeInv, NEW j \in Grants, Sign(j) \/ HandOut(j)
  PROVE  TypeInv' /\ RowsGrow
<1>1. /\ UNCHANGED <<tables, memory, progress>>
      /\ accessTokens' \in [Jtis -> Claims \cup {None}]
      /\ \A x \in Jtis : accessTokens[x] # None => accessTokens'[x] = accessTokens[x]
      /\ \A x \in Requests : accessTokens'[x] = accessTokens[x]
      /\ held' \in {held, held \cup {j}}
  BY Names DEF Sign, HandOut, TypeInv, SessionsTypeOK
<1>2. RowsGrow
  BY <1>1 DEF RowsGrow, tables
<1>3. SessionsTypeOK'
  BY <1>1, Names DEF TypeInv, SessionsTypeOK, tables, memory, progress
<1>4. RowsOK'
  BY <1>1, RowsOKKept, NamesAssumption DEF TypeInv, RowsOK
<1>5. \A p \in Requests : CallOK(p)'
  BY <1>1, <1>2, OthersOK DEF progress, tables
<1>6. QED
  BY <1>2, <1>3, <1>4, <1>5 DEF TypeInv

LEMMA GuardedType ==
  ASSUME TypeInv, Guarded
  PROVE  TypeInv' /\ RowsGrow
<1>1. PICK a \in held, admitted \in BOOLEAN : Guard(a, admitted)
  BY DEF Guarded
<1>2. UNCHANGED <<tables, accessTokens, held, dismissed, progress>>
  BY DEF Guarded
<1>3. RowsGrow
  BY <1>2, SameRows
<1>4. clock' \in 0 .. MaxClock /\ blacklist' \in [Jtis -> Seconds \cup {None}]
  BY <1>1, GuardType DEF TypeInv, SessionsTypeOK
<1>5. SessionsTypeOK'
  BY <1>2, <1>4 DEF TypeInv, SessionsTypeOK, tables, progress
<1>6. RowsOK'
  BY <1>2, RowsOKKept DEF TypeInv, RowsOK
<1>7. \A p \in Requests : CallOK(p)'
  BY <1>2, <1>3, OthersOK DEF progress, tables
<1>8. QED
  BY <1>3, <1>5, <1>6, <1>7 DEF TypeInv

LEMMA RestartType ==
  ASSUME TypeInv, Restart
  PROVE  TypeInv' /\ RowsGrow
<1>1. UNCHANGED <<tables, accessTokens, held, clock, request>>
  BY DEF Restart
<1>2. RowsGrow
  BY <1>1, SameRows
<1>3. SessionsTypeOK'
  BY <1>1 DEF Restart, TypeInv, SessionsTypeOK, tables, Over
<1>4. RowsOK'
  BY <1>1, RowsOKKept DEF TypeInv, RowsOK
<1>5. ASSUME NEW p \in Requests
      PROVE  CallOK(p)'
  <2>1. stage'[p] = IF stage[p] \in Busy THEN "lost" ELSE stage[p]
    BY DEF Restart
  <2>2. CASE stage[p] \in Busy
    BY <2>1, <2>2 DEF CallOK, Busy
  <2>3. CASE stage[p] \notin Busy
    BY <1>1, <1>2, <2>1, <2>3, OthersOK DEF tables
  <2>4. QED
    BY <2>2, <2>3
<1>6. QED
  BY <1>2, <1>3, <1>4, <1>5 DEF TypeInv

LEMMA StillType ==
  ASSUME TypeInv, Tick \/ UNCHANGED sessionVars
  PROVE  TypeInv' /\ RowsGrow
<1>1. UNCHANGED <<tables, accessTokens, held, blacklist, dismissed, progress>>
  BY DEF Tick, sessionVars, memory
<1>2. clock' \in 0 .. MaxClock
  BY ClockAssumption DEF Tick, sessionVars, memory, TypeInv, SessionsTypeOK
<1>3. RowsGrow
  BY <1>1, SameRows
<1>4. SessionsTypeOK'
  BY <1>1, <1>2 DEF TypeInv, SessionsTypeOK, tables, progress
<1>5. RowsOK'
  BY <1>1, RowsOKKept DEF TypeInv, RowsOK
<1>6. \A p \in Requests : CallOK(p)'
  BY <1>1, <1>3, OthersOK DEF progress, tables
<1>7. QED
  BY <1>3, <1>4, <1>5, <1>6 DEF TypeInv

\* Every step keeps the types and lets rows and claims only grow.
LEMMA TypeStep ==
  ASSUME TypeInv, [SessionsNext]_sessionVars
  PROVE  TypeInv' /\ RowsGrow
<1>1. ASSUME NEW r \in Requests, Handle(r)
      PROVE  TypeInv' /\ RowsGrow
  BY <1>1, LoginType, RefreshType, CallType, RevokeType, IssueType, BlacklistType,
     CloseType, AnswerType, LoseType DEF Handle
<1>2. QED
  BY <1>1, UserType, GrantType, GuardedType, RestartType, StillType DEF SessionsNext

LEMMA InitType ==
  ASSUME SessionsInit
  PROVE  TypeInv
<1>1. Seeded \in User
  BY DEF Seeded, User, Status, Roles
<1>2. users \in [Emails -> User \cup {None}] /\ users[SuperAdmin] # None
  BY <1>1, Names DEF SessionsInit
<1>3. clock = 0 /\ clock \in 0 .. MaxClock
  BY ClockAssumption DEF SessionsInit
<1>4. ClaimsOf(SuperAdmin, 0) \in Claims
  <2>1. users[SuperAdmin] \in User /\ AccessTtl \in Seconds
    BY <1>2, Names, TtlAssumption, ClockAssumption DEF Seconds
  <2>2. QED
    BY <2>1, Names, TtlAssumption DEF ClaimsOf, Claims, User
<1>5. PICK end \in 1 .. RefreshTtl :
        refreshTokens =
          [t \in Tokens |->
              IF t = SuperAdmin
              THEN [user |-> SuperAdmin, expiresAt |-> end, revoked |-> FALSE]
              ELSE None]
  BY DEF SessionsInit
<1>6. /\ refreshTokens \in [Tokens -> RefreshToken \cup {None}]
      /\ refreshTokens[SuperAdmin] # None /\ refreshTokens[SuperAdmin].user = SuperAdmin
      /\ \A t \in Tokens : refreshTokens[t] # None => t = SuperAdmin
  <2>1. end \in Seconds
    BY TtlAssumption, ClockAssumption DEF Seconds
  <2>2. [user |-> SuperAdmin, expiresAt |-> end, revoked |-> FALSE] \in RefreshToken
    BY <2>1, Names DEF RefreshToken
  <2>3. QED
    BY <1>5, <2>2, Names
<1>7. SessionsTypeOK
  BY <1>2, <1>3, <1>4, <1>6, Names DEF SessionsInit, SessionsTypeOK
<1>8. RowsOK
  BY <1>2, <1>6 DEF SessionsInit, RowsOK
<1>9. \A r \in Requests : CallOK(r)
  <2>1. SUFFICES ASSUME NEW r \in Requests
                 PROVE  CallOK(r)
    OBVIOUS
  <2>2. refreshTokens[r] = None /\ accessTokens[r] = None /\ stage[r] = "idle"
    BY <1>6, Names DEF SessionsInit
  <2>3. QED
    BY <2>2 DEF CallOK, Busy
<1>10. QED
  BY <1>7, <1>8, <1>9 DEF TypeInv

\* Type correctness.
THEOREM SessionsTypeCorrect == SessionsSpec => []SessionsTypeOK
<1>1. SessionsInit => TypeInv
  BY InitType
<1>2. TypeInv /\ [SessionsNext]_sessionVars => TypeInv'
  BY TypeStep
<1>3. TypeInv => SessionsTypeOK
  BY DEF TypeInv
<1>4. QED
  BY <1>1, <1>2, <1>3, PTL DEF SessionsSpec

-----------------------------------------------------------------------------
(***************************************************************************)
(* What an answered request has ended.                                     *)
(***************************************************************************)

\* A step moves one request at most, a restart aside.
LEMMA HandleFrame ==
  ASSUME TypeInv, NEW r \in Requests, Handle(r), NEW p \in Requests \ {r}
  PROVE  stage'[p] = stage[p] /\ request'[p] = request[p]
<1>1. stage \in [Requests -> {"idle"} \cup Busy \cup Over]
      /\ request \in [Requests -> Request \cup {None}]
  BY DEF TypeInv, SessionsTypeOK
<1>2. ASSUME NEW op, NEW e, NEW a, NEW t, NEW accepted, NEW s,
             Start(r, op, e, a, t, accepted, s)
      PROVE  stage'[p] = stage[p] /\ request'[p] = request[p]
  BY <1>1, <1>2 DEF Start, Goto
<1>3. CASE \/ \E e \in Emails, correct \in BOOLEAN : Login(r, e, correct)
           \/ \E t \in held \cap Tokens : Refresh(r, t)
           \/ \E a \in held, t \in (held \cap Tokens) \cup {None} : Logout(r, a, t)
           \/ \E a \in held : Call(r, a)
  BY <1>2, <1>3 DEF Login, Refresh, Logout, Call
<1>4. CASE Revoke(r) \/ Issue(r) \/ Blacklist(r) \/ Close(r) \/ Answer(r) \/ Lose(r)
  <2>1. request' = request /\ \E s : stage' = [stage EXCEPT ![r] = s]
    BY <1>4 DEF Revoke, Issue, Blacklist, Close, Answer, Lose, Goto
  <2>2. QED
    BY <1>1, <2>1
<1>5. QED
  BY <1>3, <1>4 DEF Handle

\* Who exchanged a token has revoked it, and so has a logout that owns it.
EndInv(q) ==
    /\ (stage[q] \in {"issue", "answer", "done"} /\ request[q].op = "refresh") =>
           refreshTokens[request[q].refresh].revoked
    /\ (stage[q] \in {"close", "answer", "done"} /\ request[q].op = "logout") =>
           accessTokens[request[q].access] # None
    /\ (/\ stage[q] \in {"answer", "done"} /\ request[q].op = "logout"
        /\ request[q].refresh # None /\ Owned(q)) =>
           refreshTokens[request[q].refresh].revoked

LEMMA EndKept ==
  ASSUME TypeInv, RowsGrow, NEW p \in Requests, EndInv(p),
         stage'[p] = stage[p], request'[p] = request[p]
  PROVE  EndInv(p)'
<1> DEFINE q == request[p]
<1>1. CASE stage[p] \in Busy \cup {"done"}
  <2>1. Needs(p)
    BY <1>1 DEF TypeInv, CallOK
  <2>2. CASE q.op = "refresh"
    <3>1. q.refresh \in Tokens /\ refreshTokens[q.refresh] # None
      BY <2>1, <2>2 DEF Needs, Request
    <3>2. QED
      BY <2>2, <3>1 DEF EndInv, RowsGrow
  <2>3. CASE q.op = "logout"
    <3>1. q.access \in Jtis /\ q.refresh \in Tokens \cup {None}
      BY <2>1, <2>3 DEF Needs, Request
    <3>2. q.refresh # None => q.refresh \in Tokens /\ refreshTokens[q.refresh] # None
      BY <2>1, <3>1 DEF Needs
    <3>3. accessTokens[q.access] # None => accessTokens'[q.access] = accessTokens[q.access]
      BY <3>1 DEF RowsGrow
    <3>4. (accessTokens[q.access] # None /\ q.refresh # None) => (Owned(p)' <=> Owned(p))
      BY <3>2, <3>3 DEF Owned, RowsGrow
    <3>5. q.refresh # None => (refreshTokens[q.refresh].revoked =>
                                   refreshTokens'[q.refresh].revoked)
      BY <3>2 DEF RowsGrow
    <3>6. QED
      BY <2>3, <3>3, <3>4, <3>5, Names DEF EndInv
  <2>4. CASE q.op \notin {"refresh", "logout"}
    BY <2>4 DEF EndInv
  <2>5. QED
    BY <2>2, <2>3, <2>4
<1>2. CASE stage[p] \notin Busy \cup {"done"}
  BY <1>2 DEF EndInv, Busy
<1>3. QED
  BY <1>1, <1>2

LEMMA EndOwn ==
  ASSUME TypeInv, RowsGrow, NEW r \in Requests, Handle(r), EndInv(r)
  PROVE  EndInv(r)'
<1> DEFINE q == request[r]
<1>1. CASE \E e \in Emails, correct \in BOOLEAN : Login(r, e, correct)
  BY <1>1 DEF Login, Start, Goto, EndInv, TypeInv, SessionsTypeOK
<1>2. CASE \E t \in held \cap Tokens : Refresh(r, t)
  BY <1>2 DEF Refresh, Start, Goto, EndInv, TypeInv, SessionsTypeOK
<1>3. CASE \E a \in held, t \in (held \cap Tokens) \cup {None} : Logout(r, a, t)
  BY <1>3 DEF Logout, Start, Goto, EndInv, TypeInv, SessionsTypeOK
<1>4. CASE \E a \in held : Call(r, a)
  BY <1>4 DEF Call, Start, Goto, EndInv, TypeInv, SessionsTypeOK
<1>5. CASE Revoke(r)
  <2>1. Needs(r) /\ q.op = "refresh"
    BY <1>5 DEF Revoke, TypeInv, CallOK, Busy
  <2>2. q.refresh \in Tokens /\ refreshTokens[q.refresh] # None
    BY <2>1 DEF Needs, Request
  <2>3. refreshTokens'[q.refresh].revoked /\ request' = request
    BY <1>5, <2>2, RevokeStep DEF Revoke
  <2>4. QED
    BY <2>1, <2>3 DEF EndInv
<1>6. CASE Issue(r)
  <2>1. /\ stage[r] = "issue" /\ stage'[r] = "answer" /\ request' = request
        /\ q.op \in {"login", "refresh"} /\ Needs(r)
    BY <1>6 DEF Issue, Goto, TypeInv, SessionsTypeOK, CallOK, Busy
  <2>2. CASE q.op = "refresh"
    <3>1. q.refresh \in Tokens /\ refreshTokens[q.refresh] # None
      BY <2>1, <2>2 DEF Needs, Request
    <3>2. QED
      BY <2>1, <2>2, <3>1 DEF EndInv, RowsGrow
  <2>3. CASE q.op = "login"
    BY <2>1, <2>3 DEF EndInv
  <2>4. QED
    BY <2>1, <2>2, <2>3
<1>7. CASE Blacklist(r)
  <2>1. stage[r] = "blacklist" /\ request' = request /\ accessTokens' = accessTokens
    BY <1>7 DEF Blacklist
  <2>2. q.op = "logout"
    BY <2>1 DEF TypeInv, CallOK
  <2>3. CASE Verified(q.access, clock)
    <3>1. stage'[r] = IF q.refresh = None THEN "answer" ELSE "close"
      BY <1>7, <2>3 DEF Blacklist, Goto, TypeInv, SessionsTypeOK
    <3>2. QED
      BY <2>1, <2>2, <2>3, <3>1 DEF Verified, EndInv
  <2>4. CASE ~Verified(q.access, clock)
    <3>1. stage'[r] = "refused"
      BY <1>7, <2>4 DEF Blacklist, Goto, TypeInv, SessionsTypeOK
    <3>2. QED
      BY <3>1 DEF EndInv
  <2>5. QED
    BY <2>3, <2>4
<1>8. CASE Close(r)
  <2>1. /\ stage[r] = "close" /\ stage'[r] = "answer" /\ q.op = "logout" /\ Needs(r)
        /\ request' = request /\ q.refresh # None /\ UNCHANGED <<users, accessTokens>>
    BY <1>8 DEF Close, Goto, TypeInv, SessionsTypeOK, CallOK, Busy
  <2>2. q.refresh \in Tokens /\ refreshTokens[q.refresh] # None /\ q.access \in Jtis
    BY <2>1 DEF Needs, Request
  <2>3. accessTokens[q.access] # None
    BY <2>1 DEF EndInv
  <2>4. Owned(r)' <=> Owned(r)
    BY <2>1, <2>2, <2>3 DEF Owned, RowsGrow
  <2>5. Owned(r) => refreshTokens'[q.refresh].revoked
    BY <1>8, <2>1, <2>2, RevokeStep DEF Close
  <2>6. QED
    BY <2>1, <2>3, <2>4, <2>5 DEF EndInv
<1>9. CASE Answer(r)
  BY <1>9 DEF Answer, Goto, EndInv, Owned, tables, TypeInv, SessionsTypeOK
<1>10. CASE Lose(r)
  BY <1>10 DEF Lose, Goto, EndInv, TypeInv, SessionsTypeOK
<1>11. QED
  BY <1>1, <1>2, <1>3, <1>4, <1>5, <1>6, <1>7, <1>8, <1>9, <1>10 DEF Handle

LEMMA EndStep ==
  ASSUME TypeInv, [SessionsNext]_sessionVars, \A q \in Requests : EndInv(q)
  PROVE  \A q \in Requests : EndInv(q)'
<1>1. RowsGrow
  BY TypeStep
<1>2. CASE \E r \in Requests : Handle(r)
  <2>1. PICK r \in Requests : Handle(r)
    BY <1>2
  <2>2. EndInv(r)'
    BY <1>1, <2>1, EndOwn
  <2>3. \A p \in Requests \ {r} : EndInv(p)'
    BY <1>1, <2>1, HandleFrame, EndKept
  <2>4. QED
    BY <2>2, <2>3
<1>3. CASE Restart
  <2>1. ASSUME NEW p \in Requests
        PROVE  EndInv(p)'
    <3>1. stage'[p] = IF stage[p] \in Busy THEN "lost" ELSE stage[p]
      BY <1>3 DEF Restart
    <3>2. request' = request
      BY <1>3 DEF Restart
    <3>3. CASE stage[p] \in Busy
      BY <3>1, <3>3 DEF EndInv
    <3>4. CASE stage[p] \notin Busy
      BY <1>1, <3>1, <3>2, <3>4, EndKept
    <3>5. QED
      BY <3>3, <3>4
  <2>2. QED
    BY <2>1
<1>4. CASE UNCHANGED progress
  BY <1>1, <1>4, EndKept DEF progress
<1>5. QED
  BY <1>2, <1>3, <1>4
     DEF SessionsNext, sessionVars, Suspend, Enrol, Sign, HandOut, Guarded, Tick

\* What a request that goes on to revoke asks for was not revoked.
LEMMA StartsUnspent ==
  ASSUME TypeInv, \A q \in Requests : EndInv(q), [SessionsNext]_sessionVars,
         NEW r \in Requests, stage[r] = "idle", stage'[r] = "revoke"
  PROVE  ~Spent(request'[r].refresh)
<1>1. PICK p \in Requests : Handle(p)
  BY DEF SessionsNext, sessionVars, Suspend, Enrol, Sign, HandOut, Guarded, Restart, Tick,
         progress, Busy
<1>2. p = r
  BY <1>1, HandleFrame
<1>3. PICK t \in held \cap Tokens : Refresh(r, t)
  <2>1. ASSUME NEW op, NEW e, NEW a, NEW t, NEW accepted, NEW s, s # "revoke",
               Start(r, op, e, a, t, accepted, s)
        PROVE  FALSE
    BY <2>1 DEF Start, Goto, TypeInv, SessionsTypeOK
  <2>2. ~(\E e \in Emails, correct \in BOOLEAN : Login(r, e, correct))
    BY <2>1 DEF Login
  <2>3. ~(\E a \in held, t \in (held \cap Tokens) \cup {None} : Logout(r, a, t))
    BY <2>1 DEF Logout
  <2>4. ~(\E a \in held : Call(r, a))
    BY <2>1 DEF Call
  <2>5. ~(Revoke(r) \/ Issue(r) \/ Blacklist(r) \/ Close(r) \/ Answer(r) \/ Lose(r))
    BY DEF Revoke, Issue, Blacklist, Close, Answer, Lose, Busy
  <2>6. QED
    BY <1>1, <1>2, <2>2, <2>3, <2>4, <2>5 DEF Handle
<1>4. Refreshable(t)
  BY <1>3 DEF Refresh, Start, Goto, TypeInv, SessionsTypeOK
<1>5. request'[r].refresh = t
  BY <1>3, <1>4 DEF Refresh, Start, TypeInv, SessionsTypeOK
<1>6. ASSUME NEW q \in Requests, stage[q] = "done", request[q].op \in {"refresh", "logout"},
             request[q].refresh = t, request[q].op = "logout" => Owned(q)
      PROVE  FALSE
  <2>1. refreshTokens[t].revoked
    BY <1>6, Names DEF EndInv
  <2>2. QED
    BY <1>4, <2>1 DEF Refreshable
<1>7. QED
  BY <1>5, <1>6 DEF Spent

\* A token that an answered request ended is exchanged no more.
THEOREM SessionsSpentIsRefused == SessionsSpec => SpentIsRefused
<1> DEFINE Ended == \A q \in Requests : EndInv(q)
           Unspent == \A r \in Requests :
                (/\ stage[r] = "idle"
                 /\ stage'[r] = "revoke") => ~Spent(request'[r].refresh)
<1>1. SessionsInit => TypeInv /\ Ended
  BY InitType DEF SessionsInit, EndInv
<1>2. (TypeInv /\ Ended) /\ [SessionsNext]_sessionVars => (TypeInv /\ Ended)'
  BY TypeStep, EndStep
<1>3. (TypeInv /\ Ended) /\ [SessionsNext]_sessionVars => [Unspent]_sessionVars
  BY StartsUnspent
<1>4. QED
  BY <1>1, <1>2, <1>3, PTL DEF SessionsSpec, SpentIsRefused

-----------------------------------------------------------------------------
(***************************************************************************)
(* What the list of the process keeps out.                                 *)
(***************************************************************************)

\* An access token that was signed, and is on the list or has expired.
Dead(a) ==
    /\ accessTokens[a] # None
    /\ blacklist[a] = accessTokens[a].exp \/ accessTokens[a].exp <= clock

ListInv ==
    /\ \A a \in dismissed : Dead(a)
    /\ \A q \in Requests :
          (stage[q] \in {"close", "answer"} /\ request[q].op = "logout") =>
              Dead(request[q].access)

\* The list forgets a token once it has expired, and not before.
LEMMA DeadKept ==
  ASSUME TypeInv, RowsGrow, NEW a \in Jtis, Dead(a),
         \/ blacklist' = blacklist /\ clock <= clock' /\ clock' \in Nat
         \/ \E b \in Jtis, admitted \in BOOLEAN : Guard(b, admitted)
         \/ \E r \in Requests : Blacklist(r)
  PROVE  Dead(a)'
<1>1. accessTokens'[a] = accessTokens[a] /\ accessTokens[a] \in Claims
  BY DEF RowsGrow, Dead, TypeInv, SessionsTypeOK
<1>2. accessTokens[a].exp \in Nat /\ clock \in Nat /\ accessTokens[a].exp # None
  BY <1>1, ClockAssumption, TtlAssumption, Names DEF Claims, Seconds, TypeInv, SessionsTypeOK
<1>3. CASE blacklist' = blacklist /\ clock <= clock' /\ clock' \in Nat
  BY <1>1, <1>2, <1>3 DEF Dead
<1>4. CASE \E b \in Jtis, admitted \in BOOLEAN : Guard(b, admitted)
  <2>1. PICK b \in Jtis, later \in {clock, clock + 1} :
          /\ clock' = later
          /\ blacklist' = IF Verified(b, clock) THEN Pruned(b, later) ELSE blacklist
    BY <1>4 DEF Guard
  <2>2. CASE blacklist'[a] = blacklist[a]
    BY <1>1, <1>2, <2>1, <2>2 DEF Dead
  <2>3. CASE blacklist'[a] # blacklist[a]
    <3>1. a = b /\ ~Blacklisted(a, later) /\ blacklist[a] # None
      BY <2>1, <2>3 DEF Pruned, TypeInv, SessionsTypeOK
    <3>2. ~(blacklist[a] > later)
      BY <3>1 DEF Blacklisted
    <3>3. accessTokens[a].exp <= later
      BY <1>2, <2>1, <3>2 DEF Dead
    <3>4. QED
      BY <1>1, <2>1, <3>3 DEF Dead
  <2>4. QED
    BY <2>2, <2>3
<1>5. CASE \E r \in Requests : Blacklist(r)
  <2>1. PICK r \in Requests : Blacklist(r)
    BY <1>5
  <2>2. clock' = clock
    BY <2>1 DEF Blacklist
  <2>3. \/ blacklist'[a] = blacklist[a]
        \/ blacklist'[a] = accessTokens[a].exp
    BY <2>1 DEF Blacklist, ListedUntil, TypeInv, SessionsTypeOK
  <2>4. QED
    BY <1>1, <2>2, <2>3 DEF Dead
<1>6. QED
  BY <1>3, <1>4, <1>5

\* What a step does to the clock and the list, a restart aside.
LEMMA MemoryStep ==
  ASSUME TypeInv, [SessionsNext]_sessionVars, ~Restart
  PROVE  \/ blacklist' = blacklist /\ clock <= clock' /\ clock' \in Nat
         \/ \E b \in Jtis, admitted \in BOOLEAN : Guard(b, admitted)
         \/ \E r \in Requests : Blacklist(r)
<1>1. clock \in Nat /\ held \subseteq Jtis
  BY ClockAssumption DEF TypeInv, SessionsTypeOK
<1>2. CASE \E r \in Requests : Handle(r)
  BY <1>1, <1>2 DEF Handle, Login, Refresh, Logout, Call, Revoke, Issue, Close, Answer, Lose,
                    memory
<1>3. CASE Guarded
  BY <1>1, <1>3 DEF Guarded
<1>4. CASE \/ Tick \/ UNCHANGED sessionVars
           \/ \E e \in Emails : Suspend(e) \/ Enrol(e)
           \/ \E j \in Grants : Sign(j) \/ HandOut(j)
  BY <1>1, <1>4 DEF Tick, sessionVars, memory, Suspend, Enrol, Sign, HandOut
<1>5. QED
  BY <1>2, <1>3, <1>4 DEF SessionsNext

LEMMA ListStep ==
  ASSUME TypeInv, [SessionsNext]_sessionVars, \A q \in Requests : EndInv(q), ListInv
  PROVE  ListInv'
<1>1. RowsGrow
  BY TypeStep
<1>2. CASE Restart
  BY <1>2 DEF Restart, ListInv, Busy
<1>3. CASE ~Restart
  <2>1. \A a \in Jtis : Dead(a) => Dead(a)'
    BY <1>1, <1>3, MemoryStep, DeadKept
  <2>2. ASSUME NEW q \in Requests, stage'[q] \in {"close", "answer"}, request'[q].op = "logout"
        PROVE  Dead(request[q].access)'
    <3>1. CASE stage'[q] = stage[q] /\ request'[q] = request[q]
      <4>1. Needs(q)
        BY <2>2, <3>1 DEF TypeInv, CallOK, Busy
      <4>2. request[q].access \in Jtis
        BY <2>2, <3>1, <4>1 DEF Needs, Request
      <4>3. Dead(request[q].access)
        BY <2>2, <3>1 DEF ListInv
      <4>4. QED
        BY <2>1, <3>1, <4>2, <4>3 DEF Dead
    <3>2. CASE ~(stage'[q] = stage[q] /\ request'[q] = request[q])
      <4>1. PICK r \in Requests : Handle(r)
        BY <1>3, <3>2 DEF SessionsNext, sessionVars, Suspend, Enrol, Sign, HandOut, Guarded,
                          Tick, progress
      <4>2. r = q
        BY <3>2, <4>1, HandleFrame
      <4>3. Blacklist(q) \/ Close(q) \/ Issue(q)
        <5>1. ASSUME NEW op, NEW e, NEW a, NEW t, NEW accepted, NEW s,
                     s \notin {"close", "answer"}, Start(q, op, e, a, t, accepted, s)
              PROVE  FALSE
          BY <2>2, <5>1 DEF Start, Goto, TypeInv, SessionsTypeOK
        <5>2. ~(\E e \in Emails, correct \in BOOLEAN : Login(q, e, correct))
          BY <5>1 DEF Login
        <5>3. ~(\E t \in held \cap Tokens : Refresh(q, t))
          BY <5>1 DEF Refresh
        <5>4. ~(\E a \in held, t \in (held \cap Tokens) \cup {None} : Logout(q, a, t))
          BY <5>1 DEF Logout
        <5>5. ~(\E a \in held : Call(q, a))
          BY <5>1 DEF Call
        <5>6. ~(Revoke(q) \/ Answer(q) \/ Lose(q))
          BY <2>2 DEF Revoke, Answer, Lose, Goto, TypeInv, SessionsTypeOK
        <5>7. QED
          BY <4>1, <4>2, <5>2, <5>3, <5>4, <5>5, <5>6 DEF Handle
      <4>4. CASE Blacklist(q)
        <5>1. /\ stage[q] = "blacklist" /\ request' = request
              /\ accessTokens' = accessTokens
          BY <4>4 DEF Blacklist
        <5>2. Needs(q) /\ request[q].op = "logout"
          BY <5>1 DEF TypeInv, CallOK, Busy
        <5>3. request[q].access \in Jtis
          BY <5>2 DEF Needs, Request
        <5>4. Verified(request[q].access, clock)
          BY <2>2, <4>4 DEF Blacklist, Goto, TypeInv, SessionsTypeOK
        <5>5. blacklist'[request[q].access] = accessTokens[request[q].access].exp
          BY <4>4, <5>3, <5>4 DEF Blacklist, ListedUntil, TypeInv, SessionsTypeOK
        <5>6. QED
          BY <5>1, <5>4, <5>5 DEF Verified, Dead
      <4>5. CASE Close(q)
        <5>1. stage[q] = "close" /\ request' = request
          BY <4>5 DEF Close
        <5>2. Needs(q) /\ request[q].op = "logout"
          BY <5>1 DEF TypeInv, CallOK, Busy
        <5>3. request[q].access \in Jtis
          BY <5>2 DEF Needs, Request
        <5>4. Dead(request[q].access)
          BY <5>1, <5>2 DEF ListInv
        <5>5. QED
          BY <2>1, <5>1, <5>3, <5>4 DEF Dead
      <4>6. CASE Issue(q)
        <5>1. request' = request /\ request[q].op \in {"login", "refresh"}
          BY <4>6 DEF Issue, TypeInv, CallOK
        <5>2. QED
          BY <2>2, <5>1
      <4>7. QED
        BY <4>3, <4>4, <4>5, <4>6
    <3>3. QED
      BY <3>1, <3>2
  <2>3. ASSUME NEW a \in dismissed'
        PROVE  Dead(a)'
    <3>1. CASE a \in dismissed
      BY <2>1, <3>1 DEF ListInv, TypeInv, SessionsTypeOK
    <3>2. CASE a \notin dismissed
      <4>1. PICK r \in Requests : Answer(r) /\ request[r].op = "logout" /\ a = request[r].access
        BY <1>3, <2>3, <3>2
           DEF SessionsNext, sessionVars, Suspend, Enrol, Sign, HandOut, Guarded, Tick, memory,
               Handle, Login, Refresh, Logout, Call, Revoke, Issue, Blacklist, Close, Lose, Answer
      <4>2. stage[r] = "answer"
        BY <4>1 DEF Answer
      <4>3. Needs(r)
        BY <4>2 DEF TypeInv, CallOK, Busy
      <4>4. a \in Jtis
        BY <4>1, <4>3 DEF Needs, Request
      <4>5. QED
        BY <2>1, <4>1, <4>2, <4>4 DEF ListInv
    <3>3. QED
      BY <3>1, <3>2
  <2>4. QED
    BY <2>2, <2>3 DEF ListInv
<1>4. QED
  BY <1>2, <1>3

\* What the guard lets pass with a token that was logged out.
LEMMA AdmittedIsExpiring ==
  ASSUME TypeInv, ListInv, [SessionsNext]_sessionVars, NEW r \in Requests,
         stage[r] = "idle", stage'[r] \in {"done", "blacklist"},
         request'[r].access \in dismissed
  PROVE  accessTokens[request'[r].access].exp <= clock'
<1>1. PICK p \in Requests : Handle(p)
  BY DEF SessionsNext, sessionVars, Suspend, Enrol, Sign, HandOut, Guarded, Restart, Tick,
         progress, Busy
<1>2. p = r
  BY <1>1, HandleFrame
<1>3. PICK op \in {"call", "logout"}, a \in held, t \in (held \cap Tokens) \cup {None},
           admitted \in BOOLEAN :
        /\ Start(r, op, None, a, t, admitted, IF op = "call" THEN "done" ELSE "blacklist")
        /\ Guard(a, admitted)
  <2>1. ASSUME NEW op, NEW e, NEW a, NEW t, NEW accepted, NEW s,
               s \notin {"done", "blacklist"}, Start(r, op, e, a, t, accepted, s)
        PROVE  FALSE
    BY <2>1 DEF Start, Goto, TypeInv, SessionsTypeOK
  <2>2. ~(\E e \in Emails, correct \in BOOLEAN : Login(r, e, correct))
    BY <2>1 DEF Login
  <2>3. ~(\E t \in held \cap Tokens : Refresh(r, t))
    BY <2>1 DEF Refresh
  <2>4. ~(Revoke(r) \/ Issue(r) \/ Blacklist(r) \/ Close(r) \/ Answer(r) \/ Lose(r))
    BY DEF Revoke, Issue, Blacklist, Close, Answer, Lose, Busy
  <2>5. CASE \E a \in held, t \in (held \cap Tokens) \cup {None} : Logout(r, a, t)
    BY <2>5 DEF Logout
  <2>6. CASE \E a \in held : Call(r, a)
    BY <2>6 DEF Call
  <2>7. QED
    BY <1>1, <1>2, <2>2, <2>3, <2>4, <2>5, <2>6 DEF Handle
<1>4. admitted = TRUE
  BY <1>3 DEF Start, Goto, TypeInv, SessionsTypeOK
<1>5. request'[r].access = a
  BY <1>3, <1>4 DEF Start, TypeInv, SessionsTypeOK
<1>6. Verified(a, clock) /\ ~Blacklisted(a, clock')
  BY <1>3, <1>4 DEF Guard
<1>7. Dead(a)
  BY <1>5 DEF ListInv
<1>8. accessTokens[a] \in Claims /\ a \in Jtis
  BY <1>7 DEF Dead, TypeInv, SessionsTypeOK
<1>9. accessTokens[a].exp \in Nat /\ clock \in Nat /\ clock' \in Nat /\ accessTokens[a].exp # None
  BY <1>3, <1>8, GuardType, ClockAssumption, TtlAssumption, Names
     DEF Claims, Seconds, TypeInv, SessionsTypeOK
<1>10. blacklist[a] = accessTokens[a].exp
  BY <1>6, <1>7, <1>9 DEF Verified, Dead
<1>11. QED
  BY <1>5, <1>6, <1>9, <1>10 DEF Blacklisted

\* After a logout its access token opens nothing, the second it expires aside.
THEOREM SessionsLoggedOutIsRefused == SessionsSpec => LoggedOutIsRefused
<1> DEFINE Ended == \A q \in Requests : EndInv(q)
           Out == \A r \in Requests :
                    (/\ stage[r] = "idle"
                     /\ stage'[r] \in {"done", "blacklist"}
                     /\ request'[r].access \in dismissed) =>
                        accessTokens[request'[r].access].exp <= clock'
<1>1. SessionsInit => TypeInv /\ Ended /\ ListInv
  BY InitType DEF SessionsInit, EndInv, ListInv
<1>2. (TypeInv /\ Ended /\ ListInv) /\ [SessionsNext]_sessionVars
      => (TypeInv /\ Ended /\ ListInv)'
  BY TypeStep, EndStep, ListStep
<1>3. (TypeInv /\ Ended /\ ListInv) /\ [SessionsNext]_sessionVars => [Out]_sessionVars
  BY AdmittedIsExpiring
<1>4. QED
  BY <1>1, <1>2, <1>3, PTL DEF SessionsSpec, LoggedOutIsRefused

-----------------------------------------------------------------------------
(***************************************************************************)
(* Whose the tokens are, and who is kept out for good.                     *)
(***************************************************************************)

\* Only issue signs the access token of a session.
LEMMA SessionSigned ==
  ASSUME TypeInv, [SessionsNext]_sessionVars, NEW j \in Tokens, accessTokens'[j] # accessTokens[j]
  PROVE  /\ j \in Requests /\ Issue(j)
         /\ accessTokens'[j] = ClaimsOf(Subject(j), clock)
<1>1. accessTokens \in [Jtis -> Claims \cup {None}] /\ j \in Jtis /\ j \notin Grants
  BY Names, NamesAssumption DEF TypeInv, SessionsTypeOK
<1>2. PICK r \in Requests : Issue(r)
  <2>1. accessTokens' # accessTokens
    BY <1>1
  <2>2. ~(\E g \in Grants : Sign(g) \/ HandOut(g))
    BY <1>1 DEF Sign, HandOut
  <2>3. PICK r \in Requests : Handle(r)
    BY <2>1, <2>2 DEF SessionsNext, sessionVars, Suspend, Enrol, Guarded, Restart, Tick
  <2>4. QED
    BY <2>1, <2>3 DEF Handle, Login, Refresh, Logout, Call, Revoke, Blacklist, Close, Answer, Lose
<1>3. accessTokens' = [accessTokens EXCEPT ![r] = ClaimsOf(Subject(r), clock)]
  BY <1>2 DEF Issue
<1>4. j = r
  BY <1>1, <1>3
<1>5. QED
  BY <1>1, <1>2, <1>3, <1>4

\* A user keeps the role, and does not become active again.
LEMMA UserKept ==
  ASSUME TypeInv, [SessionsNext]_sessionVars, NEW e \in Emails, users[e] # None
  PROVE  /\ users'[e] # None
         /\ users'[e].company = users[e].company
         /\ users'[e].role = users[e].role
         /\ Active(e)' => Active(e)
<1>1. users \in [Emails -> User \cup {None}] /\ users[e] \in User /\ None \notin User
  BY Names DEF TypeInv, SessionsTypeOK
<1>2. CASE users' = users
  BY <1>2 DEF Active
<1>3. CASE \E x \in Emails : Suspend(x)
  <2>1. PICK x \in Emails : Suspend(x)
    BY <1>3
  <2>2. users' = [users EXCEPT ![x] = [users[x] EXCEPT !.status = "SUSPENDED"]]
    BY <2>1 DEF Suspend
  <2>3. CASE x = e
    <3>1. users'[e] = [users[e] EXCEPT !.status = "SUSPENDED"]
      BY <1>1, <2>2, <2>3
    <3>2. [users[e] EXCEPT !.status = "SUSPENDED"] \in User
      BY <1>1, SuspendedRow
    <3>3. users'[e].company = users[e].company /\ users'[e].role = users[e].role
      BY <1>1, <3>1, SuspendedRow
    <3>4. users'[e].status = "SUSPENDED"
      BY <1>1, <3>1 DEF User
    <3>5. QED
      BY <1>1, <3>1, <3>2, <3>3, <3>4 DEF Active
  <2>4. CASE x # e
    BY <1>1, <2>2, <2>4 DEF Active
  <2>5. QED
    BY <2>3, <2>4
<1>4. CASE \E x \in Emails : Enrol(x)
  BY <1>1, <1>4 DEF Enrol, Active
<1>5. users' = users \/ \E x \in Emails : Suspend(x) \/ Enrol(x)
  BY DEF SessionsNext, sessionVars, tables, Sign, HandOut, Guarded, Restart, Tick, Handle, Login,
         Refresh, Logout, Call, Revoke, Issue, Blacklist, Close, Answer, Lose
<1>6. QED
  BY <1>2, <1>3, <1>4, <1>5

\* The tokens of a session are those of one user, the access token with the
\* company and the role that the row of the user has, and it ends within
\* AccessTtl: that is also as long as a token can be accepted whose logout the
\* process forgot when it died (lines 20-52, token-blacklist.service.ts 7).
SessionsAreTheirUsers ==
    \A j \in Tokens : accessTokens[j] # None =>
        LET c == accessTokens[j]
        IN  /\ c.user \in Emails /\ users[c.user] # None
            /\ c.company = users[c.user].company
            /\ c.role = users[c.user].role
            /\ refreshTokens[j] # None /\ refreshTokens[j].user = c.user
            /\ c.exp <= clock + AccessTtl

\* The clock never goes back.
LEMMA ClockGoesOn ==
  ASSUME TypeInv, [SessionsNext]_sessionVars
  PROVE  clock \in Int /\ clock' \in Int /\ clock <= clock'
<1>1. clock \in 0 .. MaxClock /\ clock \in Int
  BY ClockAssumption DEF TypeInv, SessionsTypeOK
<1>2. ASSUME NEW a \in Jtis, NEW admitted, Guard(a, admitted)
      PROVE  clock' \in Int /\ clock <= clock'
  BY <1>1, <1>2 DEF Guard
<1>3. held \subseteq Jtis
  BY DEF TypeInv, SessionsTypeOK
<1>4. CASE clock' = clock \/ Tick
  BY <1>1, <1>4 DEF Tick
<1>5. CASE Guarded \/ \E r \in Requests, a \in held :
                         Call(r, a) \/ \E t \in (held \cap Tokens) \cup {None} : Logout(r, a, t)
  BY <1>1, <1>2, <1>3, <1>5 DEF Guarded, Call, Logout
<1>6. \/ clock' = clock \/ Tick \/ Guarded
      \/ \E r \in Requests, a \in held :
            Call(r, a) \/ \E t \in (held \cap Tokens) \cup {None} : Logout(r, a, t)
  BY DEF SessionsNext, sessionVars, memory, Suspend, Enrol, Sign, HandOut, Restart, Handle, Login,
         Refresh, Revoke, Issue, Blacklist, Close, Answer, Lose
<1>7. QED
  BY <1>1, <1>4, <1>5, <1>6

\* A bound that moves with the clock.
LEMMA LaterBound ==
  ASSUME NEW now \in Int, NEW later \in Int, NEW ttl \in Int, now <= later
  PROVE  /\ now + ttl <= later + ttl
         /\ \A x \in Int : x <= now + ttl => x <= later + ttl
  OBVIOUS

LEMMA TheirUsersStep ==
  ASSUME TypeInv, SessionsAreTheirUsers, [SessionsNext]_sessionVars
  PROVE  SessionsAreTheirUsers'
<1>1. TypeInv' /\ RowsGrow
  BY TypeStep
<1>2. /\ clock + AccessTtl <= clock' + AccessTtl
      /\ \A x \in Int : x <= clock + AccessTtl => x <= clock' + AccessTtl
  <2>1. AccessTtl \in Int
    BY TtlAssumption
  <2>2. QED
    BY <2>1, ClockGoesOn, LaterBound
<1> DEFINE Theirs(j) ==
              /\ accessTokens[j].user \in Emails /\ users[accessTokens[j].user] # None
              /\ accessTokens[j].company = users[accessTokens[j].user].company
              /\ accessTokens[j].role = users[accessTokens[j].user].role
              /\ refreshTokens[j] # None /\ refreshTokens[j].user = accessTokens[j].user
              /\ accessTokens[j].exp <= clock + AccessTtl
<1>3. ASSUME NEW j \in Tokens, accessTokens'[j] # None
      PROVE  Theirs(j)'
  <2>1. CASE accessTokens'[j] = accessTokens[j]
    <3>1. Theirs(j) /\ j \in Jtis /\ accessTokens[j].user \in Emails
      BY <1>3, <2>1, Names DEF SessionsAreTheirUsers
    <3>2. /\ users'[accessTokens[j].user] # None
          /\ users'[accessTokens[j].user].company = users[accessTokens[j].user].company
          /\ users'[accessTokens[j].user].role = users[accessTokens[j].user].role
      BY <3>1, UserKept
    <3>3. refreshTokens'[j] # None /\ refreshTokens'[j].user = refreshTokens[j].user
      BY <1>1, <3>1 DEF RowsGrow
    <3>4. accessTokens[j].exp \in Int
      <4>1. accessTokens[j] \in Claims
        BY <1>3, <2>1, <3>1 DEF TypeInv, SessionsTypeOK
      <4>2. QED
        BY <4>1, TtlAssumption, ClockAssumption DEF Claims, Seconds
    <3>5. accessTokens[j].exp <= clock' + AccessTtl
      BY <1>2, <3>1, <3>4
    <3>6. QED
      BY <2>1, <3>1, <3>2, <3>3, <3>5
  <2>2. CASE accessTokens'[j] # accessTokens[j]
    <3>1. j \in Requests /\ Issue(j) /\ accessTokens'[j] = ClaimsOf(Subject(j), clock)
      BY <2>2, SessionSigned
    <3>2. Subject(j) \in Emails /\ users[Subject(j)] # None
      BY <3>1, SubjectIsUser DEF Issue
    <3>3. /\ users' = users
          /\ refreshTokens' = [refreshTokens EXCEPT ![j] =
                [user |-> Subject(j), expiresAt |-> clock + RefreshTtl, revoked |-> FALSE]]
      BY <3>1 DEF Issue
    <3>4. refreshTokens'[j].user = Subject(j) /\ refreshTokens'[j] # None
      <4>1. refreshTokens'[j] =
                [user |-> Subject(j), expiresAt |-> clock + RefreshTtl, revoked |-> FALSE]
        BY <3>3 DEF TypeInv, SessionsTypeOK
      <4>2. refreshTokens'[j] # None
        BY <1>1, <3>1, IssueStep
      <4>3. QED
        BY <4>1, <4>2
    <3>5. /\ accessTokens'[j].user = Subject(j)
          /\ accessTokens'[j].company = users[Subject(j)].company
          /\ accessTokens'[j].role = users[Subject(j)].role
          /\ accessTokens'[j].exp = clock + AccessTtl
      BY <3>1 DEF ClaimsOf
    <3>6. accessTokens'[j].exp <= clock' + AccessTtl
      BY <3>5, <1>2
    <3>7. QED
      BY <3>2, <3>3, <3>4, <3>5, <3>6
  <2>3. QED
    BY <2>1, <2>2
<1>4. QED
  BY <1>3 DEF SessionsAreTheirUsers

LEMMA TheirUsersInit ==
  ASSUME SessionsInit
  PROVE  SessionsAreTheirUsers
<1>1. TypeInv
  BY InitType
<1>2. \A j \in Tokens : accessTokens[j] # None => j = SuperAdmin
  BY Names DEF SessionsInit
<1>3. accessTokens[SuperAdmin] = ClaimsOf(SuperAdmin, 0) /\ SuperAdmin \in Tokens /\ clock = 0
  BY Names DEF SessionsInit
<1>4. users[SuperAdmin] # None /\ refreshTokens[SuperAdmin] # None
  BY <1>1, <1>3, Names DEF SessionsInit, TypeInv, RowsOK
<1>5. refreshTokens[SuperAdmin].user = SuperAdmin
  BY <1>3 DEF SessionsInit
<1>6. 0 + AccessTtl <= clock + AccessTtl
  BY <1>3, TtlAssumption
<1>7. QED
  BY <1>2, <1>3, <1>4, <1>5, <1>6, Names DEF SessionsAreTheirUsers, ClaimsOf

\* Whatever clients, other services and restarts do.
THEOREM SessionsTheirUsers == SessionsSpec => []SessionsAreTheirUsers
<1>1. SessionsInit => TypeInv /\ SessionsAreTheirUsers
  BY InitType, TheirUsersInit
<1>2. (TypeInv /\ SessionsAreTheirUsers) /\ [SessionsNext]_sessionVars
          => (TypeInv /\ SessionsAreTheirUsers)'
  BY TypeStep, TheirUsersStep
<1>3. QED
  BY <1>1, <1>2, PTL DEF SessionsSpec

\* A request that was let in before and will still sign a pair for user e.
Pending(r, e) == stage[r] \in {"revoke", "issue"} /\ Subject(r) = e

LockedOut(e) ==
    /\ users[e] # None /\ ~Active(e)
    /\ \A r \in Requests : ~Pending(r, e)

\* A user who is suspended, once the logins and refreshes that were let in
\* before are over, gets no new pair any more, by no refresh token and by no
\* password (lines 53-82).
LockedOutForGood ==
    [][\A e \in Emails : LockedOut(e) =>
          /\ LockedOut(e)'
          /\ \A j \in Tokens : accessTokens'[j] # accessTokens[j] =>
                                   accessTokens'[j].user # e]_sessionVars

\* What is still pending after a step was pending before, or has just found the
\* user active.
LEMMA PendingStep ==
  ASSUME TypeInv, RowsGrow, [SessionsNext]_sessionVars, NEW p \in Requests, NEW e \in Emails,
         Pending(p, e)'
  PROVE  Pending(p, e) \/ Active(e)
<1>1. CASE stage'[p] = stage[p] /\ request'[p] = request[p]
  <2>1. stage[p] \in {"revoke", "issue"} /\ Needs(p) /\ request[p].op \in {"login", "refresh"}
    BY <1>1 DEF Pending, TypeInv, CallOK, Busy
  <2>2. request[p].op = "refresh" => /\ request[p].refresh \in Tokens
                                     /\ refreshTokens[request[p].refresh] # None
    BY <2>1 DEF Needs, Request
  <2>3. Subject(p)' = Subject(p)
    BY <1>1, <2>1, <2>2 DEF Subject, RowsGrow
  <2>4. QED
    BY <1>1, <2>1, <2>3 DEF Pending
<1>2. CASE ~(stage'[p] = stage[p] /\ request'[p] = request[p])
  <2>1. ~Restart
    BY <1>2 DEF Restart, Pending, Busy
  <2>2. PICK r \in Requests : Handle(r)
    BY <1>2, <2>1 DEF SessionsNext, sessionVars, Suspend, Enrol, Sign, HandOut, Guarded, Tick,
                      progress
  <2>3. r = p
    BY <1>2, <2>2, HandleFrame
  <2>4. stage \in [Requests -> {"idle"} \cup Busy \cup Over]
        /\ request \in [Requests -> Request \cup {None}]
    BY DEF TypeInv, SessionsTypeOK
  <2>6. CASE \E x \in Emails, correct \in BOOLEAN : Login(p, x, correct)
    <3>1. PICK x \in Emails, correct \in BOOLEAN : Login(p, x, correct)
      BY <2>6
    <3>2. Active(x) /\ request'[p] = [op |-> "login", user |-> x, access |-> None, refresh |-> None]
      BY <2>4, <3>1 DEF Login, Start, Goto, Pending
    <3>3. Subject(p)' = x
      BY <3>2 DEF Subject
    <3>4. QED
      BY <3>2, <3>3 DEF Pending
  <2>7. CASE \E t \in held \cap Tokens : Refresh(p, t)
    <3>1. PICK t \in held \cap Tokens : Refresh(p, t)
      BY <2>7
    <3>2. /\ Refreshable(t)
          /\ request'[p] = [op |-> "refresh", user |-> None, access |-> None, refresh |-> t]
          /\ refreshTokens' = refreshTokens
      BY <2>4, <3>1 DEF Refresh, Start, Goto, Pending, tables
    <3>3. Subject(p)' = refreshTokens[t].user
      BY <3>2 DEF Subject
    <3>4. QED
      BY <3>2, <3>3 DEF Pending, Refreshable
  <2>8. ~(\E a \in held, t \in (held \cap Tokens) \cup {None} : Logout(p, a, t))
    <3>1. ASSUME NEW a \in held, NEW t \in (held \cap Tokens) \cup {None}, Logout(p, a, t)
          PROVE  FALSE
      <4>1. stage'[p] \in {"blacklist", "refused"}
        BY <2>4, <3>1 DEF Logout, Start, Goto
      <4>2. QED
        BY <4>1 DEF Pending
    <3>2. QED
      BY <3>1
  <2>9. ~(\E a \in held : Call(p, a))
    <3>1. ASSUME NEW a \in held, Call(p, a)
          PROVE  FALSE
      <4>1. stage'[p] \in {"done", "refused"}
        BY <2>4, <3>1 DEF Call, Start, Goto
      <4>2. QED
        BY <4>1 DEF Pending
    <3>2. QED
      BY <3>1
  <2>10. ~(Issue(p) \/ Blacklist(p) \/ Close(p) \/ Answer(p) \/ Lose(p))
    BY <2>4 DEF Issue, Blacklist, Close, Answer, Lose, Goto, Pending
  <2>11. CASE Revoke(p)
    <3>1. stage[p] = "revoke" /\ request' = request
      BY <2>11 DEF Revoke
    <3>2. Needs(p) /\ request[p].op = "refresh"
      BY <3>1 DEF TypeInv, CallOK, Busy
    <3>3. request[p].refresh \in Tokens /\ refreshTokens[request[p].refresh] # None
      BY <3>2 DEF Needs, Request
    <3>4. Subject(p)' = Subject(p)
      BY <3>1, <3>2, <3>3 DEF Subject, RowsGrow
    <3>5. QED
      BY <3>1, <3>4 DEF Pending
  <2>12. QED
    BY <2>2, <2>3, <2>6, <2>7, <2>8, <2>9, <2>10, <2>11 DEF Handle
<1>3. QED
  BY <1>1, <1>2

\* A suspension is final, apart from the tokens already signed.
THEOREM SessionsLockedOutForGood == SessionsSpec => LockedOutForGood
<1> DEFINE Final == \A e \in Emails : LockedOut(e) =>
                        /\ LockedOut(e)'
                        /\ \A j \in Tokens : accessTokens'[j] # accessTokens[j] =>
                                                 accessTokens'[j].user # e
<1>1. ASSUME TypeInv, [SessionsNext]_sessionVars
      PROVE  Final
  <2>1. ASSUME NEW e \in Emails, LockedOut(e)
        PROVE  LockedOut(e)'
    <3>1. users'[e] # None /\ ~Active(e)'
      BY <1>1, <2>1, UserKept DEF LockedOut
    <3>2. \A p \in Requests : ~Pending(p, e)'
      BY <1>1, <2>1, TypeStep, PendingStep DEF LockedOut
    <3>3. QED
      BY <3>1, <3>2 DEF LockedOut
  <2>2. ASSUME NEW e \in Emails, LockedOut(e), NEW j \in Tokens, accessTokens'[j] # accessTokens[j]
        PROVE  accessTokens'[j].user # e
    <3>1. j \in Requests /\ Issue(j) /\ accessTokens'[j] = ClaimsOf(Subject(j), clock)
      BY <1>1, <2>2, SessionSigned
    <3>2. Pending(j, Subject(j)) /\ accessTokens'[j].user = Subject(j)
      BY <3>1 DEF Pending, Issue, ClaimsOf
    <3>3. QED
      BY <2>2, <3>1, <3>2 DEF LockedOut
  <2>3. QED
    BY <2>1, <2>2
<1>2. TypeInv /\ [SessionsNext]_sessionVars => [Final]_sessionVars
  BY <1>1
<1>3. SessionsInit => TypeInv
  BY InitType
<1>4. TypeInv /\ [SessionsNext]_sessionVars => TypeInv'
  BY TypeStep
<1>5. QED
  BY <1>2, <1>3, <1>4, PTL DEF SessionsSpec, LockedOutForGood
=============================================================================
