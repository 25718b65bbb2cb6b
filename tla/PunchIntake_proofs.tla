------------------------- MODULE PunchIntake_proofs -------------------------
(***************************************************************************)
(* Proofs about PunchIntake, for any devices, requests and employees.      *)
(* The argument: rows are never removed, so what was found or stored when  *)
(* an answer was made is still there when the answer arrives; and a row is *)
(* stored for a capture with a key only while it has none.                 *)
(***************************************************************************)
EXTENDS PunchIntake, TLAPS

\* What a request's place says about what it carries.
PostOK(p) ==
    /\ stage[p] # "free" => capture[p] \in Captures
    /\ stage[p] = "answered" => reply[p] \in Replies
    /\ stage[p] # "answered" => reply[p] = None

TypeInv == TypeOK /\ \A p \in Posts : PostOK(p)

\* Every variable keeps its type, across every request, answer, loss and replay.
LEMMA TypeInvariant == Spec => []TypeInv
<1>1. Init => TypeInv
  BY DEF Init, TypeInv, TypeOK, PostOK, Stages
<1>2. ASSUME TypeInv, [Next]_vars
      PROVE  TypeInv'
  <2> USE <1>2 DEF TypeInv, TypeOK
  <2>1. ASSUME NEW p \in Posts, FindKey(p)
        PROVE  TypeInv'
    <3>1. ASSUME NEW id \in AlreadyTaken(capture[p])
          PROVE  [kind |-> "duplicate", punchId |-> id] \in Replies
      BY <3>1 DEF AlreadyTaken, Stored, Replies, Accepted
    <3>2. QED
      BY <2>1, <3>1 DEF FindKey, Goto, Answer, device, PostOK, Stages
  <2>2. ASSUME NEW p \in Posts, FindEmployee(p)
        PROVE  TypeInv'
    <3>1. [kind |-> "notFound", punchId |-> None] \in Replies
      BY DEF Replies, Refused
    <3>2. QED
      BY <2>2, <3>1 DEF FindEmployee, Goto, Answer, device, PostOK, Stages
  <2>3. ASSUME NEW p \in Posts, Insert(p)
        PROVE  TypeInv'
    <3>1. capture[p] \in Captures
      BY <2>3 DEF Insert, PostOK
    <3>2. \A n \in Copies : <<capture[p], n>> \in Ids /\ Queued(<<capture[p], n>>) \in Replies
      BY <3>1 DEF Ids, Queued, Replies, Accepted
    <3>3. Rejected(capture[p]) \in Replies
      BY DEF Rejected, Replies, Refused
    <3>4. CASE RowAccepted(capture[p])
      <4>1. PICK n \in Copies : /\ rows' = [rows EXCEPT ![<<capture[p], n>>] = owner[capture[p]]]
                                /\ Answer(p, Queued(<<capture[p], n>>))
        BY <2>3, <3>4 DEF Insert
      <4>2. owner[capture[p]] \in Employees
        BY <3>4 DEF RowAccepted
      <4>3. rows' \in [Ids -> Employees \cup {None, "absent"}]
        BY <3>2, <4>1, <4>2
      <4>4. QED
        BY <2>3, <3>2, <4>1, <4>3 DEF Insert, Goto, Answer, device, PostOK, Stages
    <3>5. CASE ~RowAccepted(capture[p])
      BY <2>3, <3>3, <3>5 DEF Insert, Goto, Answer, device, PostOK, Stages
    <3>6. QED
      BY <3>4, <3>5
  <2>4. ASSUME NEW p \in Posts, Deliver(p)
        PROVE  TypeInv'
    <3>1. capture[p] \in Captures /\ reply[p] \in Replies
      BY <2>4 DEF Deliver, PostOK
    <3>2. reply[p].kind \in {"queued", "duplicate"} => reply[p].punchId \in Ids
      BY <3>1 DEF Replies, Accepted, Refused
    <3>3. told' \in [Captures -> SUBSET Ids] /\ buffer' \in [Captures -> {"empty", "waiting", "done"}]
      BY <2>4, <3>1, <3>2 DEF Deliver
    <3>4. QED
      BY <2>4, <3>3 DEF Deliver, Release, Goto, PostOK, Stages
  <2>5. ASSUME NEW p \in Posts, Lose(p)
        PROVE  TypeInv'
    BY <2>5 DEF Lose, Release, Goto, device, PostOK, Stages
  <2>6. ASSUME NEW e \in Employees, DeleteEmployee(e)
        PROVE  TypeInv'
    BY <2>6 DEF DeleteEmployee, RowsOrphaned, device, PostOK
  <2>7. ASSUME NEW c \in Captures, NEW e \in Employees, Capture(c, e)
        PROVE  TypeInv'
    BY <2>7 DEF Capture, PostOK
  <2>8. ASSUME NEW p \in Posts, NEW c \in Captures, Send(p, c)
        PROVE  TypeInv'
    BY <2>8 DEF Send, Goto, device, PostOK, Stages
  <2>9. CASE UNCHANGED vars
    BY <2>9 DEF vars, PostOK
  <2>10. QED
    BY <2>1, <2>2, <2>3, <2>4, <2>5, <2>6, <2>7, <2>8, <2>9 DEF Next
<1>3. QED
  BY <1>1, <1>2, PTL DEF Spec

THEOREM IntakeTypeCorrect == Spec => []TypeOK
  BY TypeInvariant, PTL DEF TypeInv

-----------------------------------------------------------------------------

\* No step removes a row, not even the deletion of the employee it is about.
LEMMA StoredGrows ==
  ASSUME TypeInv, [Next]_vars, NEW c \in Captures
  PROVE  Stored(c) \subseteq Stored(c)'
<1>1. ASSUME NEW id \in Ids, rows[id] # "absent"
      PROVE  rows'[id] # "absent"
  <2>1. CASE rows' = rows
    BY <1>1, <2>1
  <2>2. ASSUME NEW p \in Posts, Insert(p)
        PROVE  rows'[id] # "absent"
    BY <1>1, <2>2 DEF Insert, TypeInv, TypeOK
  <2>3. ASSUME NEW e \in Employees, DeleteEmployee(e)
        PROVE  rows'[id] # "absent"
    BY <1>1, <2>3, NoneAssumption DEF DeleteEmployee, RowsOrphaned
  <2>4. QED
    BY <2>1, <2>2, <2>3
       DEF Next, FindKey, FindEmployee, Deliver, Lose, Capture, Send, vars
<1>2. QED
  BY <1>1 DEF Stored

\* One row at most stands for a capture with a key.
THEOREM OneRowPerKey == Spec => []AtMostOneRow
<1>1. Init => AtMostOneRow
  BY KeyedAssumption DEF Init, AtMostOneRow, Ids
<1>2. ASSUME TypeInv, AtMostOneRow, [Next]_vars
      PROVE  AtMostOneRow'
  <2> SUFFICES ASSUME NEW c \in Keyed, NEW m \in Copies, NEW n \in Copies,
                      rows'[<<c, m>>] # "absent", rows'[<<c, n>>] # "absent"
               PROVE  m = n
    BY DEF AtMostOneRow
  <2>0. /\ c \in Captures /\ <<c, m>> \in Ids /\ <<c, n>> \in Ids
        /\ TypeOK
        /\ (rows[<<c, m>>] # "absent" /\ rows[<<c, n>>] # "absent") => m = n
    BY <1>2, KeyedAssumption DEF Ids, TypeInv, AtMostOneRow
  <2>1. CASE rows' = rows
    BY <2>0, <2>1
  <2>2. ASSUME NEW p \in Posts, Insert(p)
        PROVE  m = n
    <3>1. CASE capture[p] = c /\ RowAccepted(c)
      <4>1. Stored(c) = {}
        BY <3>1 DEF RowAccepted
      <4>2. rows[<<c, m>>] = "absent" /\ rows[<<c, n>>] = "absent"
        BY <2>0, <4>1 DEF Stored
      <4>3. PICK k \in Copies : rows' = [rows EXCEPT ![<<c, k>>] = owner[c]]
        BY <2>2, <3>1 DEF Insert
      <4>4. QED
        BY <2>0, <4>2, <4>3 DEF TypeOK
    <3>2. CASE ~RowAccepted(capture[p])
      BY <2>1, <2>2, <3>2 DEF Insert
    <3>3. CASE capture[p] # c /\ RowAccepted(capture[p])
      <4>1. PICK k \in Copies : rows' = [rows EXCEPT ![<<capture[p], k>>] = owner[capture[p]]]
        BY <2>2, <3>3 DEF Insert
      <4>2. QED
        BY <2>0, <3>3, <4>1 DEF TypeOK
    <3>4. QED
      BY <3>1, <3>2, <3>3
  <2>3. ASSUME NEW e \in Employees, DeleteEmployee(e)
        PROVE  m = n
    BY <2>0, <2>3, NoneAssumption DEF DeleteEmployee, RowsOrphaned
  <2>4. QED
    BY <1>2, <2>1, <2>2, <2>3
       DEF Next, FindKey, FindEmployee, Deliver, Lose, Capture, Send, vars
<1>3. QED
  BY <1>1, <1>2, TypeInvariant, PTL DEF Spec

\* Every punchId a device was told, or is about to be told, is a row of the
\* capture it asked about, and a capture leaves the buffer only after one.
THEOREM AcknowledgedStored == Spec => []AcknowledgedIsStored
<1>1. Init => AcknowledgedIsStored
  BY NoneAssumption DEF Init, AcknowledgedIsStored, Replies
<1>2. ASSUME TypeInv, AcknowledgedIsStored, [Next]_vars
      PROVE  AcknowledgedIsStored'
  <2> DEFINE Told(c) == told[c] \subseteq Stored(c) /\ (buffer[c] = "done" => told[c] # {})
             Answered(p) == reply[p] \in Accepted => reply[p].punchId \in Stored(capture[p])
  <2>0. /\ TypeOK /\ \A p \in Posts : PostOK(p)
        /\ \A c \in Captures : Told(c)
        /\ \A p \in Posts : capture[p] \in Captures => Answered(p)
        /\ \A c \in Captures : Stored(c) \subseteq Stored(c)'
    BY <1>2, StoredGrows DEF TypeInv, AcknowledgedIsStored
  <2>1. \A c \in Captures : Told(c)'
    <3>1. CASE UNCHANGED <<buffer, told>>
      BY <2>0, <3>1
    <3>2. ASSUME NEW p \in Posts, Deliver(p)
          PROVE  \A c \in Captures : Told(c)'
      <4>1. capture[p] \in Captures /\ reply[p] \in Replies
        BY <2>0, <3>2 DEF Deliver, PostOK
      <4>2. reply[p].kind \in {"queued", "duplicate"} => reply[p].punchId \in Stored(capture[p])
        BY <2>0, <4>1 DEF Replies, Refused
      <4>3. CASE reply[p].kind \in {"queued", "duplicate"}
        <5>1. /\ buffer' = [buffer EXCEPT ![capture[p]] = "done"]
              /\ told' = [told EXCEPT ![capture[p]] = @ \cup {reply[p].punchId}]
          BY <3>2, <4>3 DEF Deliver
        <5>2. \A c \in Captures : c # capture[p] => Told(c)'
          BY <2>0, <5>1 DEF TypeOK
        <5>3. /\ told'[capture[p]] = told[capture[p]] \cup {reply[p].punchId}
              /\ told[capture[p]] \subseteq Stored(capture[p])
          BY <2>0, <4>1, <5>1 DEF TypeOK
        <5>4. ASSUME NEW c \in Captures, c = capture[p]
              PROVE  Told(c)'
          <6>1. told'[c] \subseteq Stored(c)'
            BY <2>0, <4>2, <4>3, <5>3, <5>4
          <6>2. told'[c] # {}
            BY <5>3, <5>4
          <6>3. QED
            BY <6>1, <6>2
        <5>5. QED
          BY <5>2, <5>4
      <4>4. CASE reply[p].kind \notin {"queued", "duplicate"}
        BY <2>0, <3>2, <4>4 DEF Deliver
      <4>5. QED
        BY <4>3, <4>4
    <3>3. ASSUME NEW b \in Captures, NEW e \in Employees, Capture(b, e)
          PROVE  \A c \in Captures : Told(c)'
      BY <2>0, <3>3 DEF Capture, TypeOK
    <3>4. QED
      BY <1>2, <3>1, <3>2, <3>3
         DEF Next, FindKey, FindEmployee, Insert, Lose, Send, DeleteEmployee, device, vars
  <2>2. ASSUME NEW q \in Posts, capture'[q] \in Captures
        PROVE  Answered(q)'
    <3>1. CASE UNCHANGED <<capture, reply>>
      BY <2>0, <2>2, <3>1
    <3>2. ASSUME NEW p \in Posts, FindKey(p)
          PROVE  Answered(q)'
      BY <2>0, <2>2, <3>2 DEF FindKey, Answer, AlreadyTaken, TypeOK, device
    <3>3. ASSUME NEW p \in Posts, FindEmployee(p)
          PROVE  Answered(q)'
      BY <2>0, <2>2, <3>3 DEF FindEmployee, Answer, TypeOK, device, Accepted
    <3>4. ASSUME NEW p \in Posts, Insert(p)
          PROVE  Answered(q)'
      <4>1. CASE q = p /\ RowAccepted(capture[p])
        <5>1. PICK n \in Copies : /\ rows' = [rows EXCEPT ![<<capture[p], n>>] = owner[capture[p]]]
                                  /\ reply' = [reply EXCEPT ![p] = Queued(<<capture[p], n>>)]
          BY <3>4, <4>1 DEF Insert, Answer
        <5>2. owner[capture[p]] # "absent" /\ capture' = capture
          BY <2>0, <3>4, <4>1, NoneAssumption DEF RowAccepted, TypeOK, Insert
        <5>3. <<capture[p], n>> \in Ids /\ capture[p] \in Captures
          BY <2>2, <4>1, <5>2 DEF Ids
        <5>4. <<capture[p], n>> \in Stored(capture[p])'
          BY <2>0, <5>1, <5>2, <5>3 DEF TypeOK, Stored
        <5>5. QED
          BY <2>0, <4>1, <5>1, <5>2, <5>4 DEF TypeOK, Queued
      <4>2. CASE q = p /\ ~RowAccepted(capture[p])
        BY <2>0, <3>4, <4>2 DEF Insert, Answer, Rejected, TypeOK, Accepted
      <4>3. CASE q # p
        BY <2>0, <2>2, <3>4, <4>3 DEF Insert, Answer, TypeOK
      <4>4. QED
        BY <4>1, <4>2, <4>3
    <3>5. ASSUME NEW p \in Posts, Deliver(p) \/ Lose(p)
          PROVE  Answered(q)'
      BY <2>0, <2>2, <3>5, NoneAssumption DEF Deliver, Lose, Release, TypeOK, Replies
    <3>6. ASSUME NEW p \in Posts, NEW c \in Captures, Send(p, c)
          PROVE  Answered(q)'
      BY <2>0, <2>2, <3>6, NoneAssumption DEF Send, TypeOK, PostOK, Replies
    <3>7. QED
      BY <1>2, <3>1, <3>2, <3>3, <3>4, <3>5, <3>6 DEF Next, Capture, DeleteEmployee, vars
  <2>3. QED
    BY <2>1, <2>2 DEF AcknowledgedIsStored
<1>3. QED
  BY <1>1, <1>2, TypeInvariant, PTL DEF Spec

-----------------------------------------------------------------------------

\* A 500 answers a capture that is in the table, or whose employee is gone.
THEOREM ErrorHarmless == Spec => []ErrorLosesNothing
<1> DEFINE Sent(p) == stage[p] # "free" => buffer[capture[p]] # "empty"
           Harmless(p) == (stage[p] = "answered" /\ reply[p].kind = "error") =>
                              \/ Stored(capture[p]) # {}
                              \/ owner[capture[p]] \notin employees
           ErrorInv == \A p \in Posts : Sent(p) /\ Harmless(p)
<1>1. Init => ErrorInv
  BY DEF Init
<1>2. ASSUME TypeInv, ErrorInv, [Next]_vars
      PROVE  ErrorInv'
  <2>0. /\ TypeOK /\ \A p \in Posts : PostOK(p)
        /\ \A c \in Captures : Stored(c) \subseteq Stored(c)'
    BY <1>2, StoredGrows DEF TypeInv
  <2> SUFFICES ASSUME NEW q \in Posts
               PROVE  (Sent(q) /\ Harmless(q))'
    OBVIOUS
  <2>1. ASSUME NEW p \in Posts, FindKey(p)
        PROVE  (Sent(q) /\ Harmless(q))'
    BY <1>2, <2>0, <2>1 DEF FindKey, Goto, Answer, device, TypeOK, PostOK, Stored
  <2>2. ASSUME NEW p \in Posts, FindEmployee(p)
        PROVE  (Sent(q) /\ Harmless(q))'
    BY <1>2, <2>0, <2>2 DEF FindEmployee, Goto, Answer, device, TypeOK, PostOK, Stored
  <2>3. ASSUME NEW p \in Posts, Insert(p)
        PROVE  (Sent(q) /\ Harmless(q))'
    <3>1. Sent(q)'
      BY <1>2, <2>0, <2>3 DEF Insert, Goto, Answer, device, TypeOK
    <3>2. CASE q = p /\ RowAccepted(capture[p])
      <4>1. PICK id \in {<<capture[p], n>> : n \in Copies} :
                reply' = [reply EXCEPT ![p] = Queued(id)]
        BY <2>3, <3>2 DEF Insert, Answer
      <4>2. reply'[q].kind = "queued"
        BY <2>0, <3>2, <4>1 DEF Queued, TypeOK
      <4>3. QED
        BY <3>1, <4>2
    <3>3. CASE q = p /\ ~RowAccepted(capture[p])
      <4>1. Stored(capture[p]) # {} \/ owner[capture[p]] \notin employees
        BY <3>3 DEF RowAccepted
      <4>2. capture[p] \in Captures /\ UNCHANGED <<capture, owner, employees>>
        BY <2>0, <2>3, <3>3 DEF Insert, PostOK, device
      <4>3. QED
        BY <2>0, <3>1, <3>3, <4>1, <4>2
    <3>4. CASE q # p
      <4>1. /\ stage'[q] = stage[q] /\ reply'[q] = reply[q]
            /\ UNCHANGED <<capture, owner, employees>>
        BY <2>0, <2>3, <3>4 DEF Insert, Goto, Answer, TypeOK, device
      <4>2. QED
        BY <1>2, <2>0, <3>1, <4>1 DEF PostOK
    <3>5. QED
      BY <3>2, <3>3, <3>4
  <2>4. ASSUME NEW p \in Posts, Deliver(p) \/ Lose(p)
        PROVE  (Sent(q) /\ Harmless(q))'
    <3>1. CASE q = p
      BY <2>0, <2>4, <3>1 DEF Deliver, Lose, Release, Goto, TypeOK
    <3>2. CASE q # p
      <4>1. /\ stage'[q] = stage[q] /\ reply'[q] = reply[q] /\ capture'[q] = capture[q]
            /\ UNCHANGED <<owner, employees, rows>>
        BY <2>0, <2>4, <3>2 DEF Deliver, Lose, Release, Goto, TypeOK, device
      <4>2. \A c \in Captures : buffer[c] # "empty" => buffer'[c] # "empty"
        BY <2>0, <2>4 DEF Deliver, Lose, TypeOK, device
      <4>3. QED
        BY <1>2, <2>0, <4>1, <4>2 DEF PostOK, Stored
    <3>3. QED
      BY <3>1, <3>2
  <2>5. ASSUME NEW c \in Captures, NEW e \in Employees, Capture(c, e)
        PROVE  (Sent(q) /\ Harmless(q))'
    BY <1>2, <2>0, <2>5 DEF Capture, TypeOK, PostOK, Stored
  <2>6. ASSUME NEW p \in Posts, NEW c \in Captures, Send(p, c)
        PROVE  (Sent(q) /\ Harmless(q))'
    BY <1>2, <2>0, <2>6 DEF Send, Goto, TypeOK, device, Stored
  <2>7. ASSUME NEW e \in Employees, DeleteEmployee(e)
        PROVE  (Sent(q) /\ Harmless(q))'
    BY <1>2, <2>0, <2>7 DEF DeleteEmployee, device, PostOK
  <2>8. CASE UNCHANGED vars
    BY <1>2, <2>8 DEF vars, Stored
  <2>9. QED
    BY <1>2, <2>1, <2>2, <2>3, <2>4, <2>5, <2>6, <2>7, <2>8 DEF Next
<1>3. ErrorInv => ErrorLosesNothing
  BY DEF ErrorLosesNothing
<1>4. QED
  BY <1>1, <1>2, <1>3, TypeInvariant, PTL DEF Spec

-----------------------------------------------------------------------------

\* A row of a capture with a key is its only one, and the one RowOf names.
LEMMA OnlyRow ==
  ASSUME AtMostOneRow, NEW c \in Keyed, NEW id \in Stored(c)
  PROVE  Stored(c) = {id} /\ RowOf(c) = id
<1>1. \A j \in Stored(c) : j = id
  BY DEF Stored, Ids, AtMostOneRow
<1>2. QED
  BY <1>1 DEF RowOf, OneOf

\* The device sees each capture with a key recorded once, and every
\* acknowledgement name that record.
THEOREM DeliveryImplemented == Spec => ImplementsDelivery
<1>1. Init => Delivery!DeliveryInit
  <2>1. Init => \A c \in Keyed : Stored(c) = {} /\ told[c] = {}
    BY KeyedAssumption DEF Init, Stored
  <2>2. QED
    BY <2>1 DEF Delivery!DeliveryInit, RowOf, OneOf
<1>2. ASSUME TypeInv, AtMostOneRow, AcknowledgedIsStored, [Next]_vars
      PROVE  [Delivery!DeliveryNext]_(Delivery!deliveryVars)
  <2> DEFINE Same == /\ \A c \in Keyed : RowOf(c)' = RowOf(c)
                     /\ \A c \in Keyed : told'[c] = told[c]
  <2>0. TypeOK /\ \A p \in Posts : PostOK(p)
    BY <1>2 DEF TypeInv
  <2>1. Same => UNCHANGED Delivery!deliveryVars
    BY DEF Delivery!deliveryVars
  <2>3. ASSUME NEW e \in Employees, DeleteEmployee(e)
        PROVE  Same
    <3>1. \A c \in Keyed : Stored(c)' = Stored(c)
      BY <2>0, <2>3, NoneAssumption DEF DeleteEmployee, RowsOrphaned, Stored, TypeOK
    <3>2. QED
      BY <2>3, <3>1 DEF DeleteEmployee, device, RowOf
  <2>4. ASSUME NEW p \in Posts, Insert(p)
        PROVE  Same \/ Delivery!DeliveryNext
    <3>1. CASE ~RowAccepted(capture[p])
      BY <2>4, <3>1 DEF Insert, device, RowOf, Stored
    <3>2. CASE RowAccepted(capture[p])
      <4>1. PICK n \in Copies : rows' = [rows EXCEPT ![<<capture[p], n>>] = owner[capture[p]]]
        BY <2>4, <3>2 DEF Insert
      <4>2. /\ owner[capture[p]] # "absent"
            /\ <<capture[p], n>> \in Ids
            /\ told' = told
        BY <2>0, <2>4, <3>2, NoneAssumption DEF RowAccepted, TypeOK, PostOK, Insert, Ids, device
      <4>3. \A b \in Keyed : b # capture[p] => Stored(b)' = Stored(b)
        BY <2>0, <4>1 DEF Stored, TypeOK
      <4>4. \A b \in Keyed : b # capture[p] => RowOf(b)' = RowOf(b)
        BY <4>3 DEF RowOf
      <4>5. CASE capture[p] \notin Keyed
        BY <4>2, <4>4, <4>5
      <4>6. CASE capture[p] \in Keyed
        <5>1. Stored(capture[p]) = {}
          BY <3>2, <4>6 DEF RowAccepted
        <5>2. capture' = capture
          BY <2>4 DEF Insert
        <5>3. \A id \in Ids : id[1] = capture[p] /\ rows'[id] # "absent" <=> id = <<capture[p], n>>
          BY <2>0, <4>1, <4>2, <5>1 DEF Stored, TypeOK
        <5>4. ASSUME NEW c \in Keyed, c = capture[p]
              PROVE  RowOf(c)' = <<c, n>>
          <6>1. Stored(c)' = {<<c, n>>}
            BY <4>2, <5>3, <5>4 DEF Stored
          <6>2. QED
            BY <6>1 DEF RowOf, OneOf
        <5>5. ASSUME NEW b \in Keyed
              PROVE  RowOf(b) # <<capture[p], n>>
          <6>1. CASE Stored(b) = {}
            BY <4>2, <6>1, NoneAssumption DEF RowOf, OneOf
          <6>2. CASE Stored(b) # {}
            <7>1. RowOf(b) \in Stored(b)
              BY <6>2 DEF RowOf, OneOf
            <7>2. <<capture[p], n>> \in Stored(b) => <<capture[p], n>> \in Stored(capture[p])
              BY DEF Stored
            <7>3. QED
              BY <5>1, <7>1, <7>2
          <6>3. QED
            BY <6>1, <6>2
        <5>6. ASSUME NEW c \in Keyed, c = capture[p]
              PROVE  Delivery!Record(c, <<c, n>>)
          <6>1. RowOf(c) = None
            BY <5>1, <5>6 DEF RowOf, OneOf
          <6>2. [b \in Keyed |-> RowOf(b)]' =
                    [[b \in Keyed |-> RowOf(b)] EXCEPT ![c] = <<c, n>>]
            BY <4>4, <5>4, <5>6
          <6>3. QED
            BY <4>2, <5>5, <5>6, <6>1, <6>2 DEF Delivery!Record
        <5>7. QED
          BY <4>2, <4>6, <5>6 DEF Delivery!DeliveryNext
      <4>7. QED
        BY <4>5, <4>6
    <3>3. QED
      BY <3>1, <3>2
  <2>5. ASSUME NEW p \in Posts, Deliver(p)
        PROVE  Same \/ Delivery!DeliveryNext
    <3>1. rows' = rows /\ \A c \in Keyed : RowOf(c)' = RowOf(c)
      BY <2>5 DEF Deliver, RowOf, OneOf, Stored
    <3>2. CASE reply[p].kind \notin {"queued", "duplicate"}
      BY <2>5, <3>1, <3>2 DEF Deliver
    <3>3. CASE reply[p].kind \in {"queued", "duplicate"}
      <4>1. /\ capture[p] \in Captures
            /\ reply[p] \in Accepted
            /\ told' = [told EXCEPT ![capture[p]] = @ \cup {reply[p].punchId}]
        BY <2>0, <2>5, <3>3 DEF Deliver, PostOK, Replies, Refused
      <4>2. CASE capture[p] \notin Keyed
        BY <2>0, <3>1, <4>1, <4>2, KeyedAssumption DEF TypeOK
      <4>3. CASE capture[p] \in Keyed
        <5>1. reply[p].punchId \in Stored(capture[p]) /\ told[capture[p]] \subseteq Stored(capture[p])
          BY <1>2, <4>1 DEF AcknowledgedIsStored
        <5>2. /\ Stored(capture[p]) = {reply[p].punchId}
              /\ RowOf(capture[p]) = reply[p].punchId
          BY <1>2, <4>3, <5>1, OnlyRow
        <5>3. RowOf(capture[p]) # None
          BY <5>1, <5>2, NoneAssumption DEF Stored
        <5>4. told[capture[p]] \cup {reply[p].punchId} = {RowOf(capture[p])}
          BY <5>1, <5>2
        <5>5. [c \in Keyed |-> told[c]]' =
                  [[c \in Keyed |-> told[c]] EXCEPT ![capture[p]] = {RowOf(capture[p])}]
          BY <2>0, <4>1, <4>3, <5>4, KeyedAssumption DEF TypeOK
        <5>6. [c \in Keyed |-> RowOf(c)]' = [c \in Keyed |-> RowOf(c)]
          BY <3>1
        <5>7. ASSUME NEW c \in Keyed, c = capture[p]
              PROVE  Delivery!Acknowledge(c)
          BY <5>3, <5>5, <5>6, <5>7 DEF Delivery!Acknowledge
        <5>8. QED
          BY <4>3, <5>7 DEF Delivery!DeliveryNext
      <4>4. QED
        BY <4>2, <4>3
    <3>4. QED
      BY <3>2, <3>3
  <2>6. Same \/ Delivery!DeliveryNext
    <3>1. CASE \E p \in Posts : Insert(p)
      BY <2>4, <3>1
    <3>2. CASE \E p \in Posts : Deliver(p)
      BY <2>5, <3>2
    <3>3. CASE \E e \in Employees : DeleteEmployee(e)
      BY <2>3, <3>3
    <3>4. CASE UNCHANGED <<rows, told>>
      BY <3>4 DEF RowOf, Stored
    <3>5. QED
      BY <1>2, <3>1, <3>2, <3>3, <3>4
         DEF Next, FindKey, FindEmployee, Lose, Capture, Send, device, vars
  <2>7. QED
    BY <2>1, <2>6
<1>3. QED
  BY <1>1, <1>2, TypeInvariant, OneRowPerKey, AcknowledgedStored, PTL
     DEF Spec, ImplementsDelivery, Delivery!DeliverySpec

-----------------------------------------------------------------------------

\* The raw log only grows: a row that is stored stays, and all that may happen
\* to it is that its employee is deleted and the reference becomes NULL
\* (lines 149-161; AttendancePunch.employee, onDelete SetNull).
RowsAreKept ==
    [][\A id \in Ids : rows[id] # "absent" =>
            \/ rows'[id] = rows[id]
            \/ rows'[id] = None /\ rows[id] \in employees \ employees']_vars

\* A stored punch outlives every request, replay, loss and deletion.
THEOREM PunchesAreKept == Spec => RowsAreKept
<1> DEFINE Kept == \A id \in Ids : rows[id] # "absent" =>
                        \/ rows'[id] = rows[id]
                        \/ rows'[id] = None /\ rows[id] \in employees \ employees'
<1>1. ASSUME TypeInv, [Next]_vars
      PROVE  Kept \/ UNCHANGED vars
  <2> SUFFICES ASSUME NEW id \in Ids, rows[id] # "absent"
               PROVE  \/ rows'[id] = rows[id]
                      \/ rows'[id] = None /\ rows[id] \in employees \ employees'
    OBVIOUS
  <2>1. CASE rows' = rows
    BY <2>1
  <2>2. ASSUME NEW p \in Posts, Insert(p)
        PROVE  rows'[id] = rows[id]
    BY <1>1, <2>2 DEF Insert, TypeInv, TypeOK
  <2>3. ASSUME NEW e \in Employees, DeleteEmployee(e)
        PROVE  rows'[id] = rows[id] \/ (rows'[id] = None /\ rows[id] \in employees \ employees')
    BY <2>3 DEF DeleteEmployee, RowsOrphaned
  <2>4. QED
    BY <1>1, <2>1, <2>2, <2>3
       DEF Next, FindKey, FindEmployee, Deliver, Lose, Capture, Send, vars
<1>2. ASSUME TypeInv, [Next]_vars
      PROVE  [Kept]_vars
  BY <1>1, <1>2
<1>3. QED
  BY <1>2, TypeInvariant, PTL DEF Spec, RowsAreKept

\* A row is a punch of the employee its capture names, as long as that employee
\* is there; the reference is empty only once the employee is not
\* (lines 142-161).
RowsAreTheirOwners ==
    \A id \in Ids : rows[id] # "absent" =>
        \/ rows[id] = owner[id[1]]
        \/ rows[id] = None /\ owner[id[1]] \notin employees

\* However requests of several captures overlap, a punch is stored for the
\* employee its own capture names: what a request carries is captured before it
\* is sent, and a capture does not change owner.
THEOREM RowsOfTheirOwners == Spec => []RowsAreTheirOwners
<1> DEFINE Sent(p) == stage[p] # "free" => buffer[capture[p]] # "empty"
           Owned(id) == rows[id] # "absent" =>
                            /\ buffer[id[1]] # "empty"
                            /\ \/ rows[id] = owner[id[1]]
                               \/ rows[id] = None /\ owner[id[1]] \notin employees
           OwnerInv == (\A p \in Posts : Sent(p)) /\ (\A id \in Ids : Owned(id))
<1>1. Init => OwnerInv
  BY DEF Init
<1>2. ASSUME TypeInv, OwnerInv, [Next]_vars
      PROVE  OwnerInv'
  <2>0. /\ TypeOK /\ \A p \in Posts : PostOK(p)
        /\ \A id \in Ids : id[1] \in Captures
    BY <1>2 DEF TypeInv, Ids
  <2>1. \A c \in Captures : buffer[c] # "empty" => buffer'[c] # "empty" /\ owner'[c] = owner[c]
    <3>1. CASE UNCHANGED <<buffer, owner>>
      BY <3>1
    <3>2. ASSUME NEW p \in Posts, Deliver(p)
          PROVE  \A c \in Captures :
                     buffer[c] # "empty" => buffer'[c] # "empty" /\ owner'[c] = owner[c]
      BY <2>0, <3>2 DEF Deliver, TypeOK
    <3>3. ASSUME NEW b \in Captures, NEW e \in Employees, Capture(b, e)
          PROVE  \A c \in Captures :
                     buffer[c] # "empty" => buffer'[c] # "empty" /\ owner'[c] = owner[c]
      BY <2>0, <3>3 DEF Capture, TypeOK
    <3>4. QED
      BY <1>2, <3>1, <3>2, <3>3
         DEF Next, FindKey, FindEmployee, Insert, Lose, Send, DeleteEmployee, device, vars
  <2>2. employees' \subseteq employees
    BY <1>2 DEF Next, FindKey, FindEmployee, Insert, Lose, Send, DeleteEmployee, Deliver,
                Capture, vars
  <2>3. ASSUME NEW q \in Posts
        PROVE  Sent(q)'
    <3>1. CASE stage'[q] # "free" /\ stage[q] # "free" /\ capture'[q] = capture[q]
      BY <1>2, <2>0, <2>1, <3>1 DEF PostOK
    <3>2. CASE stage'[q] = "free"
      BY <3>2
    <3>3. ASSUME NEW p \in Posts, NEW c \in Captures, Send(p, c)
          PROVE  Sent(q)'
      BY <1>2, <2>0, <3>3 DEF Send, Goto, device, TypeOK
    <3>4. ASSUME NEW p \in Posts, Deliver(p) \/ Lose(p)
          PROVE  stage'[q] = "free" \/ (stage'[q] = stage[q] /\ capture'[q] = capture[q])
      BY <2>0, <3>4 DEF Deliver, Lose, Release, Goto, TypeOK
    <3>5. ASSUME NEW p \in Posts, FindKey(p) \/ FindEmployee(p) \/ Insert(p)
          PROVE  capture'[q] = capture[q] /\ (stage'[q] = stage[q] \/ stage[q] # "free")
      BY <2>0, <3>5 DEF FindKey, FindEmployee, Insert, Answer, Goto, TypeOK
    <3>6. CASE UNCHANGED <<stage, capture>>
      BY <3>1, <3>2, <3>6
    <3>7. QED
      BY <1>2, <3>1, <3>2, <3>3, <3>4, <3>5, <3>6
         DEF Next, Capture, DeleteEmployee, device, vars
  <2>4. ASSUME NEW id \in Ids
        PROVE  Owned(id)'
    <3>1. CASE rows'[id] = rows[id]
      BY <1>2, <2>0, <2>1, <2>2, <3>1
    <3>2. ASSUME NEW p \in Posts, Insert(p), rows'[id] # rows[id]
          PROVE  Owned(id)'
      <4>1. capture[p] \in Captures /\ UNCHANGED <<buffer, owner, employees>>
        BY <2>0, <3>2 DEF Insert, PostOK, device
      <4>2. RowAccepted(capture[p])
        BY <3>2 DEF Insert
      <4>3. PICK n \in Copies : rows' = [rows EXCEPT ![<<capture[p], n>>] = owner[capture[p]]]
        BY <3>2, <4>2 DEF Insert
      <4>4. id = <<capture[p], n>> /\ rows'[id] = owner[capture[p]]
        BY <2>0, <3>2, <4>3 DEF TypeOK
      <4>5. buffer[capture[p]] # "empty"
        BY <1>2, <3>2 DEF Insert
      <4>6. QED
        BY <4>1, <4>4, <4>5
    <3>3. ASSUME NEW e \in Employees, DeleteEmployee(e), rows'[id] # rows[id]
          PROVE  Owned(id)'
      <4>1. rows[id] = e /\ rows'[id] = None /\ UNCHANGED <<buffer, owner>>
        BY <3>3 DEF DeleteEmployee, RowsOrphaned, device
      <4>2. rows[id] = owner[id[1]] /\ buffer[id[1]] # "empty"
        BY <1>2, <4>1, NoneAssumption
      <4>3. owner[id[1]] \notin employees'
        BY <3>3, <4>1, <4>2 DEF DeleteEmployee
      <4>4. QED
        BY <4>1, <4>2, <4>3
    <3>4. CASE rows' = rows
      BY <3>1, <3>4
    <3>5. QED
      BY <1>2, <3>1, <3>2, <3>3, <3>4
         DEF Next, FindKey, FindEmployee, Deliver, Lose, Capture, Send, vars
  <2>5. QED
    BY <2>3, <2>4
<1>3. OwnerInv => RowsAreTheirOwners
  BY DEF RowsAreTheirOwners
<1>4. QED
  BY <1>1, <1>2, <1>3, TypeInvariant, PTL DEF Spec

\* What a device may rely on: it never hears two identifiers for one capture
\* with a key, and never the same one for two (lines 133-140, 163).
OneAnswerPerCapture ==
    \A b, c \in Keyed : \A i \in told[b], j \in told[c] : b = c <=> i = j

\* The promise of PunchDelivery alone gives it: a record is made once, for one
\* capture, and an acknowledgement names it. So it holds of the handler, which
\* implements that promise.
THEOREM DeliveryToldOnce == Delivery!DeliverySpec => []OneAnswerPerCapture
<1> DEFINE Records == [c \in Keyed |-> RowOf(c)]
           Heard == [c \in Keyed |-> told[c]]
           Once == /\ \A c \in Keyed : Heard[c] # {} =>
                            Records[c] # None /\ Heard[c] = {Records[c]}
                   /\ \A b, c \in Keyed :
                            (Records[b] # None /\ Records[b] = Records[c]) => b = c
<1>1. Delivery!DeliveryInit => Once
  BY DEF Delivery!DeliveryInit
<1>2. ASSUME Once, [Delivery!DeliveryNext]_(Delivery!deliveryVars)
      PROVE  Once'
  <2>1. ASSUME NEW c \in Keyed, Delivery!Acknowledge(c)
        PROVE  Once'
    <3>1. Records[c] # None /\ Heard' = [Heard EXCEPT ![c] = {Records[c]}] /\ Records' = Records
      BY <2>1 DEF Delivery!Acknowledge
    <3>2. DOMAIN Heard = Keyed
      OBVIOUS
    <3> HIDE DEF Records, Heard
    <3>3. QED
      BY <1>2, <3>1, <3>2
  <2>2. ASSUME NEW c \in Keyed, NEW id \in Ids, Delivery!Record(c, id)
        PROVE  Once'
    <3>1. /\ Records[c] = None /\ \A b \in Keyed : Records[b] # id
          /\ Records' = [Records EXCEPT ![c] = id]
          /\ Heard' = Heard
      BY <2>2 DEF Delivery!Record
    <3>2. DOMAIN Records = Keyed
      OBVIOUS
    <3> HIDE DEF Records, Heard
    <3>3. QED
      BY <1>2, <3>1, <3>2
  <2>3. CASE UNCHANGED Delivery!deliveryVars
    <3>1. Records' = Records /\ Heard' = Heard
      BY <2>3 DEF Delivery!deliveryVars
    <3> HIDE DEF Records, Heard
    <3>2. QED
      BY <1>2, <3>1
  <2>4. QED
    BY <1>2, <2>1, <2>2, <2>3 DEF Delivery!DeliveryNext
<1>3. Once => OneAnswerPerCapture
  BY DEF OneAnswerPerCapture
<1>4. QED
  BY <1>1, <1>2, <1>3, PTL DEF Delivery!DeliverySpec

\* So no device is told two identifiers for a capture it replays.
THEOREM ToldOnce == Spec => []OneAnswerPerCapture
  BY DeliveryImplemented, DeliveryToldOnce DEF ImplementsDelivery
=============================================================================
