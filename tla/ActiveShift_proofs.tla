------------------------- MODULE ActiveShift_proofs -------------------------
(***************************************************************************)
(* Proofs about ActiveShift, for days of any length and any shifts, time   *)
(* zones and instants.                                                     *)
(* The argument: an instant is a local day and a local time; a plain shift *)
(* that covers it is of that day, or of the day before and still within    *)
(* its grace; and what a call has read holds wherever nothing changed.     *)
(***************************************************************************)
EXTENDS ActiveShift, TLAPS

\* An instant is its local day and its local time.
LEMMA DayAndTime ==
  ASSUME NEW t \in Int, NEW zone \in Int
  PROVE  /\ localDateFor(t, zone) \in Int
         /\ localTimeFor(t, zone) \in 0 .. DayLength - 1
         /\ t + zone = localDateFor(t, zone) * DayLength + localTimeFor(t, zone)
  BY DayAssumption DEF localDateFor, localTimeFor

\* Whole days do not overlap.
LEMMA DaysInOrder ==
  ASSUME NEW d \in Int, NEW e \in Int, d < e
  PROVE  d * DayLength + DayLength <= e * DayLength
<1>1. \A n \in Int : n >= 1 => n * DayLength >= DayLength
  BY DayAssumption
<1>2. e - d >= 1 /\ (e - d) * DayLength = e * DayLength - d * DayLength
  BY DayAssumption
<1>3. d * DayLength \in Int /\ e * DayLength \in Int
  BY DayAssumption
<1>4. QED
  BY <1>1, <1>2, <1>3, DayAssumption

LEMMA NextDay ==
  ASSUME NEW d \in Int
  PROVE  (d + 1) * DayLength = d * DayLength + DayLength /\ d * DayLength \in Int
  BY DayAssumption

\* A sum within a day does not wrap.
LEMMA NoWrap ==
  ASSUME NEW n \in Nat, n < DayLength
  PROVE  n % DayLength = n
  BY DayAssumption

-----------------------------------------------------------------------------

Day == localDateFor(punchAt, timezone)
Time == localTimeFor(punchAt, timezone)

\* Type correctness.
THEOREM AttributionTypeCorrect == Spec => []TypeOK
<1>1. Init => TypeOK
  BY DEF Init, TypeOK
<1>2. TypeOK /\ [Next]_vars => TypeOK'
  BY DEF TypeOK, Next, Reschedule, MoveZone, Call, ReadTimezone, ReadToday, ReadYesterday,
         Return, Assigned, Chosen, tables, history, vars
<1>3. QED
  BY <1>1, <1>2, PTL DEF Spec

\* What the values of a state are, for the arithmetic.
LEMMA Ranges ==
  ASSUME TypeOK
  PROVE  /\ punchAt \in Int /\ timezone \in Int
         /\ Day \in Int /\ Time \in 0 .. DayLength - 1
         /\ punchAt + timezone = Day * DayLength + Time
         /\ \A d \in Days : d \in Int
         /\ \A s \in Shifts : /\ s.start \in 0 .. DayLength - 1
                              /\ s.end \in 0 .. DayLength - 1
                              /\ s.gracePeriodMins \in 0 .. DayLength
                              /\ s.isOvernight \in BOOLEAN
<1>1. punchAt \in Int /\ timezone \in Int
  BY DomainAssumption DEF TypeOK
<1>2. QED
  BY <1>1, DayAndTime, DomainAssumption DEF Day, Time

\* A plain shift that covers the punch is of its local day, or is an overnight
\* shift of the day before whose grace is not over.
LEMMA CoveringDay ==
  ASSUME TypeOK, NEW d \in Days, Covers(d), Plain(d)
  PROVE  \/ d = Day
         \/ /\ d = previousDay(Day)
            /\ schedule[d].isOvernight
            /\ Time <= plusGrace(schedule[d])
<1> DEFINE shift == schedule[d]
           base == d * DayLength
<1>1. /\ shift \in Shifts
      /\ punchAt + timezone >= base + shift.start
      /\ punchAt + timezone <= base + shift.end + shift.gracePeriodMins
                                 + (IF shift.isOvernight THEN DayLength ELSE 0)
      /\ shift.end + shift.gracePeriodMins < DayLength
      /\ base \in Int
  BY Ranges, NextDay DEF Covers, Plain, Start, Finish, TypeOK
<1>2. plusGrace(shift) = shift.end + shift.gracePeriodMins
  BY <1>1, NoWrap, Ranges DEF plusGrace
<1>3. ~(d > Day)
  <2> SUFFICES ASSUME d > Day
               PROVE  FALSE
    OBVIOUS
  <2>1. Day * DayLength + DayLength <= base /\ Day * DayLength \in Int
    BY DaysInOrder, NextDay, Ranges
  <2>2. QED
    BY <1>1, <2>1, Ranges, DayAssumption
<1>4. ~(d < Day - 1)
  <2> SUFFICES ASSUME d + 1 < Day
               PROVE  FALSE
    BY Ranges
  <2>1. (d + 1) * DayLength + DayLength <= Day * DayLength /\ Day * DayLength \in Int
    BY DaysInOrder, NextDay, Ranges
  <2>2. (d + 1) * DayLength = base + DayLength
    BY NextDay, Ranges
  <2>3. QED
    BY <1>1, <2>1, <2>2, Ranges, DayAssumption
<1>5. CASE d = Day - 1
  <2>1. Day * DayLength = base + DayLength
    <3>1. (d + 1) * DayLength = base + DayLength /\ d + 1 = Day
      BY <1>5, NextDay, Ranges
    <3>2. QED
      BY <3>1
  <2>2. shift.isOvernight
    BY <1>1, <2>1, Ranges, DayAssumption
  <2>3. Time <= shift.end + shift.gracePeriodMins
    BY <1>1, <2>1, <2>2, Ranges, DayAssumption
  <2>4. QED
    BY <1>2, <1>5, <2>2, <2>3 DEF previousDay
<1>6. QED
  BY <1>3, <1>4, <1>5, Ranges

\* And the other way round for the day before.
LEMMA OvernightCovers ==
  ASSUME TypeOK, NEW d \in Days, d = previousDay(Day), schedule[d] # None, Plain(d),
         schedule[d].isOvernight, Time <= plusGrace(schedule[d])
  PROVE  Covers(d)
<1> DEFINE shift == schedule[d]
           base == d * DayLength
<1>1. /\ shift \in Shifts
      /\ shift.end + shift.gracePeriodMins < DayLength
      /\ base \in Int
  BY Ranges, NextDay DEF Plain, TypeOK
<1>2. plusGrace(shift) = shift.end + shift.gracePeriodMins
  BY <1>1, NoWrap, Ranges DEF plusGrace
<1>3. Day * DayLength = base + DayLength
  <2>1. (d + 1) * DayLength = base + DayLength /\ d + 1 = Day
    BY NextDay, Ranges DEF previousDay
  <2>2. QED
    BY <2>1
<1>4. punchAt + timezone = base + DayLength + Time
  BY <1>3, Ranges
<1>5. Start(d) = base + shift.start /\ Finish(d) = base + shift.end + shift.gracePeriodMins + DayLength
  BY DEF Start, Finish
<1>6. QED
  BY <1>1, <1>2, <1>4, <1>5, Ranges, DayAssumption DEF Covers

\* An overnight shift of the day before that covers the punch, with its grace
\* within the day, covers its local time.
LEMMA OvernightTime ==
  ASSUME TypeOK, NEW d \in Days, d = previousDay(Day), Covers(d), schedule[d].isOvernight,
         schedule[d].end + schedule[d].gracePeriodMins < DayLength
  PROVE  Time <= plusGrace(schedule[d])
<1> DEFINE shift == schedule[d]
           base == d * DayLength
<1>1. /\ shift \in Shifts
      /\ punchAt + timezone <= base + shift.end + shift.gracePeriodMins + DayLength
      /\ base \in Int
  BY Ranges, NextDay DEF Covers, Start, Finish, TypeOK
<1>2. plusGrace(shift) = shift.end + shift.gracePeriodMins
  BY <1>1, NoWrap, Ranges DEF plusGrace
<1>3. Day * DayLength = base + DayLength
  <2>1. (d + 1) * DayLength = base + DayLength /\ d + 1 = Day
    BY NextDay, Ranges DEF previousDay
  <2>2. QED
    BY <2>1
<1>4. QED
  BY <1>1, <1>2, <1>3, Ranges, DayAssumption

-----------------------------------------------------------------------------

\* What a call has read is still so where nothing changed.
CallInv ==
    /\ pc \in {"today", "yesterday", "done"} /\ settled => local = timezone
    /\ pc = "yesterday" /\ settled => /\ Day \in steady => today = schedule[Day]
                                      /\ Day \notin Days => today = None

LEMMA CallInvariant == Spec => []CallInv
<1>1. Init => CallInv
  BY DEF Init, CallInv
<1>2. ASSUME TypeOK, CallInv, [Next]_vars
      PROVE  CallInv'
  <2> USE <1>2 DEF TypeOK, CallInv, Day, tables, history
  <2>1. ASSUME NEW d \in Days, NEW s \in Shifts \cup {None}, Reschedule(d, s)
        PROVE  CallInv'
    BY <2>1 DEF Reschedule, localDateFor
  <2>2. ASSUME NEW o \in Offsets, MoveZone(o)
        PROVE  CallInv'
    BY <2>2 DEF MoveZone
  <2>3. ASSUME NEW t \in Instants, Call(t)
        PROVE  CallInv'
    BY <2>3 DEF Call
  <2>4. CASE ReadTimezone
    BY <2>4 DEF ReadTimezone
  <2>5. CASE ReadToday
    BY <2>5 DEF ReadToday, Assigned, localDateFor
  <2>6. CASE ReadYesterday
    BY <2>6 DEF ReadYesterday
  <2>7. CASE Return
    BY <2>7 DEF Return
  <2>8. CASE UNCHANGED vars
    BY <2>8 DEF vars, localDateFor
  <2>9. QED
    BY <2>1, <2>2, <2>3, <2>4, <2>5, <2>6, <2>7, <2>8 DEF Next
<1>3. QED
  BY <1>1, <1>2, AttributionTypeCorrect, PTL DEF Spec

\* A step that does not answer: it can only make the premises fail.
LEMMA Answered ==
  ASSUME TypeOK, [Next]_vars, ~ReadYesterday, pc' = "done", settled'
  PROVE  /\ pc = "done" /\ settled
         /\ UNCHANGED <<punchAt, timezone, answer>>
         /\ steady' \subseteq steady
         /\ \A d \in steady' : schedule'[d] = schedule[d]
<1>1. CASE \E d \in Days, s \in Shifts \cup {None} : Reschedule(d, s)
  BY <1>1 DEF Reschedule, TypeOK
<1>2. CASE UNCHANGED vars
  BY <1>2 DEF vars, tables, history
<1>3. QED
  BY <1>1, <1>2 DEF Next, MoveZone, Call, ReadTimezone, ReadToday, Return

\* The statement that answers, when the branch kept its time zone.
LEMMA Answering ==
  ASSUME TypeOK, CallInv, ReadYesterday, settled
  PROVE  /\ UNCHANGED <<schedule, timezone, punchAt, steady>>
         /\ answer' = Chosen(today, Assigned(previousDay(Day)), Time)
         /\ Day \in steady => today = schedule[Day]
         /\ Day \notin Days => today = None
  BY DEF CallInv, ReadYesterday, Day, Time, tables, history

\* A punch in the time of one scheduled shift is attributed to that shift.
THEOREM CoveredAttributed == Spec => []CoveredIsAttributed
<1>1. Init => CoveredIsAttributed
  BY DEF Init, CoveredIsAttributed
<1>2. ASSUME TypeOK, CallInv, CoveredIsAttributed, [Next]_vars
      PROVE  CoveredIsAttributed'
  <2> SUFFICES ASSUME (pc = "done" /\ settled)', NEW d \in Days,
                      Covers(d)',
                      \A e \in Relevant' \cup {d} : Plain(e)' /\ e \in steady',
                      \A e \in Relevant' \ {d} : ~Covers(e)'
               PROVE  (answer = schedule[d])'
    BY DEF CoveredIsAttributed
  <2>1. CASE ~ReadYesterday
    <3>1. /\ pc = "done" /\ settled
          /\ UNCHANGED <<punchAt, timezone, answer>>
          /\ steady' \subseteq steady
          /\ \A e \in steady' : schedule'[e] = schedule[e]
      BY <1>2, <2>1, Answered
    <3>2. Relevant' = Relevant
      BY <3>1 DEF Relevant, localDateFor, previousDay
    <3>3. \A e \in Relevant \cup {d} : /\ e \in steady /\ schedule'[e] = schedule[e]
                                       /\ Covers(e)' <=> Covers(e)
                                       /\ Plain(e)' <=> Plain(e)
      BY <3>1, <3>2 DEF Covers, Plain, Start, Finish
    <3>4. answer = schedule[d]
      BY <1>2, <3>1, <3>2, <3>3 DEF CoveredIsAttributed
    <3>5. QED
      BY <3>1, <3>3, <3>4
  <2>2. CASE ReadYesterday
    <3>1. settled
      BY <2>2 DEF ReadYesterday, history
    <3>2. /\ UNCHANGED <<schedule, timezone, punchAt, steady>>
          /\ answer' = Chosen(today, Assigned(previousDay(Day)), Time)
          /\ Day \in steady => today = schedule[Day]
      BY <1>2, <2>2, <3>1, Answering
    <3>3. /\ Covers(d)
          /\ \A e \in Relevant \cup {d} : Plain(e) /\ e \in steady
          /\ \A e \in Relevant \ {d} : ~Covers(e)
      BY <3>2 DEF Relevant, Covers, Plain, Start, Finish
    <3>4. Relevant = {Day, previousDay(Day)} \cap Days
      BY DEF Relevant, Day
    <3>5. CASE d = previousDay(Day) /\ schedule[d].isOvernight /\ Time <= plusGrace(schedule[d])
      BY <3>2, <3>3, <3>5 DEF Chosen, Assigned, Covers
    <3>6. CASE d = Day
      <4>1. previousDay(Day) # Day
        BY <1>2, Ranges DEF previousDay
      <4>2. today = schedule[d]
        BY <3>2, <3>3, <3>6
      <4>3. CASE previousDay(Day) \notin Days
        BY <3>2, <4>2, <4>3 DEF Chosen, Assigned
      <4>4. CASE previousDay(Day) \in Days
        <5>1. ~Covers(previousDay(Day)) /\ Plain(previousDay(Day))
          BY <3>3, <3>4, <3>6, <4>1, <4>4
        <5>2. ~(/\ schedule[previousDay(Day)] # None
                /\ schedule[previousDay(Day)].isOvernight
                /\ Time <= plusGrace(schedule[previousDay(Day)]))
          BY <1>2, <4>4, <5>1, OvernightCovers
        <5>3. QED
          BY <3>2, <4>2, <4>4, <5>2 DEF Chosen, Assigned
      <4>5. QED
        BY <4>3, <4>4
    <3>7. QED
      BY <1>2, <3>3, <3>5, <3>6, CoveringDay
  <2>3. QED
    BY <2>1, <2>2
<1>3. QED
  BY <1>1, <1>2, AttributionTypeCorrect, CallInvariant, PTL DEF Spec

\* A punch in the time of a shift that stays scheduled gets a shift.
THEOREM CoveredNotLost == Spec => []CoveredIsNotLost
<1>1. Init => CoveredIsNotLost
  BY DEF Init, CoveredIsNotLost
<1>2. ASSUME TypeOK, CallInv, CoveredIsNotLost, [Next]_vars
      PROVE  CoveredIsNotLost'
  <2> SUFFICES ASSUME (pc = "done" /\ settled)', NEW d \in steady',
                      Covers(d)', Plain(d)'
               PROVE  answer' # None
    BY DEF CoveredIsNotLost
  <2>1. CASE ~ReadYesterday
    <3>1. /\ pc = "done" /\ settled
          /\ UNCHANGED <<punchAt, timezone, answer>>
          /\ d \in steady /\ schedule'[d] = schedule[d]
      BY <1>2, <2>1, Answered
    <3>2. Covers(d) /\ Plain(d)
      BY <3>1 DEF Covers, Plain, Start, Finish
    <3>3. QED
      BY <1>2, <3>1, <3>2 DEF CoveredIsNotLost
  <2>2. CASE ReadYesterday
    <3>1. settled
      BY <2>2 DEF ReadYesterday, history
    <3>2. /\ UNCHANGED <<schedule, timezone, punchAt, steady>>
          /\ answer' = Chosen(today, Assigned(previousDay(Day)), Time)
          /\ Day \in steady => today = schedule[Day]
      BY <1>2, <2>2, <3>1, Answering
    <3>3. d \in steady /\ d \in Days /\ Covers(d) /\ Plain(d) /\ schedule[d] # None
      BY <1>2, <3>2 DEF Covers, Plain, Start, Finish, TypeOK
    <3>4. CASE d = previousDay(Day) /\ schedule[d].isOvernight /\ Time <= plusGrace(schedule[d])
      BY <3>2, <3>3, <3>4 DEF Chosen, Assigned
    <3>5. CASE d = Day
      BY <3>2, <3>3, <3>5 DEF Chosen
    <3>6. QED
      BY <1>2, <3>3, <3>4, <3>5, CoveringDay
  <2>3. QED
    BY <2>1, <2>2
<1>3. QED
  BY <1>1, <1>2, AttributionTypeCorrect, CallInvariant, PTL DEF Spec

-----------------------------------------------------------------------------

\* The grace of the shift of a date ends within a day.
GraceInDay(d) == schedule[d].end + schedule[d].gracePeriodMins < DayLength

\* An overnight shift of the day before whose grace ends within the day keeps
\* the punch until then, even against a shift of the day of the punch that has
\* begun, and whatever happens to the other dates (lines 246-262).
OvernightUntilGraceInDay ==
    pc = "done" /\ settled =>
        \A d \in steady :
            (/\ Covers(d)
             /\ schedule[d].isOvernight
             /\ d = previousDay(localDateFor(punchAt, timezone))
             /\ GraceInDay(d))
            => answer = schedule[d]

\* OvernightUntilGrace fails only where the grace passes midnight.
THEOREM OvernightKept == Spec => []OvernightUntilGraceInDay
<1>1. Init => OvernightUntilGraceInDay
  BY DEF Init, OvernightUntilGraceInDay
<1>2. ASSUME TypeOK, CallInv, OvernightUntilGraceInDay, [Next]_vars
      PROVE  OvernightUntilGraceInDay'
  <2> SUFFICES ASSUME (pc = "done" /\ settled)', NEW d \in steady',
                      Covers(d)', schedule'[d].isOvernight, GraceInDay(d)',
                      d = previousDay(localDateFor(punchAt, timezone))'
               PROVE  answer' = schedule'[d]
    BY DEF OvernightUntilGraceInDay
  <2>1. CASE ~ReadYesterday
    <3>1. /\ pc = "done" /\ settled
          /\ UNCHANGED <<punchAt, timezone, answer>>
          /\ d \in steady /\ schedule'[d] = schedule[d]
      BY <1>2, <2>1, Answered
    <3>2. /\ Covers(d) /\ schedule[d].isOvernight /\ GraceInDay(d)
          /\ d = previousDay(localDateFor(punchAt, timezone))
      BY <3>1 DEF Covers, GraceInDay, Start, Finish, localDateFor, previousDay
    <3>3. QED
      BY <1>2, <3>1, <3>2 DEF OvernightUntilGraceInDay
  <2>2. CASE ReadYesterday
    <3>1. settled
      BY <2>2 DEF ReadYesterday, history
    <3>2. /\ UNCHANGED <<schedule, timezone, punchAt, steady>>
          /\ answer' = Chosen(today, Assigned(previousDay(Day)), Time)
      BY <1>2, <2>2, <3>1, Answering
    <3>3. /\ d \in Days /\ d = previousDay(Day) /\ Covers(d)
          /\ schedule[d].isOvernight /\ GraceInDay(d) /\ schedule[d] # None
      BY <1>2, <3>2 DEF Covers, GraceInDay, Start, Finish, TypeOK, Day, localDateFor, previousDay
    <3>4. Time <= plusGrace(schedule[d])
      BY <1>2, <3>3, OvernightTime DEF GraceInDay
    <3>5. QED
      BY <3>2, <3>3, <3>4 DEF Chosen, Assigned
  <2>3. QED
    BY <2>1, <2>2
<1>3. QED
  BY <1>1, <1>2, AttributionTypeCorrect, CallInvariant, PTL DEF Spec

\* A punch is given to the shift of the day before only while that shift lasts,
\* and else to what is scheduled for its own local day: if the assignments of
\* both dates stay, no third one, and none that is over, is the answer.
YesterdayOnlyWhileItLasts ==
    pc = "done" /\ settled =>
        LET day == localDateFor(punchAt, timezone)
            before == previousDay(day)
        IN  (Relevant \subseteq steady /\ answer # Assigned(day)) =>
                /\ before \in Days
                /\ answer = schedule[before]
                /\ answer # None /\ answer.isOvernight
                /\ Plain(before) => Covers(before)

\* The answer is the shift of the local day, or one that is not over.
THEOREM YesterdayLasts == Spec => []YesterdayOnlyWhileItLasts
<1>1. Init => YesterdayOnlyWhileItLasts
  BY DEF Init, YesterdayOnlyWhileItLasts
<1>2. ASSUME TypeOK, CallInv, YesterdayOnlyWhileItLasts, [Next]_vars
      PROVE  YesterdayOnlyWhileItLasts'
  <2> DEFINE Before == previousDay(Day)
  <2> SUFFICES ASSUME (pc = "done" /\ settled)', Relevant' \subseteq steady',
                      answer' # (Assigned(Day))'
               PROVE  (/\ Before \in Days
                       /\ answer = schedule[Before]
                       /\ answer # None /\ answer.isOvernight
                       /\ Plain(Before) => Covers(Before))'
    BY DEF YesterdayOnlyWhileItLasts, Day
  <2>1. CASE ~ReadYesterday
    <3>1. /\ pc = "done" /\ settled
          /\ UNCHANGED <<punchAt, timezone, answer>>
          /\ steady' \subseteq steady
          /\ \A e \in steady' : schedule'[e] = schedule[e]
      BY <1>2, <2>1, Answered
    <3>2. Relevant' = Relevant /\ Day' = Day /\ Before' = Before
      BY <3>1 DEF Relevant, Day, localDateFor, previousDay
    <3>3. Relevant = {Day, Before} \cap Days
      BY DEF Relevant, Day
    <3>4. \A e \in {Day, Before} \cap Days : schedule'[e] = schedule[e]
      BY <3>1, <3>2, <3>3
    <3>5. (Assigned(Day))' = Assigned(Day)
      BY <3>2, <3>4 DEF Assigned
    <3>6. /\ Before \in Days
          /\ answer = schedule[Before]
          /\ answer # None /\ answer.isOvernight
          /\ Plain(Before) => Covers(Before)
      BY <1>2, <3>1, <3>2, <3>5 DEF YesterdayOnlyWhileItLasts, Day
    <3>7. schedule'[Before] = schedule[Before]
      BY <3>4, <3>6
    <3>8. (Plain(Before) => Covers(Before))'
      BY <3>1, <3>2, <3>6, <3>7 DEF Plain, Covers, Start, Finish
    <3>9. QED
      BY <3>1, <3>2, <3>6, <3>7, <3>8
  <2>2. CASE ReadYesterday
    <3>1. settled
      BY <2>2 DEF ReadYesterday, history
    <3>2. /\ UNCHANGED <<schedule, timezone, punchAt, steady>>
          /\ answer' = Chosen(today, Assigned(Before), Time)
          /\ Day \in steady => today = schedule[Day]
          /\ Day \notin Days => today = None
      BY <1>2, <2>2, <3>1, Answering
    <3>3. Day' = Day /\ Before' = Before /\ Relevant \subseteq steady
          /\ Relevant = {Day, Before} \cap Days
      BY <3>2 DEF Relevant, Day, localDateFor, previousDay
    <3>4. today = Assigned(Day) /\ (Assigned(Day))' = Assigned(Day)
      BY <3>2, <3>3 DEF Assigned
    <3>5. /\ Assigned(Before) # None /\ Assigned(Before).isOvernight
          /\ Time <= plusGrace(Assigned(Before))
          /\ answer' = Assigned(Before)
      BY <3>2, <3>4 DEF Chosen
    <3>6. Before \in Days /\ Assigned(Before) = schedule[Before]
      BY <3>5 DEF Assigned
    <3>7. Plain(Before) => Covers(Before)
      BY <1>2, <3>5, <3>6, OvernightCovers
    <3>8. (Plain(Before) => Covers(Before))'
      BY <3>2, <3>3, <3>7 DEF Plain, Covers, Start, Finish
    <3>9. QED
      BY <3>2, <3>3, <3>5, <3>6, <3>8
  <2>3. QED
    BY <2>1, <2>2
<1>3. QED
  BY <1>1, <1>2, AttributionTypeCorrect, CallInvariant, PTL DEF Spec
=============================================================================
