CONSTANTS
    e1 = e1
    e2 = e2
    c1 = c1
    c2 = c2
    c3 = c3
    Employees = {e1, e2}
    Calls = {c1, c2, c3}
    None = None
    MaxClock = 3
    DayLength = 2
    Midnights = {0, 1, 3}
    HundredthHour = 2
SPECIFICATION Spec
SYMMETRY Symmetry
INVARIANTS
    TypeOK
    CheckInIsItsPunch
    CheckOutIsAnotherPunch
    StoredPunchHasItsDay
    ClosedDayIsFinal
    DayIsOfItsPunches
PROPERTIES
    SequentialPunchesInOrder
    DayOnlyAdvances
    ImplementsLedger
CHECK_DEADLOCK FALSE
