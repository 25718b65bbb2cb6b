CONSTANTS
    e1 = e1
    c1 = c1
    c2 = c2
    Employees = {e1}
    Calls = {c1, c2}
    None = None
    MaxClock = 1
    DayLength = 2
    Midnights = {0}
    HundredthHour = 2
SPECIFICATION Spec
INVARIANTS
    CheckOutIsSubsequent
CHECK_DEADLOCK FALSE
