CONSTANTS
    s1 = s1
    s2 = s2
    e1 = e1
    e2 = e2
    day = day
    late = late
    night = night
    Shifts = {s1, s2}
    Employees = {e1, e2}
    Calls = {c1, c2}
    Existing <- MCExisting
    Planned <- MCPlanned
    Names = {day, late, night}
    Times = {6, 14, 22}
    Dates = {1, 2}
    MaxRange = 2
    Inputs <- ShiftInputs
    None = None
SPECIFICATION Spec
INVARIANTS
    OvernightIsDerived
CHECK_DEADLOCK FALSE
