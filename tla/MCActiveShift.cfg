CONSTANTS
    DayLength = 6
    Days <- MCDays
    Instants <- MCInstants
    Offsets <- MCOffsets
    Shifts <- MCShifts
    None = None
SPECIFICATION Spec
INVARIANTS
    TypeOK
    CoveredIsAttributed
    CoveredIsNotLost
