CONSTANTS
    Employees = {e1, e2}
    Captures = {k1, u1}
    Keyed = {k1}
    Posts = {p1, p2}
    MaxCopies = 2
    None = None
SPECIFICATION FairSpec
INVARIANTS
    TypeOK
    AtMostOneRow
    AcknowledgedIsStored
    
PROPERTIES
    ImplementsDelivery
    EventuallyAcknowledged
CHECK_DEADLOCK FALSE
