SPECIFICATION Spec
CONSTANTS
    Emails = {root, adm}
    SuperAdmin = root
    Companies = {c1}
    Requests = {r1, r2}
    Grants = {g1}
    AccessTtl = 1
    RefreshTtl = 2
    ImpersonationTtl = 1
    MaxTtl = 1
    MaxClock = 1
    None = None
SYMMETRY RequestSymmetry
INVARIANTS
    TypeOK
    TrailIsTrue
PROPERTIES
    SpentIsRefused
    LoggedOutIsRefused
    ImplementsSessions
CHECK_DEADLOCK FALSE
