CONSTANTS
    Devices = {d1, d2}
    Sockets = {s1, s2}
    Processes = {p1, p2}
    Commands = {k1}
    DeviceTenant = TRUE
    None = None
SPECIFICATION FairSpec
INVARIANTS
    TypeOK
    KnownIsAuthenticated
    SoleConnectionIsKnown
    SentWasReceived
PROPERTIES
    HandshakeEnds
    ImplementsQueue
