CONSTANTS
    Devices = {d1, d2}
    Sockets = {s1, s2}
    Processes = {p1, p2}
    Commands = {k1}
    DeviceTenant = FALSE
    None = None
SPECIFICATION Spec
PROPERTIES
    ValidKeyIsAccepted
