SPECIFICATION Spec
CONSTANTS
    Ids = {i1, i2, i3}
    Veteran = i1
    c1 = c1
    c2 = c2
    Codes = {c1, c2}
    u1 = u1
    u2 = u2
    Units = {u1, u2}
    Founding = {u1}
    Requests = {r1, r2}
    Files <- OneFile
    None = None
    Gone = Gone
SYMMETRY NameSymmetry
INVARIANTS
    TypeOK
    ImagesAreExact
    ImportCompletes
PROPERTIES
    QuietRemoval
CHECK_DEADLOCK FALSE
