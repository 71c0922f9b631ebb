SPECIFICATION Spec
CONSTANTS
    Clients = {c1, c2}
    Uids = {a, b}
    LocationPath = LocationPath
    Paths = {LocationPath}
    None = None
    Absent = Absent
    Denials = {}
    MaxSignIns = 2
    MaxMoves = 2
    MaxManagers = 2
    MaxCalls = 2
SYMMETRY Symmetry
INVARIANTS
    TypeOK
    MapCurrent
    OwnPositionPublished
CHECK_DEADLOCK FALSE
