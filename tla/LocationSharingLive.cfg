SPECIFICATION FairSpec
CONSTANTS
    Clients = {c1, c2}
    Uids = {a}
    LocationPath = LocationPath
    Paths = {LocationPath}
    None = None
    Absent = Absent
    Denials = {"read"}
    MaxSignIns = 2
    MaxMoves = 1
    MaxManagers = 2
    MaxCalls = 2
PROPERTY
    PositionsSpread
CHECK_DEADLOCK FALSE
