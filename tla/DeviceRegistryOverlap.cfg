SPECIFICATION Spec
CONSTANTS
    Clients = {c1}
    Uids = {a}
    DeviceIds = {x, c1}
    ProfilePath = ProfilePath
    Paths = {x, c1, ProfilePath}
    None = None
    Absent = Absent
    Denials = {"write"}
    MaxAppears = 1
    MaxScans = 2
    MaxDeletes = 1
    MaxNames = 1
INVARIANTS
    TypeOK
    ListComplete
    TargetGone
CHECK_DEADLOCK FALSE
