SPECIFICATION Spec
CONSTANTS
    Clients = {c1}
    Uids = {a, b}
    DeviceIds = {c1}
    ProfilePath = ProfilePath
    Paths = {c1, ProfilePath}
    None = None
    Absent = Absent
    Denials = {}
    MaxAppears = 1
    MaxScans = 0
    MaxDeletes = 1
    MaxNames = 0
INVARIANTS
    DeletedGone
CHECK_DEADLOCK FALSE
