SPECIFICATION Spec
CONSTANTS
    Clients = {c1}
    Uids = {a, b}
    ProfilePath = ProfilePath
    Paths = {c1, ProfilePath}
    None = None
    Absent = Absent
    Blank = Blank
    Denials = {}
    MaxSignIns = 2
    MaxUpdates = 2
    MaxViews = 2
    Known = {a}
    Overlap = FALSE
INVARIANTS
    TypeOK
    NameOwn
    CompleteProfile
    SavedNameKept
CHECK_DEADLOCK FALSE
