SPECIFICATION FairSpec
CONSTANTS
    Clients = {c1}
    Uids = {a}
    ProfilePath = ProfilePath
    Paths = {c1, ProfilePath}
    None = None
    Absent = Absent
    Blank = Blank
    Denials = {}
    MaxSignIns = 1
    MaxUpdates = 0
    MaxViews = 0
    Known = {a}
    Overlap = FALSE
PROPERTIES
    ExistingKept
CHECK_DEADLOCK FALSE
