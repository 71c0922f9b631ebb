SPECIFICATION FairSpec
CONSTANTS
    Clients = {c1}
    Uids = {a, b}
    ProfilePath = ProfilePath
    Paths = {c1, ProfilePath}
    None = None
    Absent = Absent
    Blank = Blank
    Denials = {}
    MaxSignIns = 2
    MaxUpdates = 0
    MaxViews = 0
    Known = {}
    Overlap = TRUE
PROPERTIES
    ProfileEventually
    WritesSettle
CHECK_DEADLOCK FALSE
