SPECIFICATION Spec
CONSTANTS
    Uids = {a}
    SignIns = {i1, i2}
    SignUps = {}
    Revocations = {}
    Refreshes = {}
    Main = Main
    Boot = Boot
    None = None
    MaxListeners = 1
    MaxLaunches = 1
    MaxTokens = 1
    Overlap = TRUE
    RefreshRaces = TRUE
INVARIANTS
    MapOnlyIfAuthenticated
SYMMETRY Symmetry
CHECK_DEADLOCK FALSE
