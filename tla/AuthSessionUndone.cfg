SPECIFICATION Spec
CONSTANTS
    Uids = {a}
    SignIns = {i1}
    SignUps = {}
    Revocations = {}
    Refreshes = {t1}
    Main = Main
    Boot = Boot
    None = None
    MaxListeners = 1
    MaxLaunches = 1
    MaxTokens = 1
    Overlap = FALSE
    RefreshRaces = TRUE
INVARIANTS
    SessionDurable
CHECK_DEADLOCK FALSE
