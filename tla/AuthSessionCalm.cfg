SPECIFICATION FairSpec
CONSTANTS
    Uids = {a, b}
    SignIns = {i1}
    SignUps = {u1}
    Revocations = {}
    Refreshes = {t1}
    Main = Main
    Boot = Boot
    None = None
    MaxListeners = 2
    MaxLaunches = 2
    MaxTokens = 1
    Overlap = FALSE
    RefreshRaces = FALSE
INVARIANTS
    SessionShown
    MapOnlyIfAuthenticated
    SessionDurable
    
PROPERTIES
    RequestAnswered
    ImplementsSession
CHECK_DEADLOCK FALSE
