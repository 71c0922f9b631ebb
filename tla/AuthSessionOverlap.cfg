SPECIFICATION Spec
CONSTANTS
    Uids = {a}
    SignIns = {i1}
    SignUps = {u1}
    Revocations = {r1}
    Refreshes = {t1}
    Main = Main
    Boot = Boot
    None = None
    MaxListeners = 1
    MaxLaunches = 2
    MaxTokens = 1
    Overlap = TRUE
    RefreshRaces = TRUE
INVARIANTS
    TypeOK
    SignInShown
    ProfileEnsured
SYMMETRY Symmetry
CHECK_DEADLOCK FALSE
