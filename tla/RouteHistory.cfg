SPECIFICATION Spec
CONSTANTS
    Clients = {c1}
    Uids = {p, q}
    Paths = {monday, tuesday}
    None = None
    Absent = Absent
    Denials = {"read"}
    MaxPoints = 1
    MaxViews = 2
    MaxLoads = 3
INVARIANTS
    TypeOK
    RouteOfLastLoad
    RouteNeverShrinks
CHECK_DEADLOCK FALSE
