SPECIFICATION Spec
CONSTANTS
    p1 = p1
    p2 = p2
    p3 = p3
    p4 = p4
    NoProfile = NoProfile
    Profiles = {p1, p2, p3, p4}
    Limit = 4
    MaxGestures = 1
    MaxLoads = 1
INVARIANT TopCardIsLast
CHECK_DEADLOCK FALSE
