SPECIFICATION Spec
CONSTANTS
    u1 = u1
    u2 = u2
    r1 = r1
    r2 = r2
    t1 = t1
    t2 = t2
    NoSwipe = NoSwipe
    Users = {u1, u2}
    Requests = {r1, r2}
    Tasks = {t1, t2}
    Prefetch = 2
    FaultKinds = {}
    MaxFaults = 0
SYMMETRY Symmetry
INVARIANT OneMatchPerPair
CHECK_DEADLOCK FALSE
