SPECIFICATION FairSpec
CONSTANTS
    u1 = u1
    u2 = u2
    r1 = r1
    r2 = r2
    t1 = t1
    t2 = t2
    t3 = t3
    NoSwipe = NoSwipe
    Users = {u1, u2}
    Requests = {r1, r2}
    Tasks = {t1, t2, t3}
    Prefetch = 2
    FaultKinds = {"processor", "connection"}
    MaxFaults = 2
PROPERTY KeepsPromise
PROPERTY NotifiedUnlessFailure
CHECK_DEADLOCK FALSE
