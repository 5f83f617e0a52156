SPECIFICATION StatSpec
CONSTANTS
    u1 = u1
    u2 = u2
    r1 = r1
    r2 = r2
    r3 = r3
    t1 = t1
    t2 = t2
    t3 = t3
    NoSwipe = NoSwipe
    Anonymous = Anonymous
    Users = {u1, u2}
    Requests = {r1, r2, r3}
    Tasks = {t1, t2, t3}
    Prefetch = 2
    FaultKinds = {"publish", "api", "call", "processor", "connection"}
    MaxFaults = 1
SYMMETRY Symmetry
INVARIANT TypeOK
INVARIANT MatchesAreMutual
INVARIANT NoMatchForgotten
INVARIANT EventInOnePlace
INVARIANT NotifiedOnce
INVARIANT AnnouncedAfterNotices
INVARIANT ResponsesTruthful
PROPERTY StatsAddUp
PROPERTY ImplementsMatchmaking
CHECK_DEADLOCK FALSE
