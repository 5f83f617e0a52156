SPECIFICATION CanonicalSpec
CONSTANTS
    u1 = u1
    u2 = u2
    u3 = u3
    i1 = i1
    i2 = i2
    s1 = s1
    s2 = s2
    n1 = n1
    x1 = x1
    NoSocket = NoSocket
    Users = {u1, u2, u3}
    Instances = {i1, i2}
    Sockets = {s1, s2}
    Notices = {n1}
    Messages = {x1}
    Matches <- OneMatch
    FaultKinds = {"api", "subscription", "publish", "call"}
    MaxFaults = 1
INVARIANT TypeOK
INVARIANT RegisteredIsServed
INVARIANT OnlyTheOtherMember
INVARIANT OncePerWay
PROPERTY ImplementsDelivery
PROPERTY MessageIsDelivered
PROPERTY GoneIsForgotten
CHECK_DEADLOCK FALSE
