SPECIFICATION Spec
CONSTANTS
    u1 = u1
    u2 = u2
    u3 = u3
    i1 = i1
    i2 = i2
    s1 = s1
    s2 = s2
    NoSocket = NoSocket
    Users = {u1, u2}
    Instances = {i1}
    Sockets = {s1, s2}
    Notices = {}
    Messages = {}
    Matches <- OneMatch
    FaultKinds = {}
    MaxFaults = 0
INVARIANT ConnectedIsReachable
CHECK_DEADLOCK FALSE
