SPECIFICATION FairSpec
CONSTANTS
    u1 = u1
    u2 = u2
    w1 = w1
    w2 = w2
    w3 = w3
    w4 = w4
    NoUser = NoUser
    NoSocket = NoSocket
    Users = {u1, u2}
    Sockets = {w1, w2, w3}
    MaxLogins = 2
    MaxDrops = 3
    MaxReloads = 2
INVARIANT LiveSocketIsCurrent
INVARIANT NeverGivesUp
INVARIANT ChainsBounded
PROPERTY ConnectedInTheEnd
PROPERTY SettlesDown
CHECK_DEADLOCK FALSE
