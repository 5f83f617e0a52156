SPECIFICATION Spec
CONSTANTS
    u1 = u1
    u2 = u2
    u3 = u3
    c1 = c1
    c2 = c2
    c3 = c3
    NoUser = NoUser
    Users = {u1, u2}
    Conns = {c1, c2, c3}
    Tokens <- SharedTokens
    TTL = 2
    ReadTimeout = 4
    MaxFaults = 0
INVARIANT HeartbeatResetsTTL
