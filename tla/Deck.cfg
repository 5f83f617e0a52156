SPECIFICATION Spec
CONSTANTS
    p1 = p1
    p2 = p2
    p3 = p3
    p4 = p4
    NoProfile = NoProfile
    Profiles = {p1, p2, p3, p4}
    Limit = 4
    MaxGestures = 4
    MaxLoads = 2
SYMMETRY Symmetry
INVARIANT TypeOK
INVARIANT DeckShown
INVARIANT NoneIsSkipped
CHECK_DEADLOCK FALSE
