SPECIFICATION Spec
CONSTANTS
    m1 = m1
    m2 = m2
    x1 = x1
    x2 = x2
    y1 = y1
    NoMatch = NoMatch
    Matches = {m1, m2}
    Messages = {x1, x2, y1}
    Own = {y1}
    MatchOf <- TheirMatches
    MaxPushes = 2
    MaxOpens = 2
    MaxLists = 2
INVARIANT NothingMissing
INVARIANT BubblesBelong
INVARIANT ListIsFresh
CHECK_DEADLOCK FALSE
