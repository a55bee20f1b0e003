SPECIFICATION LimiterSpec
CONSTANTS
    i1 = i1
    PresentedIds = {i1}
    OverlongIds = {}
    Limits <- MCLimits
    Mixes <- MCMixes
    Callers = {h1, h2}
    MaxInstant = 1
INVARIANTS
    AtMostTwiceTheBudget
CHECK_DEADLOCK FALSE
