SPECIFICATION LimiterSpec
CONSTANTS
    i1 = i1
    PresentedIds = {i1}
    OverlongIds = {}
    Limits <- MCLimits
    Mixes <- MCGuessMixes
    Callers = {h1, h2}
    MaxInstant = 0
INVARIANTS
    WrongEntriesWithinBudget
CHECK_DEADLOCK FALSE
