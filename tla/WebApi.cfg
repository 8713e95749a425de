SPECIFICATION ApiSpec
CONSTANTS
    a1 = a1
    a2 = a2
    NoEntry = NoEntry
    Keys <- TwoKeys
    Limits <- ZeroToTwo
    Window = 1
    LastTick = 4
    MaxCount = 4
    historyLimit = 2
    historyMax = 3
    RawLimits = {0, 1, 4}
    MaxRows = 5
    MaxTime = 2
INVARIANTS
    WindowQuota
    RefusedOnlyAtQuota
    TwiceLimitInAnyInterval
    SkippedOnlyInTies
    RepeatedOnlyInTies
PROPERTIES
    OpenWindowKept
    PagingEnds
CHECK_DEADLOCK FALSE
