SPECIFICATION ProcessSpec
CONSTANTS
    MaxConns = 2
    s1 = s1
    p1 = p1
    p2 = p2
    None = None
    Sids <- OneSid
    Polls <- TwoPolls
    Cap = 1
    Batch = 2
    MaxLines = 4
INVARIANTS
    LateOnlyIfMissed
    PanicOnlyIfServeFailed
    NothingLost
    InOrderOnce
PROPERTIES
    ShutdownReturns
    PollReturns
    ReaderEnds
CHECK_DEADLOCK FALSE
