SPECIFICATION FairSpec
CONSTANTS
    c1 = c1
    c2 = c2
    alice = alice
    bob = bob
    None = None
    Conns <- TwoConns
    Usernames <- Alice
    DefaultUsers <- Alice
    QueueCap = 1
    Talkers <- TwoConns
    MaxInputs = 5
SYMMETRY ConnSymmetry
INVARIANTS
    TypeOK
    OneKeyPerUser
    CrashOnlyAfterLateKick
    LiveUsersReachable
    GhostOnlyAfterLateKick
CHECK_DEADLOCK FALSE
