SPECIFICATION FairSpec
CONSTANTS
    c1 = c1
    c2 = c2
    alice = alice
    bob = bob
    None = None
    Conns <- TwoConns
    Usernames <- TwoNames
    DefaultUsers <- Alice
    QueueCap = 1
    Talkers <- OneConn
    MaxInputs = 3
PROPERTIES
    ConnectionsLeave
    OfflineEndsOrStarves
    RenameEnds
CHECK_DEADLOCK FALSE
