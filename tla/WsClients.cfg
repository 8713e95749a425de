SPECIFICATION FairSpec
CONSTANTS
    w1 = w1
    w2 = w2
    w3 = w3
    q1 = q1
    q2 = q2
    t1 = t1
    alice = alice
    nick = nick
    None = None
    Ended = Ended
    Clients <- ThreeClients
    Requests <- TwoRequests
    Tokens <- OneToken
    Accounts <- Alice
    Nicknames <- Nick
INVARIANTS
    KeyIsClientName
    GhostOnlyAfterRename
    LiveIsRegistered
PROPERTIES
    CancelledEnds
CHECK_DEADLOCK FALSE
