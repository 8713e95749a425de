SPECIFICATION FairSpec
CONSTANTS
    t1 = t1
    t2 = t2
    alice = alice
    bob = bob
    None = None
    Tokens <- TwoTokens
    Usernames <- TwoNames
    TTL = 2
    MaxTime = 5
PROPERTIES
    AccessRenews
CHECK_DEADLOCK FALSE
