SPECIFICATION Spec
CONSTANTS
    t1 = t1
    t2 = t2
    alice = alice
    bob = bob
    r1 = r1
    r2 = r2
    None = None
    Tokens <- TwoTokens
    Usernames <- TwoNames
    Requests <- TwoRequests
    TTLs <- EverAndShort
SYMMETRY Symmetry
INVARIANTS
    LifeAsCreated
    LogoutUndoneOnlyByRace
