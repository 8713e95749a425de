SPECIFICATION Spec
CONSTANTS
    r1 = r1
    r2 = r2
    r3 = r3
    u1 = u1
    u2 = u2
    g1 = g1
    None = None
    Requests <- ThreeRequests
    Users <- TwoUsers
    Groups <- OneGroup
SYMMETRY Symmetry
INVARIANTS
    FriendsSymmetric
    AcknowledgedIsDurable
    CreatorIsMember
    ToldIsCreator
CHECK_DEADLOCK FALSE
