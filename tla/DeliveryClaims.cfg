SPECIFICATION Spec
CONSTANTS
    s1 = s1
    s2 = s2
    t1 = t1
    w1 = w1
    t2 = t2
    alice = alice
    bob = bob
    None = None
    Servers <- TwoServers
    Conns <- ThreeConns
    Tcp <- TcpConns
    Home <- HomeOf
    Names <- TwoNames
    FirstName <- NameOf
    Lines <- CrossLines
    MaxMessages = 1
    MaxTroubles = 0
INVARIANT ReachesAllServers
CHECK_DEADLOCK FALSE
