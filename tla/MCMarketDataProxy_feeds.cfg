SPECIFICATION Spec

CONSTANTS
    s1 = s1
    s2 = s2
    s3 = s3
    c1 = c1
    c2 = c2
    u1 = u1
    Nobody = Nobody
    Symbols = {s1, s2, s3}
    Modes = {1, 2}
    MaxSymbols = 1
    MaxConnections = 2
    Clients = {c1, c2}
    Users = {u1}
    MaxFailures = 1

SYMMETRY ProxySymmetry

INVARIANTS
    SlotsMatchSymbols
    ServerFollowsClients

PROPERTIES
    NoFeedLost
    SlotsAreFreed
    NoOrphanStreams
