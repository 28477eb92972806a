SPECIFICATION Spec
CONSTANTS
    u1 = u1
    u2 = u2
    u3 = u3
    u4 = u4
    u5 = u5
    w1 = w1
    w2 = w2
    NoID = NoID
    UUID <- FourIDs
    Workers <- TwoWorkers
    LastIP = 3
    PoolSize = 3
    Forceable <- PoolAndSpelling
    Covers <- CoversTwoEach
    MaxFaults = 1
SYMMETRY IDSymmetry
CHECK_DEADLOCK FALSE
INVARIANTS
    TypeOK
    UniqueAddresses
    UniqueSubnets
    NoSharedRoutes
