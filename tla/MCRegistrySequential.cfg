SPECIFICATION Spec
CONSTANTS
    u1 = u1
    u2 = u2
    u3 = u3
    u4 = u4
    u5 = u5
    w1 = w1
    w2 = w2
    NoID = NoID
    UUID <- FiveIDs
    Workers <- OneWorker
    LastIP = 4
    PoolSize = 3
    Forceable <- EveryForm
    Covers <- CoversTwoEach
    MaxFaults = 2
SYMMETRY IDSymmetry
CHECK_DEADLOCK FALSE
INVARIANTS
    HandedIsConnected
    CertsKept
    PendingJoinsFit
