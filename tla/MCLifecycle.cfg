SPECIFICATION Spec
CONSTANTS
    MaxCommands = 6
    MaxFaults = 2
    MaxRaces = 2
CHECK_DEADLOCK FALSE
INVARIANTS
    TypeOK
    CleanDown
    JoinedReport
    OrphansNeedFaults
    LockoutNeedsFault
PROPERTIES
    GatewayDownSparesServers
    RecoveryWorks
