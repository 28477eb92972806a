SPECIFICATION ReconcileSpec
CONSTANTS
    s1 = s1
    s2 = s2
    c1 = c1
    None = None
    Keys <- TwoKeys
    Locals <- OneLocal
    Containers <- AppOnly
    Choices <- Changed
    ClientKeys <- OneKey
    Agents <- OneServer
    Nodes <- ServerAndClient
    Workers <- ServerAndClient
    Console <- Nobody
    Params <- Nobody
    IPHosts = {"gateway", "0.0.0.0"}
    GatewayIP = "gateway"
    AnyHost = "0.0.0.0"
    MaxFaults = 0
INVARIANTS
    ReconcileTypeOK
    UndisturbedIsServed
PROPERTIES
    LabelsConverge
    UnlabelledConverge
    ForeignOnlyWhereNamed
    CatalogueSpec
