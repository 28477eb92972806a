SPECIFICATION ReconcileSpec
CONSTANTS
    s1 = s1
    s2 = s2
    c1 = c1
    None = None
    Keys <- TwoKeys
    Locals <- OneLocal
    Containers <- AppOnly
    Choices <- Changed
    ClientKeys <- Nobody
    Agents <- OneServer
    Nodes <- OneServer
    Workers <- OneServer
    Console <- Nobody
    Params <- Nobody
    IPHosts = {"gateway", "0.0.0.0"}
    GatewayIP = "gateway"
    AnyHost = "0.0.0.0"
    MaxFaults = 0
PROPERTIES
    ChangedLabelsApplied
