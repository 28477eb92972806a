SPECIFICATION ReconcileSpec
CONSTANTS
    s1 = s1
    s2 = s2
    c1 = c1
    None = None
    Keys <- OneKey
    Locals <- TwoLocals
    Containers <- AppOnly
    Choices <- ValidAndNot
    ClientKeys <- Nobody
    Agents <- TwoServers
    Nodes <- TwoServers
    Workers <- TwoServers
    Console <- Nobody
    Params <- Nobody
    IPHosts = {"gateway", "0.0.0.0"}
    GatewayIP = "gateway"
    AnyHost = "0.0.0.0"
    MaxFaults = 1
PROPERTIES
    ContestedServed
    UnlabelledConverge
