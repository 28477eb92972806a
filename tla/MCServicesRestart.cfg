SPECIFICATION Spec
CONSTANTS
    w1 = w1
    n1 = n1
    p1 = p1
    None = None
    Keys <- OddKeys
    Locals <- WebApp
    Nodes <- OneNode
    Params <- OneParam
    Workers <- OneWorker
    Console <- OneWorker
    IPHosts <- AddressHosts
    GatewayIP = "gateway"
    AnyHost = "0.0.0.0"
    MaxFaults = 2
INVARIANTS
    TypeOK
    UndisturbedIsServed
PROPERTIES
    ControlReturns
    CatalogueSpec
