SPECIFICATION Spec
CONSTANTS
    h1 = h1
    h2 = h2
    h3 = h3
    None = None
    Handlers <- ThreeHandlers
    MaxRetries = 2
    MaxFaults = 3
INVARIANTS
    TypeOK
    TokenUntilStored
    TokenIsSpent
    ExtraRowsNeedFaults
PROPERTIES
    RequestIsUsed
