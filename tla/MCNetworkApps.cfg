SPECIFICATION Spec
CONSTANTS
    j1 = j1
    j2 = j2
    j3 = j3
    Joins <- ThreeJoins
    MaxFaults = 2
INVARIANTS
    TypeOK
    NoRestartLost
    NeverSkips
PROPERTIES
    PicksUp
    NextJoinHeals
