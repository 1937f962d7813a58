SPECIFICATION RouteSpec
CONSTANTS
    NumPlanes = 2
    NumSpines = 2
    NumLeaves = 3
    MaxCuts = 1
    Specs <- MCSpecs
    MaxCommands = 2
    MaxDockerFails = 1
INVARIANTS
    RightPlace
    OnItsPath
    LostByTheEv
    ProbeCoversData
    BothWays
PROPERTIES
    EveryWalkEnds
CHECK_DEADLOCK FALSE
