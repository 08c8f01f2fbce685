SPECIFICATION Spec
CONSTANTS
    Addr <- Nodes
    Links <- Line
    Dist <- LineDist
    MaxCost = 4
    UpdateCap = 2
    MaxFaults = 1
    MaxOvertakes = 1
INVARIANTS
    TypeOK
    NoRouteToSelf
    UsableHopIsNeighbour
    AnswerIsUsable
    NeighbourIsDirect
    CheckedInIsNeighbour
    TreeCostsExact
    LoopFree
    NoShortcut
CONSTRAINT
    AtMostTwoInFlight
