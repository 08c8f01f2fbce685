SPECIFICATION CalmSpec
CONSTANTS
    Addr <- Trio
    Links <- Ring
    MaxCost = 3
    UpdateCap = 3
    MaxFaults = 0
    MaxOvertakes = 0
INVARIANTS
    CalmLoopFree
    SilenceIsExact
PROPERTY CalmCostsFall
CONSTRAINT
    AtMostThreeInFlight
