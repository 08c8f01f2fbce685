SPECIFICATION PacedSpec
CONSTANTS
    Addr <- Trio
    Links <- Ring
    MaxCost = 3
    UpdateCap = 2
    MaxFaults = 0
    MaxOvertakes = 0
PROPERTY ChangeIsAnnounced
