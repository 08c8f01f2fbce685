SPECIFICATION ConvergeSpec
CONSTANTS
    Addr <- Trio
    Links <- Ring
    MaxCost = 3
    UpdateCap = 1
    MaxFaults = 3
    MaxOvertakes = 1
PROPERTY Converges
