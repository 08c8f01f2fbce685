SPECIFICATION Spec
CONSTANTS
    p1 = p1
    p2 = p2
    p3 = p3
    p4 = p4
    Addr <- Nodes
    Links <- Line
    Packet <- Burst
    Src <- BurstSrc
    Dst <- BurstDst
    Asked <- BurstAsked
    Via <- Routes
    MaxTtl = 3
    CacheSize = 3
    MaxLosses = 0
    MaxExits <- NoExit
PROPERTY ResponseIsCached
CHECK_DEADLOCK FALSE
