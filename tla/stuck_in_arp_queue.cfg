SPECIFICATION FairSpec
CONSTANTS
    p1 = p1
    p2 = p2
    p3 = p3
    p4 = p4
    Addr <- Nodes
    Links <- Line
    Packet <- Pair
    Src <- PairSrc
    Dst <- PairDst
    Asked <- PairAsked
    Via <- Routes
    MaxTtl = 3
    CacheSize = 4
    MaxLosses = 1
    MaxExits <- NoExit
PROPERTY Released
CHECK_DEADLOCK FALSE
