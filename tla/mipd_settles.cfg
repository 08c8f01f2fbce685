SPECIFICATION FairSpec
CONSTANTS
    p1 = p1
    p2 = p2
    p3 = p3
    p4 = p4
    Addr <- Nodes
    Links <- Line
    Packet <- Mixed
    Src <- MixedSrc
    Dst <- MixedDst
    Asked <- MixedAsked
    Via <- Unsettled
    MaxTtl = 3
    CacheSize = 4
    MaxLosses = 0
    MaxExits <- NoExit
INVARIANT AnswersMatchQueue
PROPERTIES Settles Arrives
CHECK_DEADLOCK FALSE
