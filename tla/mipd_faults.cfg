SPECIFICATION Spec
CONSTANTS
    p1 = p1
    p2 = p2
    p3 = p3
    p4 = p4
    Addr <- Nodes
    Links <- Line
    Packet <- Few
    Src <- FewSrc
    Dst <- FewDst
    Asked <- FewAsked
    Via <- Bouncing
    MaxTtl = 3
    CacheSize = 4
    MaxLosses = 1
    MaxExits <- FirstExitsTwice
INVARIANTS
    TypeOK
    AtMostOneCopy
    WithinBudget
    OneExchangePerWaiter
    AnswersTrailQueue
    LossPerFrame
PROPERTIES Relays LagIsForever
CHECK_DEADLOCK FALSE
