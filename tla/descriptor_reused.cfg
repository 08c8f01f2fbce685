SPECIFICATION Spec
CONSTANTS
    r = r
    p = p
    s = s
    None = None
    Client <- Three
    Kind <- ThreeKind
    Silent = {}
    MaxUsds = 2
    Backlog = 2
    MaxUnread = 1
INVARIANT RoutingUsdIsRouting
CHECK_DEADLOCK FALSE
