SPECIFICATION FairSpec
CONSTANTS
    r = r
    p = p
    s = s
    None = None
    Client <- Three
    Kind <- ThreeKind
    Silent = {s}
    MaxUsds = 2
    Backlog = 2
    MaxUnread = 2
INVARIANTS TypeOK AcceptedAsSaid LostWithListener OnlyDaemonIsReached
PROPERTIES Attended Heard
CHECK_DEADLOCK FALSE
