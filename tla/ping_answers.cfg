SPECIFICATION FairSpec
CONSTANTS
    a = a
    b = b
    c = c
    d = d
    s = s
    t = t
    None = None
    Addr <- Nodes
    Client <- Clients
    Server <- Servers
    Node <- Home
    Target <- Host
    Text <- Texts
    Punctual = {c, d}
    Exiting = {4}
    Closing = {1}
    Near <- Neighbours
    MaxStarted = 2
    MaxStrays = 1
    Routingd = Routingd
INVARIANTS TypeOK OwnAnswer OneCopy 
PROPERTY Answered
CHECK_DEADLOCK FALSE
