\* Two threads, one remote address, three ephemeral ports, two connections.
CONSTANTS
    Peers = {"x"}
    MaxConns = 2
    Threads = {"t1", "t2"}
    FIRST_EPHEMERAL_PORT = 1
    LAST_EPHEMERAL_PORT = 3
    ListenPort = 0
    MaxBuffered = 1
    SynMayExpire = FALSE
    LinkMayFail = TRUE
SPECIFICATION FairSpec
INVARIANTS
    LiveIsReachable
    RaisedIsForgotten
    ReturnedWasOpen
PROPERTIES
    RecvReturns
CHECK_DEADLOCK FALSE
