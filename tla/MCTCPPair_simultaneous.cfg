\* Both sides call connect on a perfect wire.
CONSTANTS
    A = A
    B = B
    Active <- Both
    ISS <- MCISS
    ToSend <- MCToSend
    Closers <- Nobody
    Readers <- Both
    ToSendA = 0
    ToSendB = 0
    IssA = 14
    IssB = 3
    SEQ_MOD = 16
    Capacity = 3
    SendCapacity = 3
    RetxCapacity = 8
    MAX_RETRANSMITS = 2
    MSS = 1
    INITIAL_WINDOW_CAP = 2
    MAX_CWND = 3
    DEFAULT_PEER_MSS = 1
    MIN_PEER_MSS = 1
    MAX_WINDOW_FIELD = 15
    WScale = 0
    DelayedAck = FALSE
    MaxFaults = 0
    FaultsFromStart = TRUE
    MaxNet = 4
    CloseDrained = TRUE
    MayAbort = FALSE
SPECIFICATION FairSpec
PROPERTIES
    Opens
CHECK_DEADLOCK FALSE
