\* One fault during the handshake, and the server speaks first.
CONSTANTS
    A = A
    B = B
    Active <- OnlyA
    ISS <- MCISS
    ToSend <- MCToSend
    Closers <- Nobody
    Readers <- Both
    ToSendA = 0
    ToSendB = 1
    IssA = 14
    IssB = 3
    SEQ_MOD = 16
    Capacity = 3
    SendCapacity = 3
    RetxCapacity = 8
    MAX_RETRANSMITS = 2
    MSS = 1
    INITIAL_WINDOW_CAP = 2
    MAX_CWND = 3
    DEFAULT_PEER_MSS = 1
    MIN_PEER_MSS = 1
    MAX_WINDOW_FIELD = 15
    WScale = 0
    DelayedAck = FALSE
    MaxFaults = 1
    FaultsFromStart = TRUE
    MaxNet = 4
    CloseDrained = TRUE
    MayAbort = FALSE
SPECIFICATION FairSpec
PROPERTIES
    Delivered
CHECK_DEADLOCK FALSE
