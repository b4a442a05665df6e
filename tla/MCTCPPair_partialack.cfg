\* Two segments of one window lost.
CONSTANTS
    A = A
    B = B
    Active <- OnlyA
    ISS <- MCISS
    ToSend <- MCToSend
    Closers <- OnlyA
    Readers <- Nobody
    ToSendA = 5
    ToSendB = 0
    IssA = 14
    IssB = 3
    SEQ_MOD = 16
    Capacity = 5
    SendCapacity = 5
    RetxCapacity = 8
    MAX_RETRANSMITS = 2
    MSS = 1
    INITIAL_WINDOW_CAP = 5
    MAX_CWND = 5
    DEFAULT_PEER_MSS = 1
    MIN_PEER_MSS = 1
    MAX_WINDOW_FIELD = 15
    WScale = 0
    DelayedAck = FALSE
    MaxFaults = 2
    FaultsFromStart = FALSE
    MaxNet = 8
    CloseDrained = TRUE
    MayAbort = FALSE
SPECIFICATION Spec
PROPERTIES
    PartialAckStaysInRecovery
CHECK_DEADLOCK FALSE
