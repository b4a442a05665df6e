\* A perfect wire and an application that does not read.
CONSTANTS
    A = A
    B = B
    Active <- OnlyA
    ISS <- MCISS
    ToSend <- MCToSend
    Closers <- Nobody
    Readers <- Nobody
    ToSendA = 3
    ToSendB = 0
    IssA = 14
    IssB = 3
    SEQ_MOD = 16
    Capacity = 2
    SendCapacity = 3
    RetxCapacity = 8
    MAX_RETRANSMITS = 2
    MSS = 1
    INITIAL_WINDOW_CAP = 2
    MAX_CWND = 3
    DEFAULT_PEER_MSS = 1
    MIN_PEER_MSS = 1
    MAX_WINDOW_FIELD = 15
    WScale = 0
    DelayedAck = FALSE
    MaxFaults = 0
    FaultsFromStart = TRUE
    MaxNet = 4
    CloseDrained = TRUE
    MayAbort = FALSE
SPECIFICATION Spec
INVARIANTS
    SlowReaderIsKept
CHECK_DEADLOCK FALSE
