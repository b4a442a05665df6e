\* A window wide enough for three duplicate acknowledgements and one byte
\* narrower than the stream, so that it closes; one fault after the handshake.
CONSTANTS
    A = A
    B = B
    Active <- OnlyA
    ISS <- MCISS
    ToSend <- MCToSend
    Closers <- OnlyA
    Readers <- Both
    ToSendA = 6
    ToSendB = 0
    IssA = 14
    IssB = 3
    SEQ_MOD = 16
    Capacity = 5
    SendCapacity = 6
    RetxCapacity = 8
    MAX_RETRANSMITS = 6
    MSS = 1
    INITIAL_WINDOW_CAP = 5
    MAX_CWND = 5
    DEFAULT_PEER_MSS = 1
    MIN_PEER_MSS = 1
    MAX_WINDOW_FIELD = 15
    WScale = 0
    DelayedAck = FALSE
    MaxFaults = 1
    FaultsFromStart = FALSE
    MaxNet = 4
    CloseDrained = TRUE
    MayAbort = FALSE
SPECIFICATION FairSpec
INVARIANTS
    NeverStuck
PROPERTIES
    RecoveryEnds
    Delivered
CHECK_DEADLOCK FALSE
