\* One connection from handshake to close, two faults, aborts and connect
\* timeouts anywhere, sequence numbers that wrap in mid-stream.
CONSTANTS
    A = A
    B = B
    Active <- OnlyA
    ISS <- MCISS
    ToSend <- MCToSend
    Closers <- OnlyA
    Readers <- Both
    ToSendA = 2
    ToSendB = 0
    IssA = 14
    IssB = 3
    SEQ_MOD = 16
    Capacity = 3
    SendCapacity = 3
    RetxCapacity = 8
    MAX_RETRANSMITS = 2
    MSS = 1
    INITIAL_WINDOW_CAP = 2
    MAX_CWND = 3
    DEFAULT_PEER_MSS = 1
    MIN_PEER_MSS = 1
    MAX_WINDOW_FIELD = 15
    WScale = 0
    DelayedAck = FALSE
    MaxFaults = 2
    FaultsFromStart = TRUE
    MaxNet = 4
    CloseDrained = TRUE
    MayAbort = TRUE
SPECIFICATION FairSpec
INVARIANTS
    AckedWasReceived
    OutstandingCovered
PROPERTIES
    HalfOpenEnds
    ImplementsByteStream
CHECK_DEADLOCK FALSE
