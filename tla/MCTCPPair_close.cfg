\* Both applications write and close by themselves, one after the other or at
\* once; delayed acknowledgements, window scaling, one fault after the
\* handshake.
CONSTANTS
    A = A
    B = B
    Active <- OnlyA
    ISS <- MCISS
    ToSend <- MCToSend
    Closers <- Both
    Readers <- Both
    ToSendA = 1
    ToSendB = 1
    IssA = 14
    IssB = 3
    SEQ_MOD = 16
    Capacity = 3
    SendCapacity = 3
    RetxCapacity = 8
    MAX_RETRANSMITS = 6
    MSS = 1
    INITIAL_WINDOW_CAP = 2
    MAX_CWND = 3
    DEFAULT_PEER_MSS = 1
    MIN_PEER_MSS = 1
    MAX_WINDOW_FIELD = 15
    WScale = 1
    DelayedAck = TRUE
    MaxFaults = 1
    FaultsFromStart = FALSE
    MaxNet = 4
    CloseDrained = TRUE
    MayAbort = FALSE
SPECIFICATION FairSpec
INVARIANTS
    EndOfStream
    FinSeenByPeer
PROPERTIES
    BothClosed
CHECK_DEADLOCK FALSE
