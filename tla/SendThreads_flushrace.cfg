\* send() in the application thread races an acknowledgement in the reader
\* thread; four bytes, one per segment.
CONSTANTS
    SEQ_MOD = 16
    ISS = 14
    SendCapacity = 4
    RetxCapacity = 8
    MAX_RETRANSMITS = 2
    Window = 2
    PeerMss = 1
    ToWrite = 4
SPECIFICATION Spec
INVARIANTS
    TakenAsWritten
CHECK_DEADLOCK FALSE
