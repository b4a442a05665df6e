\* Any segmentation, a peer that overshoots the window, a sequence space that
\* wraps in mid-stream (FirstSeq + 1 = 20 of 24).
CONSTANTS
    SEQ_MOD = 24
    Capacity = 6
    FirstSeq = 19
    StreamLen = 9
    MaxSegment = 4
    Grain = 1
    Segments <- AnySegments
    Overshoot = 2
    MaxRead = 2
SPECIFICATION Spec
INVARIANTS
    TypeOK
    MemoryBound
    HeldExact
    StreamIntegrity
    FinComplete
CHECK_DEADLOCK FALSE
