\* The same peer, and a stream that goes once round the sequence space.
CONSTANTS
    SEQ_MOD = 8
    Capacity = 3
    FirstSeq = 3
    StreamLen = 12
    MaxSegment = 2
    Grain = 1
    Segments <- AnySegments
    Overshoot = 0
    MaxRead = 2
SPECIFICATION Spec
INVARIANT StreamIntegrity
CHECK_DEADLOCK FALSE
