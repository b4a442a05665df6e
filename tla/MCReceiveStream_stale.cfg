\* A correct peer that re-cuts its data when it retransmits.
CONSTANTS
    SEQ_MOD = 16
    Capacity = 4
    FirstSeq = 3
    StreamLen = 4
    MaxSegment = 3
    Grain = 1
    Segments <- AnySegments
    Overshoot = 0
    MaxRead = 2
SPECIFICATION Spec
INVARIANT EarlyDataPulledIn
CHECK_DEADLOCK FALSE
