\* Fixed segmentation, a peer that respects the window, a stream longer than
\* the whole sequence space.
CONSTANTS
    SEQ_MOD = 16
    Capacity = 6
    FirstSeq = 11
    StreamLen = 20
    MaxSegment = 2
    Grain = 2
    Segments <- GridSegments
    Overshoot = 0
    MaxRead = 3
SPECIFICATION FairSpec
INVARIANTS
    EarlyDataPulledIn
PROPERTIES
    AllDelivered
CHECK_DEADLOCK FALSE
