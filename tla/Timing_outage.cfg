\* The sender's link is down when its timer fires.
CONSTANTS
    Delays = {1}
    MaxFaults = 1
    Segments = 1
    INITIAL_RTO = 3
    MIN_RTO = 3
    MAX_RTO = 6
    DUP_THRESHOLD = 3
    MAX_RETRANSMITS = 2
SPECIFICATION Spec
PROPERTY RetriesSpaced
CHECK_DEADLOCK FALSE
