\* Two segments over a wire that delays by one or two ticks, loses or doubles
\* one frame, and a link that goes down once.
CONSTANTS
    Delays = {1, 2}
    MaxFaults = 1
    Segments = 2
    INITIAL_RTO = 2
    MIN_RTO = 2
    MAX_RTO = 4
    DUP_THRESHOLD = 2
    MAX_RETRANSMITS = 1
SPECIFICATION FairSpec
INVARIANTS
    CopiesConserved
    SampleIsReal
    TimerWithinRto
PROPERTIES
    BackoffUndone
    WireDrains
CHECK_DEADLOCK FALSE
