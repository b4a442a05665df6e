\* Words of five bits; every message undamaged and with any one bit flipped.
CONSTANTS
    WordBits = 5
    MIN_FRAME_LEN = 16
    MyMac = 2
    MyIp = 3
    PeerMac = 4
    PeerIp = 5
    Messages <- MCMessages
    SeqNums = {0, 1, 2, 3, 4, 5, 6, 7, 8, 9, 10, 11, 12, 13, 14, 15, 16, 17, 18, 19, 20, 21, 22, 23, 24, 25, 26, 27, 28, 29, 30, 31}
    AreaLength = 4
SPECIFICATION FairSpec
INVARIANTS
    RoundTrip
    DamageCaught
PROPERTIES
    FrameEnds
CHECK_DEADLOCK FALSE
