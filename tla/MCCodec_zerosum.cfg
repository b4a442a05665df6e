\* A TCP segment whose checksum comes to zero, and a flipped bit in it.
CONSTANTS
    WordBits = 5
    MIN_FRAME_LEN = 16
    MyMac = 2
    MyIp = 3
    PeerMac = 4
    PeerIp = 5
    Messages <- MCMessages
    SeqNums = {0, 1, 2, 3, 4, 5, 6, 7, 8, 9, 10, 11, 12, 13, 14, 15, 16, 17, 18, 19, 20, 21, 22, 23, 24, 25, 26, 27, 28, 29, 30, 31}
    AreaLength = 0
SPECIFICATION Spec
INVARIANT
    TcpDamageCaught
CHECK_DEADLOCK FALSE
