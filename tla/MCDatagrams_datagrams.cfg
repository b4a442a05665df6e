\* Two sockets on ports of their own, a thread that reads one; datagrams cut
\* for two MTUs or not at all, and room for one fragment set.
CONSTANTS
    s1 = s1
    s2 = s2
    Sockets = {s1, s2}
    Receivers = {r1}
    SocketOf <- MCSocketOf
    PortOf <- MCPortOf
    DstPort <- MCDstPort
    Size <- MCSize
    Datagrams = {1, 2, 3}
    SizeOne = 6
    SizeTwo = 4
    SizeThree = 1
    PortTwo = 2
    Rooms = {3, 4}
    Unit = 2
    ID_MOD = 8
    MaxSets = 1
    MaxHandled = 2
SPECIFICATION FairSpec
INVARIANTS
    TypeOK
    RebuiltIsOriginal
    NoneLost
    OnlyTimeouts
PROPERTIES
    ReceiverWakes
