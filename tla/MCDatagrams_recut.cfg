\* Two MTUs on the way.
CONSTANTS
    s1 = s1
    s2 = s2
    Sockets = {s1, s2}
    Receivers = {r1}
    SocketOf <- MCSocketOf
    PortOf <- MCPortOf
    DstPort <- MCDstPort
    Size <- MCSize
    Datagrams = {1, 2, 3}
    SizeOne = 7
    SizeTwo = 4
    SizeThree = 1
    PortTwo = 2
    Rooms = {3, 5}
    Unit = 2
    ID_MOD = 8
    MaxSets = 2
    MaxHandled = 2
SPECIFICATION Spec
INVARIANT
    CompletedWhenComplete
