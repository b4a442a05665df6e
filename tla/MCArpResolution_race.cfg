\* Two threads, three packets for one next hop, a queue of two, a cache of one
\* entry that another host competes for, one ARP frame lost, one packet that cannot
\* be sent, a link that may raise.
CONSTANTS
    h1 = h1
    h2 = h2
    p1 = p1
    p2 = p2
    p3 = p3
    t1 = t1
    t2 = t2
    Hosts <- TwoHosts
    Packets <- ThreePackets
    NextHop <- OneRoute
    Threads <- TwoThreads
    MaxArpPending = 2
    MaxEntries = 1
    MaxLost = 1
    Oversized <- OneOversized
    LinkMayFail = TRUE
SPECIFICATION FairSpec
INVARIANTS
    TypeOK
    Conserved
    ParkedIsAsked
PROPERTY AllSettled
