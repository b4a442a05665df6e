------------------------------- MODULE Codec -------------------------------
(***************************************************************************)
(* One frame from a neighbour through the receiving stack: serialised, put *)
(* on a wire that may flip one bit of it (minitcp/link/simulated.py,       *)
(* _flip_one_bit), and taken apart again layer by layer                    *)
(* (minitcp/stack.py, handle_frame to _handle_tcp, _handle_udp and         *)
(* _handle_icmp), the TCP options one at a time.                           *)
(***************************************************************************)
EXTENDS WireFormat

CONSTANTS
    MyMac, MyIp,          \* the receiving stack's addresses
    PeerMac, PeerIp,      \* its neighbour's
    Messages              \* what the neighbour may send

VARIABLES
    message,              \* what was sent
    frame,                \* the frame on the wire
    flipped,              \* the word the wire flipped a bit of, 0 for none
    stage,                \* how far the frame has come
    seg, area, pos, opts, \* a TCP segment whose options are being read
    delivered,            \* what was handed to a protocol handler
    reply                 \* the packet sent in answer, empty for none

vars == <<message, frame, flipped, stage, seg, area, pos, opts, delivered, reply>>

Nothing == [kind |-> "nothing"]

\* A message is a record with a kind.  area is the option area of a TCP
\* segment: what this code writes for opts, or anything a foreign stack may.
Serialised(m) ==
    CASE m.kind = "arp" ->
            EthernetToBytes(MyMac, ETHERTYPE_ARP,
                            ArpToBytes(m.op, PeerMac, PeerIp, MyIp))
      [] m.kind = "icmp" ->
            EthernetToBytes(MyMac, ETHERTYPE_IPV4,
                IPv4ToBytes(m.ff, PROTO_ICMP, PeerIp, MyIp, << >>,
                            ICMPToBytes(m.type, m.body)))
      [] m.kind = "udp" ->
            EthernetToBytes(MyMac, ETHERTYPE_IPV4,
                IPv4ToBytes(m.ff, PROTO_UDP, PeerIp, MyIp, << >>,
                            UDPToBytes(m.src_port, m.dst_port, m.payload,
                                       PeerIp, MyIp)))
      [] m.kind = "tcp" ->
            EthernetToBytes(MyMac, ETHERTYPE_IPV4,
                IPv4ToBytes(m.ff, PROTO_TCP, PeerIp, MyIp, << >>,
                            TCPToBytes(m.seg, m.area, PeerIp, MyIp)))

Init ==
    /\ message \in Messages
    /\ frame = Serialised(message)
    /\ flipped = 0
    /\ stage = "wire"
    /\ seg = << >> /\ area = << >> /\ pos = 0 /\ opts = NoOptions
    /\ delivered = Nothing
    /\ reply = << >>

-----------------------------------------------------------------------------
\* _flip_one_bit
Corrupt ==
    /\ stage = "wire" /\ flipped = 0
    /\ \E i \in 1 .. Len(frame), bit \in 0 .. WordBits - 1 :
          /\ frame' = WithWord(frame, i, Flip(frame[i], bit))
          /\ flipped' = i
    /\ UNCHANGED <<message, stage, seg, area, pos, opts, delivered, reply>>

Deliver(what) == stage' = "done" /\ delivered' = what
Drop == stage' = "dropped" /\ UNCHANGED <<delivered, reply>>

\* _handle_arp.  What it learns is in delivered; a request for our address is
\* answered.  (What the cache and the parked packets do: ArpResolution.)
HandleArp(payload) ==
    LET p == ArpParse(payload)
    IN  /\ IF p.ok
           THEN /\ Deliver([kind |-> "arp", op |-> p.op, mac |-> p.sender_mac,
                            ip |-> p.sender_ip, target |-> p.target_ip])
                /\ reply' = IF p.op = ARP_REQUEST /\ p.target_ip = MyIp
                            THEN ArpToBytes(ARP_REPLY, MyMac, MyIp, p.sender_ip)
                            ELSE << >>
           ELSE Drop
        /\ UNCHANGED <<seg, area>>

\* _handle_icmp: an echo request is answered with its own body.
HandleIcmp(ip) ==
    LET m == ICMPParse(ip.payload)
    IN  /\ IF m.ok
           THEN /\ Deliver([kind |-> "icmp", src |-> ip.src, type |-> m.type,
                            body |-> m.body])
                /\ reply' = IF m.type = ECHO_REQUEST
                            THEN IPv4ToBytes(0, PROTO_ICMP, MyIp, ip.src, << >>,
                                             ICMPToBytes(ECHO_REPLY, m.body))
                            ELSE << >>
           ELSE Drop
        /\ UNCHANGED <<seg, area>>

HandleUdp(ip) ==
    LET u == UDPParse(ip.payload, ip.src, ip.dst)
    IN  /\ IF u.ok
           THEN /\ Deliver([kind |-> "udp", src |-> ip.src,
                            src_port |-> u.src_port, dst_port |-> u.dst_port,
                            payload |-> u.payload])
                /\ UNCHANGED reply
           ELSE Drop
        /\ UNCHANGED <<seg, area>>

\* TCPSegment.parse as far as the options
HandleTcp(ip) ==
    LET t == TCPParse(ip.payload, ip.src, ip.dst)
    IN  IF t.ok
        THEN /\ stage' = "options"
             /\ seg' = [src |-> ip.src, seg |-> t.seg]
             /\ area' = t.area
             /\ UNCHANGED <<delivered, reply>>
        ELSE Drop /\ UNCHANGED <<seg, area>>

\* _handle_ipv4_frame and _dispatch_ipv4.  A fragment waits for others, and a
\* datagram for another host or of another protocol is dropped.
HandleIpv4(payload) ==
    LET ip == IPv4Parse(payload)
        ours == ip.ok /\ ~ip.fragmented /\ ip.dst \in {MyIp, AllOnes}
    IN  IF ~ours THEN Drop /\ UNCHANGED <<seg, area>>
        ELSE CASE ip.protocol = PROTO_ICMP -> HandleIcmp(ip)
               [] ip.protocol = PROTO_TCP  -> HandleTcp(ip)
               [] ip.protocol = PROTO_UDP  -> HandleUdp(ip)
               [] OTHER                    -> Drop /\ UNCHANGED <<seg, area>>

handle_frame ==
    /\ stage = "wire"
    /\ LET eth == EthernetParse(frame)
       IN  IF ~eth.ok \/ ~accepted_by(eth, MyMac)
           THEN Drop /\ UNCHANGED <<seg, area>>
           ELSE CASE eth.ethertype = ETHERTYPE_ARP  -> HandleArp(eth.payload)
                  [] eth.ethertype = ETHERTYPE_IPV4 -> HandleIpv4(eth.payload)
                  [] OTHER -> Drop /\ UNCHANGED <<seg, area>>
    /\ UNCHANGED <<message, frame, flipped, pos, opts>>

\* One turn of TCPOptions.parse; _handle_tcp gets the segment at its end.
ReadOption ==
    /\ stage = "options"
    /\ IF StopsAt(area, pos)
       THEN /\ Deliver([kind |-> "tcp", src |-> seg.src, seg |-> seg.seg,
                        opts |-> opts])
            /\ UNCHANGED <<pos, opts>>
       ELSE /\ pos' = NextOption(area, pos)
            /\ opts' = WithOption(opts, area, pos)
            /\ UNCHANGED <<stage, delivered>>
    /\ UNCHANGED <<message, frame, flipped, seg, area, reply>>

Next == Corrupt \/ handle_frame \/ ReadOption

Spec == Init /\ [][Next]_vars

\* The reader thread goes on with a frame it has taken.  The first of the two
\* is the weak fairness of handle_frame, with its enabling condition written out.
FairSpec ==
    /\ Spec
    /\ []<>(stage # "wire") \/ []<><<handle_frame>>_vars
    /\ WF_vars(ReadOption)

-----------------------------------------------------------------------------
(* Properties                                                              *)

\* What the message means to its handler; of a foreign option area, nothing is
\* expected.
Meaning(m) ==
    CASE m.kind = "arp"  -> [kind |-> "arp", op |-> m.op, mac |-> PeerMac,
                             ip |-> PeerIp, target |-> MyIp]
      [] m.kind = "icmp" -> [kind |-> "icmp", src |-> PeerIp, type |-> m.type,
                             body |-> m.body]
      [] m.kind = "udp"  -> [kind |-> "udp", src |-> PeerIp,
                             src_port |-> m.src_port, dst_port |-> m.dst_port,
                             payload |-> m.payload]
      [] m.kind = "tcp"  -> [kind |-> "tcp", src |-> PeerIp, seg |-> m.seg,
                             opts |-> IF m.foreign THEN opts ELSE m.opts]

AsSent == delivered = Meaning(message)

\* A ping or an ARP request has been answered with what its sender can read.
Answered ==
    /\ message.kind = "icmp" /\ message.type = ECHO_REQUEST =>
          LET ip == IPv4Parse(reply) IN
          /\ ip.ok /\ ip.dst = PeerIp
          /\ ICMPParse(ip.payload)
                = [ok |-> TRUE, type |-> ECHO_REPLY, body |-> message.body]
    /\ message.kind = "arp" /\ message.op = ARP_REQUEST =>
          ArpParse(reply) = [ok |-> TRUE, op |-> ARP_REPLY, sender_mac |-> MyMac,
                             sender_ip |-> MyIp, target_ip |-> PeerIp]

\* An undamaged frame arrives as it was sent, whatever its checksums come to,
\* whatever padding it needed and whatever options it carries, and is answered
\* if it asks for an answer; a fragment alone is not delivered.
RoundTrip ==
    flipped = 0 =>
        /\ stage = "done" =>
              /\ AsSent /\ Answered
              /\ message.kind = "arp" \/ message.ff = 0
        /\ stage = "dropped" => message.kind # "arp" /\ message.ff # 0

\* Where the words whose damage no checksum can show lie in the frame: those
\* that say how much of it a checksum covers.
HeaderLengthWord == ETH_HEADER + 1
UdpLengthWord == ETH_HEADER + IPV4_HEADER + 3
TcpChecksumWord == ETH_HEADER + IPV4_HEADER + 6

\* A flipped bit never reaches a handler as another message, but in ARP, which
\* has no checksum, in the two length words, and in a TCP segment whose
\* checksum came to zero.
DamageCaught ==
    stage = "done" /\ flipped # 0 /\ ~AsSent =>
        \/ message.kind = "arp"
        \/ flipped = HeaderLengthWord
        \/ message.kind = "udp" /\ flipped = UdpLengthWord
        \/ message.kind = "tcp" /\ frame[TcpChecksumWord] = 0

\* "Any single-bit flip in the TCP header or payload must be caught"
\* (tests/test_fuzz.py).
TcpDamageCaught ==
    stage = "done" /\ message.kind = "tcp" => AsSent

\* Every frame is dealt with in a finite number of steps: no option area keeps
\* the reader thread.
FrameEnds == <>(stage \in {"done", "dropped"})
=============================================================================
