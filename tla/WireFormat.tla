----------------------------- MODULE WireFormat -----------------------------
(***************************************************************************)
(* What goes on the wire and what is accepted from it: the Internet        *)
(* checksum (minitcp/util/checksum.py) and the codecs of Ethernet, ARP,    *)
(* IPv4, ICMP, UDP and TCP with its options (minitcp/net).                 *)
(*                                                                         *)
(* Data is a sequence of words of WordBits bits, 16 in the code.  A header *)
(* field that some receiver looks at is one word; fields that nothing      *)
(* reads (TTL, identification, source MAC, window...) are left out, and    *)
(* lengths count words.  The option area is counted in its own bytes, one  *)
(* word each.  A parser that raises ValueError returns Malformed.          *)
(*                                                                         *)
(* X_Slip next to X is X with a slip that a property must notice.          *)
(***************************************************************************)
EXTENDS Bytes

CONSTANTS
    WordBits,             \* 16
    MIN_FRAME_LEN         \* Ethernet's minimum, in words

ASSUME WireAssumption == {WordBits, MIN_FRAME_LEN} \subseteq Nat \ {0}

WORD == 2^WordBits
AllOnes == WORD - 1
Word == 0 .. AllOnes

Malformed == [ok |-> FALSE]

\* data[from:], counted from 0 as the code does
From(data, from) == BytesFrom(data, from)
Zeros(n) == [i \in 1 .. n |-> 0]

Flip(word, bit) ==
    IF (word \div 2^bit) % 2 = 1 THEN word - 2^bit ELSE word + 2^bit

-----------------------------------------------------------------------------
(* checksum.py                                                             *)

Total(data) ==
    LET upTo[k \in 0 .. Len(data)] ==
            IF k = 0 THEN 0 ELSE upTo[k - 1] + data[k]
    IN  upTo[Len(data)]

Fold(total) == (total % WORD) + (total \div WORD)

folded[total \in Nat] == IF total < WORD THEN total ELSE folded[Fold(total)]

_ones_complement_sum_OneFold(data) == Fold(Total(data)) % WORD

\* The carries are folded back in until the sum fits a word.
_ones_complement_sum(data) == folded[Total(data)]

checksum(data) == AllOnes - _ones_complement_sum(data)

transport_checksum(src, dst, protocol, segment) ==
    checksum(<<src, dst, protocol, Len(segment)>> \o segment)

-----------------------------------------------------------------------------
(* ethernet.py: destination, ethertype, payload, padding                   *)

ETHERTYPE_IPV4 == 8
ETHERTYPE_ARP == 6
ETH_HEADER == 2

EthernetToBytes(dst, ethertype, payload) ==
    LET frame == <<dst, ethertype>> \o payload
    IN  frame \o Zeros(Most(MIN_FRAME_LEN - Len(frame), 0))

EthernetParse(data) ==
    IF Len(data) < ETH_HEADER THEN Malformed
    ELSE [ok |-> TRUE, dst |-> data[1], ethertype |-> data[2],
          payload |-> From(data, ETH_HEADER)]

\* Ours, or the group bit is set; broadcast is a group address.
accepted_by(frame, mac) == frame.dst = mac \/ frame.dst % 2 = 1

-----------------------------------------------------------------------------
(* arp.py: address sizes, operation, sender, target; no checksum           *)

ARP_REQUEST == 1
ARP_REPLY == 2
ARP_LEN == 6
HARDWARE_LEN == 6
PROTOCOL_LEN == 4

ArpToBytes(op, sender_mac, sender_ip, target_ip) ==
    <<HARDWARE_LEN, PROTOCOL_LEN, op, sender_mac, sender_ip, target_ip>>

ArpParse(data) ==
    IF Len(data) < ARP_LEN \/ data[1] # HARDWARE_LEN \/ data[2] # PROTOCOL_LEN
    THEN Malformed
    ELSE [ok |-> TRUE, op |-> data[3], sender_mac |-> data[4],
          sender_ip |-> data[5], target_ip |-> data[6]]

-----------------------------------------------------------------------------
(* ipv4.py: version and header length, total length, flags and offset,     *)
(* protocol, checksum, source, destination, options, payload               *)

IPV4_HEADER == 7
VERSION == WORD \div 2            \* the version's half of the first word, as 4
PROTO_ICMP == 1
PROTO_TCP == 6
PROTO_UDP == 17
FRAG_BITS == 8                    \* MF and the offset lie below it, DF above

WithWord(data, i, word) == [data EXCEPT ![i] = word]

IPv4ToBytes(flags_frag, protocol, src, dst, options, payload) ==
    LET ihl == IPV4_HEADER + Len(options)
        header == <<VERSION + ihl, ihl + Len(payload), flags_frag, protocol, 0,
                    src, dst>> \o options
    IN  WithWord(header, 5, checksum(header)) \o payload

\* total_length and not the end of the frame says where the payload ends.
IPv4Payload(data, header_len, total_length) ==
    SubSeq(data, header_len + 1, total_length)

IPv4Parse(data) ==
    IF Len(data) < IPV4_HEADER THEN Malformed
    ELSE LET header_len == data[1] % VERSION
             total_length == data[2]
         IN  IF \/ data[1] < VERSION
                \/ header_len < IPV4_HEADER \/ Len(data) < header_len
                \/ checksum(FirstBytes(data, header_len)) # 0
                \/ total_length < header_len \/ total_length > Len(data)
             THEN Malformed
             ELSE [ok |-> TRUE, fragmented |-> data[3] % FRAG_BITS # 0,
                   protocol |-> data[4], src |-> data[6], dst |-> data[7],
                   payload |-> IPv4Payload(data, header_len, total_length)]

-----------------------------------------------------------------------------
(* icmp.py: type, checksum, body                                           *)

ICMP_HEADER == 2
ECHO_REPLY == 0
ECHO_REQUEST == 8

ICMPToBytes(type, body) ==
    LET header == <<type, 0>> \o body
    IN  WithWord(header, 2, checksum(header))

\* ICMPMessage.parse and, for the echo that is answered, EchoMessage's demand
\* of an identifier and a sequence number, one word here.
ICMPParse(data) ==
    IF Len(data) < ICMP_HEADER \/ checksum(data) # 0 THEN Malformed
    ELSE IF data[1] = ECHO_REQUEST /\ Len(data) < ICMP_HEADER + 1 THEN Malformed
    ELSE [ok |-> TRUE, type |-> data[1], body |-> From(data, ICMP_HEADER)]

-----------------------------------------------------------------------------
(* udp.py: ports, length, checksum, payload                                *)

UDP_HEADER == 4

Transmittable_AsItIs(csum) == csum

\* Zero means "no checksum", so a checksum of zero goes out as all ones.
Transmittable(csum) == IF csum = 0 THEN AllOnes ELSE csum

UDPToBytes(src_port, dst_port, payload, src, dst) ==
    LET body == <<src_port, dst_port, UDP_HEADER + Len(payload), 0>> \o payload
        csum == transport_checksum(src, dst, PROTO_UDP, body)
    IN  WithWord(body, 4, Transmittable(csum))

UDPParse(data, src, dst) ==
    IF Len(data) < UDP_HEADER THEN Malformed
    ELSE LET length == data[3]
             body == FirstBytes(data, length)
         IN  IF \/ length < UDP_HEADER \/ length > Len(data)
                \/ data[4] # 0 /\ transport_checksum(src, dst, PROTO_UDP, body) # 0
             THEN Malformed
             ELSE [ok |-> TRUE, src_port |-> data[1], dst_port |-> data[2],
                   payload |-> From(body, UDP_HEADER)]

-----------------------------------------------------------------------------
(* segment.py: ports, sequence number, data offset, flags, checksum,       *)
(* option area, payload                                                    *)

TCP_HEADER == 6

TCPToBytes(seg, area, src, dst) ==
    LET body == <<seg.src_port, seg.dst_port, seg.seq, TCP_HEADER + Len(area),
                  seg.flags, 0>> \o area \o seg.payload
    IN  WithWord(body, 6, transport_checksum(src, dst, PROTO_TCP, body))

\* The option area is handed to TCPOptions.parse.
TCPParse(data, src, dst) ==
    IF Len(data) < TCP_HEADER THEN Malformed
    ELSE LET header_len == data[4]
         IN  IF \/ header_len < TCP_HEADER \/ Len(data) < header_len
                \/ data[6] # 0 /\ transport_checksum(src, dst, PROTO_TCP, data) # 0
             THEN Malformed
             ELSE [ok |-> TRUE,
                   seg |-> [src_port |-> data[1], dst_port |-> data[2],
                            seq |-> data[3], flags |-> data[5],
                            payload |-> From(data, header_len)],
                   area |-> SubSeq(data, TCP_HEADER + 1, header_len)]

-----------------------------------------------------------------------------
(* TCPOptions.  An option that is absent is the empty sequence.            *)

OPT_END == 0
OPT_NOP == 1
OPT_MSS == 2
OPT_WINDOW_SCALE == 3
OPT_SACK_PERMITTED == 4
OPT_SACK == 5
OPT_TIMESTAMP == 8

NoOptions ==
    [mss |-> << >>, sack_permitted |-> FALSE, window_scale |-> << >>,
     timestamp |-> << >>]

Option(kind, body) ==
    IF body = << >> THEN << >> ELSE <<kind, 2 + Len(body)>> \o body

\* To a multiple of 4: NOPs, or a single END.
Padding(n) == IF n = 1 THEN <<OPT_END>> ELSE [i \in 1 .. n |-> OPT_NOP]

OptionsToBytes(o) ==
    LET raw == Option(OPT_MSS, o.mss)
               \o (IF o.sack_permitted THEN <<OPT_SACK_PERMITTED, 2>> ELSE << >>)
               \o Option(OPT_WINDOW_SCALE, o.window_scale)
               \o Option(OPT_TIMESTAMP, o.timestamp)
    IN  raw \o Padding((4 - (Len(raw) % 4)) % 4)

\* The walk over the option area at pos (counted from 0): does it stop here?
NoLengthThere(area, pos) == pos + 1 >= Len(area)

BadLength_ZeroAllowed(area, pos) == pos + area[pos + 2] > Len(area)

BadLength(area, pos) == area[pos + 2] < 2 \/ pos + area[pos + 2] > Len(area)

StopsAt(area, pos) ==
    \/ pos >= Len(area)
    \/ area[pos + 1] = OPT_END
    \/ area[pos + 1] # OPT_NOP
       /\ (NoLengthThere(area, pos) \/ BadLength(area, pos))

NextOption(area, pos) ==
    IF area[pos + 1] = OPT_NOP THEN pos + 1 ELSE pos + area[pos + 2]

\* What the option at pos adds; one of an unknown kind or an unexpected length
\* adds nothing.  SACK blocks are read and used by no one.
WithOption(o, area, pos) ==
    LET kind == area[pos + 1]
        body == From(FirstBytes(area, NextOption(area, pos)), pos + 2)
    IN  CASE kind = OPT_MSS /\ Len(body) = 2 -> [o EXCEPT !.mss = body]
          [] kind = OPT_WINDOW_SCALE /\ Len(body) = 1 ->
                [o EXCEPT !.window_scale = body]
          [] kind = OPT_SACK_PERMITTED /\ Len(body) = 0 ->
                [o EXCEPT !.sack_permitted = TRUE]
          [] kind = OPT_TIMESTAMP /\ Len(body) = 8 ->
                [o EXCEPT !.timestamp = body]
          [] OTHER -> o
=============================================================================
