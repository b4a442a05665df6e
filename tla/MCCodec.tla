------------------------------ MODULE MCCodec ------------------------------
(* Small instances of Codec for TLC. *)
EXTENDS Codec

CONSTANTS SeqNums, AreaLength

\* One word of any value, or that and a second that can make up for a change
\* of the length.
MCPayloads ==
    {<< >>} \cup {<<a>> : a \in Word} \cup {<<a, b>> : a \in Word, b \in {0, 29}}

Seg(seq, payload) ==
    [src_port |-> 5, dst_port |-> 9, seq |-> seq, flags |-> 3, payload |-> payload]

SynOptions == [NoOptions EXCEPT !.mss = <<1, 4>>, !.sack_permitted = TRUE]

MCOptions ==
    {NoOptions, SynOptions, [SynOptions EXCEPT !.window_scale = <<7>>],
     [NoOptions EXCEPT !.window_scale = <<0>>],
     [NoOptions EXCEPT !.timestamp = <<1, 2, 3, 4, 5, 6, 7, 8>>]}

\* Kinds, lengths and values a foreign stack may string together.
MCAreas ==
    UNION {[1 .. n -> {0, 1, 2, 3, 4, 5, 9}] : n \in 0 .. AreaLength}

Tcp(seq, payload, o) ==
    [kind |-> "tcp", ff |-> 0, foreign |-> FALSE, seg |-> Seg(seq, payload),
     opts |-> o, area |-> OptionsToBytes(o)]

Foreign(a) ==
    [kind |-> "tcp", ff |-> 0, foreign |-> TRUE, seg |-> Seg(1, <<7>>),
     opts |-> NoOptions, area |-> a]

MCMessages ==
    {[kind |-> "arp", op |-> op] : op \in {1, 2}}
    \cup {[kind |-> "icmp", ff |-> 0, type |-> type, body |-> <<4>> \o p] :
            type \in {ECHO_REPLY, ECHO_REQUEST}, p \in MCPayloads}
    \cup {[kind |-> "udp", ff |-> ff, src_port |-> 5, dst_port |-> 9, payload |-> p] :
            ff \in {0, 4}, p \in MCPayloads}
    \cup {Tcp(seq, p, o) : seq \in SeqNums, p \in {<< >>, <<7>>}, o \in MCOptions}
    \cup {Foreign(a) : a \in MCAreas}
=============================================================================
