----------------------------- MODULE SendQueue -----------------------------
(***************************************************************************)
(* The outbound byte stream: SendQueue (minitcp/net/tcp/buffer.py) and the *)
(* RetransmitQueue (minitcp/net/tcp/retransmit.py), as operators on        *)
(*                                                                         *)
(*   sq = [una, nxt, buf]   buf[1] is the byte numbered una                *)
(*   retx                   the outstanding segments, oldest first:        *)
(*                          records [seq, flags, data, retransmits]        *)
(*                                                                         *)
(* retransmits stops at MAX_RETRANSMITS: the code only asks whether it has *)
(* reached that value.  The times kept for RTT sampling are left out.      *)
(*                                                                         *)
(* X_Slip next to X is X with a slip that a property must notice.          *)
(***************************************************************************)
EXTENDS SeqNo, Bytes

CONSTANTS
    SendCapacity,         \* send_capacity
    RetxCapacity,         \* RetransmitQueue's capacity
    MAX_RETRANSMITS

ASSUME SendAssumption ==
    {SendCapacity, RetxCapacity, MAX_RETRANSMITS} \subseteq Nat \ {0}

NewSendQueue(iss) == [una |-> iss, nxt |-> iss, buf |-> << >>]

Room(sq) == Most(SendCapacity - Len(sq.buf), 0)

Write(sq, data) == [sq EXCEPT !.buf = @ \o FirstBytes(data, Room(sq))]

Peek(sq, seq, length) ==
    LET offset == seq_diff(seq, sq.una)
    IN  IF offset < 0 \/ length <= 0 THEN << >>
        ELSE FirstBytes(BytesFrom(sq.buf, offset), length)

Acknowledge_All(sq, ack) == [una |-> sq.nxt, nxt |-> sq.nxt, buf |-> << >>]

\* acknowledge(ack) for an ack that is new; the count it returns is
\* seq_diff(ack, una).
Acknowledge(sq, ack) ==
    [una |-> ack,
     nxt |-> IF seq_lt(sq.nxt, ack) THEN ack ELSE sq.nxt,
     buf |-> BytesFrom(sq.buf, Least(seq_diff(ack, sq.una), Len(sq.buf)))]

InFlight(sq) == Most(seq_diff(sq.nxt, sq.una), 0)

Unsent(sq) == Most(Len(sq.buf) - InFlight(sq), 0)

ClearSend(sq) == [sq EXCEPT !.buf = << >>]

-----------------------------------------------------------------------------
\* Sequence numbers a segment occupies: its bytes, its SYN and its FIN.
seq_len(seg) == Len(seg.data) + (IF "SYN" \in seg.flags THEN 1 ELSE 0)
                              + (IF "FIN" \in seg.flags THEN 1 ELSE 0)

seq_end(seg) == seq_add(seg.seq, seq_len(seg))

\* Sum of the payloads outstanding: how many bytes have a place in some entry.
BytesOutstanding(retx) ==
    Cardinality(UNION {{i} \X (1 .. Len(retx[i].data)) : i \in 1 .. Len(retx)})

RetxAdd(retx, seq, flags, data) ==
    IF BytesOutstanding(retx) + Len(data) > RetxCapacity THEN retx
    ELSE Append(retx, [seq |-> seq, flags |-> flags, data |-> data,
                       retransmits |-> 0])

RetxAcknowledge_ByStart(retx, ack) ==
    Picked(retx, {i \in 1 .. Len(retx) : ~seq_le(retx[i].seq, ack)})

\* Entries the ack covers whole are dropped, a partly covered one stays.
RetxAcknowledge(retx, ack) ==
    Picked(retx, {i \in 1 .. Len(retx) : ~seq_le(seq_end(retx[i]), ack)})

MarkOldestRetransmitted(retx) ==
    [retx EXCEPT ![1].retransmits = Least(@ + 1, MAX_RETRANSMITS)]
=============================================================================
