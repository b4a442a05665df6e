---------------------------- MODULE ReceiveQueue ----------------------------
(***************************************************************************)
(* The inbound byte stream: ReceiveQueue (minitcp/net/tcp/buffer.py) and   *)
(* the ReorderQueue it owns (minitcp/net/tcp/reorder.py), as operators on  *)
(* a record                                                                *)
(*                                                                         *)
(*   nxt   sequence number of the next byte expected                       *)
(*   buf   bytes in order and not yet read; the consumed prefix that the   *)
(*         code keeps behind _read_pos until compaction is dropped here    *)
(*   ooo   ReorderQueue._data, parked payloads keyed by sequence number    *)
(*   held  ReorderQueue.bytes_buffered, the running count of parked bytes  *)
(*                                                                         *)
(* X_Slip next to X is X with a slip that a property must notice.          *)
(***************************************************************************)
EXTENDS SeqNo, Bytes, FiniteSets

CONSTANT Capacity      \* receive_capacity

ASSUME CapacityAssumption == Capacity \in Nat \ {0}

NewReceiveQueue(irs) ==
    [nxt |-> seq_add(irs, 1), buf |-> << >>, ooo |-> << >>, held |-> 0]

\* Bytes we are willing to accept: what is neither unread nor parked.
RecvWindow(rq) == Most(Capacity - (Len(rq.buf) + rq.held), 0)

\* ReorderQueue.insert: first come, first kept, and never past the capacity.
Park(rq, seq, payload) ==
    IF \/ payload = << >>
       \/ seq \in DOMAIN rq.ooo
       \/ rq.held + Len(payload) > Capacity
    THEN rq
    ELSE [rq EXCEPT !.ooo = [s \in DOMAIN rq.ooo \cup {seq} |->
                                IF s = seq THEN payload ELSE rq.ooo[s]],
                    !.held = @ + Len(payload)]

Append_In_Order_Unmasked(rq, payload) ==
    LET chunk == FirstBytes(payload, RecvWindow(rq))
    IN  [rq EXCEPT !.buf = @ \o chunk, !.nxt = @ + Len(chunk)]

\* The first half of _accept: take what fits in order.
Append_In_Order(rq, payload) ==
    LET chunk == FirstBytes(payload, RecvWindow(rq))
    IN  [rq EXCEPT !.buf = @ \o chunk, !.nxt = seq_add(@, Len(chunk))]

\* One turn of _accept's drain loop: ReorderQueue.take(nxt) found a payload.
CanTake(rq) == rq.nxt \in DOMAIN rq.ooo

TakeNext_LeaksHeld(rq) ==
    LET data == rq.ooo[rq.nxt]
    IN  [nxt  |-> seq_add(rq.nxt, Len(data)),
         buf  |-> rq.buf \o data,
         ooo  |-> [s \in DOMAIN rq.ooo \ {rq.nxt} |-> rq.ooo[s]],
         held |-> rq.held]

TakeNext(rq) ==
    LET data == rq.ooo[rq.nxt]
    IN  [nxt  |-> seq_add(rq.nxt, Len(data)),
         buf  |-> rq.buf \o data,
         ooo  |-> [s \in DOMAIN rq.ooo \ {rq.nxt} |-> rq.ooo[s]],
         held |-> rq.held - Len(data)]

\* The whole drain loop, which ends because every turn removes an entry.
Drain(rq) ==
    LET after[k \in 0 .. Cardinality(DOMAIN rq.ooo)] ==
            IF k = 0 THEN rq
            ELSE LET before == after[k - 1]
                 IN  IF CanTake(before) THEN TakeNext(before) ELSE before
    IN  after[Cardinality(DOMAIN rq.ooo)]

InOrderPart_Untrimmed(rq, seq, payload) ==
    IF seq_gt(seq, rq.nxt) THEN << >>
    ELSE IF seq_diff(rq.nxt, seq) >= Len(payload) THEN << >>
    ELSE payload

\* How insert() classifies a segment.  Behind nxt, the part already held is
\* cut off and the rest goes the in-order way; an overlap as long as the
\* payload leaves nothing.
InOrderPart(rq, seq, payload) ==
    IF seq = rq.nxt THEN payload
    ELSE IF seq_gt(seq, rq.nxt) THEN << >>
    ELSE IF seq_diff(rq.nxt, seq) >= Len(payload) THEN << >>
    ELSE BytesFrom(payload, seq_diff(rq.nxt, seq))

IsEarly(rq, seq) == seq # rq.nxt /\ seq_gt(seq, rq.nxt)

ParkTrimmed_Whole(rq, seq, payload) == Park(rq, seq, payload)

ParkTrimmed(rq, seq, payload) ==
    Park(rq, seq, FirstBytes(payload, RecvWindow(rq)))

Accepts(rq, seq, payload) ==
    InOrderPart(rq, seq, payload) # << >> /\ RecvWindow(rq) > 0

\* insert(), whole.
Insert(rq, seq, payload) ==
    IF IsEarly(rq, seq) THEN ParkTrimmed(rq, seq, payload)
    ELSE IF Accepts(rq, seq, payload)
         THEN Drain(Append_In_Order(rq, InOrderPart(rq, seq, payload)))
         ELSE rq

\* TCPConnection._acceptable's test of a segment that occupies sequence space:
\* it starts before the end of the whole capacity and ends past nxt.
Overlaps(rq, seq, seq_len) ==
    /\ seq_lt(seq, seq_add(rq.nxt, Capacity))
    /\ seq_gt(seq_add(seq, seq_len), rq.nxt)

\* read(n): consume up to n in-order bytes.
ReadChunk(rq, n) == FirstBytes(rq.buf, n)
AfterRead(rq, n) == [rq EXCEPT !.buf = BytesFrom(rq.buf, Len(ReadChunk(rq, n)))]

\* clear(): everything held goes, nxt stays.
ClearReceive(rq) == [nxt |-> rq.nxt, buf |-> << >>, ooo |-> << >>, held |-> 0]
=============================================================================
