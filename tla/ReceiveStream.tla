--------------------------- MODULE ReceiveStream ---------------------------
(***************************************************************************)
(* One direction of a connection seen from its receiver: segments of one   *)
(* byte stream arrive in any order, any number of times, cut in any of the *)
(* ways the peer may cut them, while the application reads.                *)
(*                                                                         *)
(* The reader thread runs insert(); the application thread runs read().    *)
(* No lock is shared between them, so the drain loop of _accept is taken   *)
(* one turn at a time and a read may fall between two turns.               *)
(*                                                                         *)
(* A byte of the stream is modelled by its position, 0 .. StreamLen - 1.   *)
(*                                                                         *)
(* X_Slip next to X is X with a slip that a property must notice.          *)
(***************************************************************************)
EXTENDS ReceiveQueue

CONSTANTS
    FirstSeq,      \* the peer's initial sequence number (irs)
    StreamLen,     \* bytes the peer writes before its FIN
    Segments,      \* the ways the peer cuts them: records [pos, len]
    Overshoot,     \* how far past the window's right edge the peer may go
    MaxRead        \* the largest read the application asks for

ASSUME StreamAssumption ==
    /\ FirstSeq \in SeqNum
    /\ StreamLen \in Nat
    /\ Segments \subseteq [pos : Nat, len : Nat \ {0}]
    /\ \A s \in Segments : s.pos + s.len <= StreamLen
    /\ Overshoot \in Nat
    /\ MaxRead \in Nat \ {0}

VARIABLES
    rq,            \* the connection's recv_queue
    pc,            \* the reader thread: "ready", "draining" or "closed"
    delivered,     \* everything read() has returned, in order
    fin            \* the peer's FIN has been consumed

vars == <<rq, pc, delivered, fin>>

\* The number of stream bytes that nxt stands for.
Total == Len(delivered) + Len(rq.buf)

SeqOf(pos) == seq_add(seq_add(FirstSeq, 1), pos)

Payload(seg) == [i \in 1 .. seg.len |-> seg.pos + i - 1]

Init ==
    /\ rq = NewReceiveQueue(FirstSeq)
    /\ pc = "ready"
    /\ delivered = << >>
    /\ fin = FALSE

-----------------------------------------------------------------------------
(* What the network may hand over: nothing older or newer than half the    *)
(* sequence space, the lifetime every sequence-number comparison rests on, *)
(* and nothing past the window the peer was granted, but for Overshoot.    *)
Timely(seg) ==
    /\ Total - seg.pos < SEQ_HALF
    /\ seg.pos + seg.len - Total < SEQ_HALF
    /\ seg.pos + seg.len <= Total + Capacity + Overshoot

\* _handle_data for an acceptable segment, up to the drain loop.
Arrive(seg) ==
    LET seq == SeqOf(seg.pos)
    IN  /\ pc = "ready"
        /\ Timely(seg)
        /\ Overlaps(rq, seq, seg.len)
        /\ IF IsEarly(rq, seq)
           THEN /\ rq' = ParkTrimmed(rq, seq, Payload(seg))
                /\ pc' = "ready"
           ELSE /\ Accepts(rq, seq, Payload(seg))
                /\ rq' = Append_In_Order(rq, InOrderPart(rq, seq, Payload(seg)))
                /\ pc' = "draining"
        /\ UNCHANGED <<delivered, fin>>

DrainStep_Once ==
    /\ pc = "draining"
    /\ rq' = IF CanTake(rq) THEN TakeNext(rq) ELSE rq
    /\ pc' = "ready"
    /\ UNCHANGED <<delivered, fin>>

\* One turn of the drain loop.
DrainStep ==
    /\ pc = "draining"
    /\ IF CanTake(rq)
       THEN rq' = TakeNext(rq) /\ pc' = "draining"
       ELSE rq' = rq /\ pc' = "ready"
    /\ UNCHANGED <<delivered, fin>>

\* read(n), at any moment.
Read(n) ==
    /\ rq.buf # << >>
    /\ delivered' = delivered \o ReadChunk(rq, n)
    /\ rq' = AfterRead(rq, n)
    /\ UNCHANGED <<pc, fin>>

Fin_JumpsGap ==
    /\ pc = "ready"
    /\ ~fin
    /\ StreamLen - Total < SEQ_HALF
    /\ seq_ge(SeqOf(StreamLen), rq.nxt)
    /\ rq' = [rq EXCEPT !.nxt = seq_add(@, 1)]
    /\ fin' = TRUE
    /\ UNCHANGED <<pc, delivered>>

\* _handle_fin: consumed only when no byte before it is missing.
Fin ==
    /\ pc = "ready"
    /\ ~fin
    /\ StreamLen - Total < SEQ_HALF
    /\ SeqOf(StreamLen) = rq.nxt
    /\ rq' = [rq EXCEPT !.nxt = seq_add(@, 1)]
    /\ fin' = TRUE
    /\ UNCHANGED <<pc, delivered>>

\* _teardown, from an RST, a timeout or the application's abort().
Teardown ==
    /\ pc # "closed"
    /\ rq' = ClearReceive(rq)
    /\ pc' = "closed"
    /\ UNCHANGED <<delivered, fin>>

Next ==
    \/ \E seg \in Segments : Arrive(seg)
    \/ DrainStep
    \/ \E n \in 1 .. MaxRead : Read(n)
    \/ Fin
    \/ Teardown

Spec == Init /\ [][Next]_vars

(* The peer retransmits what is not acknowledged, so a segment that stays  *)
(* receivable arrives in the end (strong, because the drain loop keeps     *)
(* switching Arrive off); the reader thread finishes its loop and the      *)
(* application keeps reading.                                              *)
FairSpec ==
    /\ Spec
    /\ \A seg \in Segments : SF_vars(Arrive(seg))
    /\ WF_vars(DrainStep)
    /\ WF_vars(Read(MaxRead))

-----------------------------------------------------------------------------
(* Each parked byte under the key it is parked at: two entries that overlap *)
(* in the stream cost memory twice.                                        *)
EntryBytes(ooo, s) == {s} \X (1 .. Len(ooo[s]))
ParkedBytes(ooo) == UNION {EntryBytes(ooo, s) : s \in DOMAIN ooo}

\* The queue is made of the pieces the code keeps.
TypeOK ==
    /\ rq.nxt \in SeqNum
    /\ rq.buf \in Seq(Nat)
    /\ DOMAIN rq.ooo \subseteq SeqNum
    /\ \A s \in DOMAIN rq.ooo : rq.ooo[s] \in Seq(Nat)
    /\ rq.held \in Nat
    /\ rq = [nxt |-> rq.nxt, buf |-> rq.buf, ooo |-> rq.ooo, held |-> rq.held]
    /\ pc \in {"ready", "draining", "closed"}
    /\ delivered \in Seq(Nat)
    /\ fin \in BOOLEAN

\* "available + held" never exceeds the capacity we advertise, counting the
\* bytes really parked and not the running counter (buffer.py _accept and
\* insert), whatever the peer sends and whenever the application reads.
MemoryBound == Len(rq.buf) + Cardinality(ParkedBytes(rq.ooo)) <= Capacity

\* The running counter is the number of bytes parked: every insert, take and
\* clear of reorder.py keeps bytes_buffered in step with _data.
HeldExact == rq.held = Cardinality(ParkedBytes(rq.ooo))

\* What has been read and what is waiting to be read is the stream itself from
\* its first byte: nothing lost, repeated or swapped by parking, trimming and
\* draining, and nxt acknowledges exactly that much.
StreamIntegrity ==
    /\ delivered \o rq.buf = [i \in 1 .. Total |-> i - 1]
    /\ pc # "closed" => rq.nxt = SeqOf(Total + (IF fin THEN 1 ELSE 0))

\* The FIN is consumed only behind the last byte of the stream (_handle_fin).
FinComplete == fin /\ pc # "closed" => Total = StreamLen

\* "Anything that arrives early is parked and pulled in automatically once the
\* gap ahead of it fills" (ReceiveQueue): between two segments everything still
\* parked lies ahead of nxt.
EarlyDataPulledIn ==
    pc = "ready" => \A s \in DOMAIN rq.ooo : seq_gt(s, rq.nxt)

\* Every byte reaches the application, unless the connection is torn down.
AllDelivered == <>(Len(delivered) = StreamLen \/ pc = "closed")
=============================================================================
