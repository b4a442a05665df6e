------------------------ MODULE ReceiveStreamProofs ------------------------
(***************************************************************************)
(* The receive queue, for every sequence space, capacity, stream and set   *)
(* of segments: its memory bound, and the stream it puts together.         *)
(*                                                                         *)
(* MemoryBound is not inductive: the code decides by the counter held and  *)
(* the bound is about the bytes parked.  QueueOK ties the two together.    *)
(*                                                                         *)
(* StreamIntegrity is not inductive either: it does not speak of what is   *)
(* parked.  StreamInv adds that every parked payload was cut from a        *)
(* segment at the position its key stands for.  A key stands for one       *)
(* position only while a stale entry cannot survive a whole turn of the    *)
(* sequence space.  The code never throws one away, so this is a           *)
(* hypothesis: the stream is shorter than the space (ShortStream), or the  *)
(* peer never cuts the same bytes twice in two ways (OneGrid).  Without    *)
(* either the wrap instance refutes StreamIntegrity, and without OneGrid   *)
(* the stale instance refutes EarlyDataPulledIn.                           *)
(***************************************************************************)
EXTENDS ReceiveStream, FiniteSetTheorems, SequenceTheorems, TLAPS

QueueType(q) ==
    /\ q = [nxt |-> q.nxt, buf |-> q.buf, ooo |-> q.ooo, held |-> q.held]
    /\ q.nxt \in SeqNum
    /\ q.buf \in Seq(Nat)
    /\ DOMAIN q.ooo \subseteq SeqNum
    /\ \A s \in DOMAIN q.ooo : q.ooo[s] \in Seq(Nat)
    /\ q.held \in Nat

Counted(ooo, held) ==
    IsFiniteSet(ParkedBytes(ooo)) /\ held = Cardinality(ParkedBytes(ooo))

\* The inductive invariant: the counter is exact, and it is the counter that
\* keeps the queue within the capacity.
QueueOK(q) ==
    /\ QueueType(q)
    /\ Counted(q.ooo, q.held)
    /\ Len(q.buf) + q.held <= Capacity

IInv ==
    /\ QueueOK(rq)
    /\ pc \in {"ready", "draining", "closed"}
    /\ delivered \in Seq(Nat)
    /\ fin \in BOOLEAN

-----------------------------------------------------------------------------
(* Slices and sequence numbers.                                            *)

\* seq_add masks: its result is a sequence number.
LEMMA AddIsSeqNum ==
    ASSUME NEW x \in Int, NEW k \in Int
    PROVE  seq_add(x, k) \in SeqNum
BY SeqModAssumption DEF seq_add, SeqNum

\* The first n bytes of a payload (data[:n]) are a payload no longer than n.
LEMMA PrefixType ==
    ASSUME NEW data \in Seq(Nat), NEW n \in Nat
    PROVE  /\ FirstBytes(data, n) \in Seq(Nat)
           /\ Len(FirstBytes(data, n)) = Least(n, Len(data))
<1> DEFINE k == Least(n, Len(data))
<1>1. k \in 0 .. Len(data)
  BY LenProperties DEF Least
<1> HIDE DEF k
<1>2. SubSeq(data, 1, k) \in Seq(Nat) /\ Len(SubSeq(data, 1, k)) = k
  BY <1>1, SubSeqProperties
<1> QED BY <1>2 DEF FirstBytes, k

\* What follows the first n bytes (data[n:]) is the rest of the payload.
LEMMA SuffixType ==
    ASSUME NEW data \in Seq(Nat), NEW n \in Int, n <= Len(data)
    PROVE  /\ BytesFrom(data, n) \in Seq(Nat)
           /\ Len(BytesFrom(data, n)) <= Len(data)
           /\ n >= 0 => Len(BytesFrom(data, n)) = Len(data) - n
<1> DEFINE k == IF n >= 0 THEN n ELSE Most(Len(data) + n, 0)
<1>1. Len(data) \in Nat
  BY LenProperties
<1>2. k \in 0 .. Len(data) /\ (n >= 0 => k = n)
  BY <1>1 DEF Most
<1> HIDE DEF k
<1>3. /\ SubSeq(data, k + 1, Len(data)) \in Seq(Nat)
      /\ Len(SubSeq(data, k + 1, Len(data))) = Len(data) - k
  BY <1>1, <1>2, SubSeqProperties
<1>4. BytesFrom(data, n) = SubSeq(data, k + 1, Len(data))
  BY DEF BytesFrom, k
<1> QED BY <1>1, <1>2, <1>3, <1>4

-----------------------------------------------------------------------------
(* Counting the parked bytes.                                              *)

\* The bytes parked under one key are as many as its payload is long.
LEMMA EntrySize ==
    ASSUME NEW f, NEW s, Len(f[s]) \in Nat
    PROVE  /\ IsFiniteSet(EntryBytes(f, s))
           /\ Cardinality(EntryBytes(f, s)) = Len(f[s])
<1> DEFINE n == Len(f[s])
<1>1. n \in Nat
  OBVIOUS
<1> HIDE DEF n
<1>2. IsFiniteSet({s}) /\ Cardinality({s}) = 1
  BY FS_Singleton
<1>3. IsFiniteSet(1 .. n) /\ Cardinality(1 .. n) = n
  BY <1>1, FS_Interval
<1>4. /\ IsFiniteSet({s} \X (1 .. n))
      /\ Cardinality({s} \X (1 .. n)) = Cardinality({s}) * Cardinality(1 .. n)
  BY <1>2, <1>3, FS_Product, Zenon
<1>5. Cardinality({s}) * Cardinality(1 .. n) = n
  BY <1>1, <1>2, <1>3
<1> QED BY <1>4, <1>5 DEF EntryBytes, n

\* Adding an entry adds its length to the count.
LEMMA OneMoreEntry ==
    ASSUME NEW f, NEW g, NEW s, s \notin DOMAIN f,
           DOMAIN g = DOMAIN f \cup {s},
           \A t \in DOMAIN f : g[t] = f[t],
           Len(g[s]) \in Nat,
           IsFiniteSet(ParkedBytes(f))
    PROVE  /\ IsFiniteSet(ParkedBytes(g))
           /\ Cardinality(ParkedBytes(g)) = Cardinality(ParkedBytes(f)) + Len(g[s])
<1>1. \A t \in DOMAIN f : EntryBytes(g, t) = EntryBytes(f, t)
  BY DEF EntryBytes
<1>2. ParkedBytes(g) = ParkedBytes(f) \cup EntryBytes(g, s)
  BY <1>1 DEF ParkedBytes
<1>3. ParkedBytes(f) \cap EntryBytes(g, s) = {}
  BY DEF ParkedBytes, EntryBytes
<1>4. /\ IsFiniteSet(EntryBytes(g, s))
      /\ Cardinality(EntryBytes(g, s)) = Len(g[s])
  BY EntrySize
<1>5. /\ IsFiniteSet(ParkedBytes(f) \cup EntryBytes(g, s))
      /\ Cardinality(ParkedBytes(f) \cup EntryBytes(g, s)) =
            Cardinality(ParkedBytes(f)) + Cardinality(EntryBytes(g, s))
              - Cardinality(ParkedBytes(f) \cap EntryBytes(g, s))
  BY <1>4, FS_Union
<1>6. Cardinality(ParkedBytes(f)) \in Nat /\ Cardinality({}) = 0
  BY FS_CardinalityType, FS_EmptySet
<1>7. /\ IsFiniteSet(ParkedBytes(g))
      /\ Cardinality(ParkedBytes(g)) = Cardinality(ParkedBytes(f)) + Len(g[s]) - 0
  BY <1>2, <1>3, <1>4, <1>5, <1>6, Zenon
<1>8. Cardinality(ParkedBytes(f)) + Len(g[s]) - 0 = Cardinality(ParkedBytes(f)) + Len(g[s])
  BY <1>6
<1> QED BY <1>7, <1>8, Zenon

\* Removing one takes it off again.
LEMMA OneEntryLess ==
    ASSUME NEW f, NEW g, NEW s \in DOMAIN g,
           DOMAIN f = DOMAIN g \ {s},
           \A t \in DOMAIN f : g[t] = f[t],
           Len(g[s]) \in Nat,
           IsFiniteSet(ParkedBytes(g))
    PROVE  /\ IsFiniteSet(ParkedBytes(f))
           /\ Cardinality(ParkedBytes(g)) = Cardinality(ParkedBytes(f)) + Len(g[s])
<1>1. \A t \in DOMAIN f : EntryBytes(g, t) = EntryBytes(f, t)
  BY DEF EntryBytes
<1>2. ParkedBytes(f) \subseteq ParkedBytes(g)
  BY <1>1 DEF ParkedBytes
<1>3. IsFiniteSet(ParkedBytes(f))
  BY <1>2, FS_Subset
<1>4. DOMAIN g = DOMAIN f \cup {s} /\ s \notin DOMAIN f
  OBVIOUS
<1> QED BY <1>3, <1>4, OneMoreEntry

\* An empty reorder queue holds nothing.
LEMMA NothingParked == Counted(<< >>, 0)
<1>1. ParkedBytes(<< >>) = {}
  BY DEF ParkedBytes
<1> QED BY <1>1, FS_EmptySet DEF Counted

-----------------------------------------------------------------------------
(* One lemma per operation of the queue.                                   *)

\* The window never exceeds what the capacity leaves free.
LEMMA WindowType ==
    ASSUME NEW q, QueueOK(q)
    PROVE  /\ RecvWindow(q) \in Nat
           /\ RecvWindow(q) = Capacity - (Len(q.buf) + q.held)
<1>1. Len(q.buf) \in Nat /\ q.held \in Nat /\ Len(q.buf) + q.held <= Capacity
  BY LenProperties DEF QueueOK, QueueType
<1> QED BY <1>1, CapacityAssumption DEF RecvWindow, Most

\* Appending in-order data cut to the free space keeps the queue in order.
LEMMA AppendKeeps ==
    ASSUME NEW q, QueueOK(q), NEW data \in Seq(Nat)
    PROVE  QueueOK(Append_In_Order(q, data))
<1> DEFINE chunk == FirstBytes(data, RecvWindow(q))
           r == Append_In_Order(q, data)
<1>1. /\ Len(q.buf) \in Nat /\ q.held \in Nat /\ Len(data) \in Nat
      /\ q.buf \in Seq(Nat) /\ q.nxt \in Int
  BY LenProperties, SeqModAssumption DEF QueueOK, QueueType, SeqNum
<1>2. /\ RecvWindow(q) \in Nat
      /\ RecvWindow(q) = Capacity - (Len(q.buf) + q.held)
  BY WindowType
<1>3. chunk \in Seq(Nat) /\ Len(chunk) \in Nat /\ Len(chunk) <= RecvWindow(q)
  BY <1>1, <1>2, PrefixType, LenProperties DEF Least
<1>4. q.buf \o chunk \in Seq(Nat) /\ Len(q.buf \o chunk) = Len(q.buf) + Len(chunk)
  BY <1>1, <1>3, ConcatProperties
<1>5. seq_add(q.nxt, Len(chunk)) \in SeqNum
  BY <1>1, <1>3, AddIsSeqNum
<1>6. r = [nxt |-> seq_add(q.nxt, Len(chunk)), buf |-> q.buf \o chunk,
           ooo |-> q.ooo, held |-> q.held]
  <2>1. q = [nxt |-> q.nxt, buf |-> q.buf, ooo |-> q.ooo, held |-> q.held]
    BY DEF QueueOK, QueueType
  <2> HIDE DEF chunk
  <2>2. r = [q EXCEPT !.buf = q.buf \o chunk, !.nxt = seq_add(q.nxt, Len(chunk))]
    BY DEF Append_In_Order, chunk
  <2> QED BY <2>1, <2>2
<1> HIDE DEF chunk, r
<1>7. QueueOK(r)
  <2>1. QueueType(r)
    BY <1>4, <1>5, <1>6 DEF QueueOK, QueueType
  <2>2. Counted(r.ooo, r.held)
    BY <1>6 DEF QueueOK
  <2>3. Len(r.buf) + r.held <= Capacity
    BY <1>1, <1>2, <1>3, <1>4, <1>6, CapacityAssumption
  <2> QED BY <2>1, <2>2, <2>3 DEF QueueOK
<1> QED BY <1>7 DEF r

\* ReorderQueue.insert keeps the queue in order.
LEMMA ParkKeeps ==
    ASSUME NEW q, QueueOK(q), NEW seq \in SeqNum, NEW data \in Seq(Nat),
           Len(data) <= RecvWindow(q)
    PROVE  QueueOK(Park(q, seq, data))
<1>1. CASE Park(q, seq, data) = q
  BY <1>1
<1>2. CASE Park(q, seq, data) # q
  <2> DEFINE g == [s \in DOMAIN q.ooo \cup {seq} |->
                       IF s = seq THEN data ELSE q.ooo[s]]
             r == Park(q, seq, data)
  <2>1. /\ seq \notin DOMAIN q.ooo
        /\ r = [nxt |-> q.nxt, buf |-> q.buf, ooo |-> g, held |-> q.held + Len(data)]
    BY <1>2 DEF Park, QueueOK, QueueType
  <2>2. Len(data) \in Nat /\ Len(q.buf) \in Nat /\ q.held \in Nat
    BY LenProperties DEF QueueOK, QueueType
  <2>3. /\ DOMAIN g = DOMAIN q.ooo \cup {seq}
        /\ g[seq] = data
        /\ \A t \in DOMAIN q.ooo : g[t] = q.ooo[t]
    BY <2>1
  <2> HIDE DEF g, r
  <2>4. /\ IsFiniteSet(ParkedBytes(g))
        /\ Cardinality(ParkedBytes(g)) = Cardinality(ParkedBytes(q.ooo)) + Len(g[seq])
    BY <2>1, <2>2, <2>3, OneMoreEntry DEF QueueOK, Counted
  <2>5. QueueType(r)
    BY <2>1, <2>2, <2>3 DEF QueueOK, QueueType
  <2>6. Counted(r.ooo, r.held)
    BY <2>1, <2>3, <2>4 DEF QueueOK, Counted
  <2>7. Len(r.buf) + r.held <= Capacity
    BY <2>1, <2>2, WindowType, CapacityAssumption
  <2> QED BY <2>5, <2>6, <2>7 DEF QueueOK, r
<1> QED BY <1>1, <1>2

\* Taking the next parked payload moves its bytes and loses none.
LEMMA TakeKeeps ==
    ASSUME NEW q, QueueOK(q), CanTake(q)
    PROVE  QueueOK(TakeNext(q))
<1> DEFINE data == q.ooo[q.nxt]
           h == [s \in DOMAIN q.ooo \ {q.nxt} |-> q.ooo[s]]
           r == TakeNext(q)
<1>1. data \in Seq(Nat) /\ Len(data) \in Nat /\ q.nxt \in DOMAIN q.ooo
  BY LenProperties DEF CanTake, QueueOK, QueueType
<1>2. /\ q.buf \in Seq(Nat) /\ Len(q.buf) \in Nat /\ q.held \in Nat
      /\ q.nxt \in Int
  BY LenProperties, SeqModAssumption DEF QueueOK, QueueType, SeqNum
<1>3. r = [nxt |-> seq_add(q.nxt, Len(data)), buf |-> q.buf \o data,
           ooo |-> h, held |-> q.held - Len(data)]
  BY DEF TakeNext
<1>4. /\ DOMAIN h = DOMAIN q.ooo \ {q.nxt}
      /\ \A t \in DOMAIN h : q.ooo[t] = h[t]
  OBVIOUS
<1>5. q.buf \o data \in Seq(Nat) /\ Len(q.buf \o data) = Len(q.buf) + Len(data)
  BY <1>1, <1>2, ConcatProperties
<1>6. seq_add(q.nxt, Len(data)) \in SeqNum
  BY <1>1, <1>2, AddIsSeqNum
<1> HIDE DEF h, r
<1>7. /\ IsFiniteSet(ParkedBytes(h))
      /\ Cardinality(ParkedBytes(q.ooo)) = Cardinality(ParkedBytes(h)) + Len(data)
  BY <1>1, <1>4, OneEntryLess DEF QueueOK, Counted
<1> HIDE DEF data
<1>8. /\ Cardinality(ParkedBytes(h)) \in Nat
      /\ q.held - Len(data) = Cardinality(ParkedBytes(h))
  BY <1>1, <1>2, <1>7, FS_CardinalityType DEF QueueOK, Counted
<1>9. QueueType(r)
  BY <1>3, <1>4, <1>5, <1>6, <1>8 DEF QueueOK, QueueType
<1>10. Counted(r.ooo, r.held)
  BY <1>3, <1>7, <1>8 DEF Counted
<1>11. Len(r.buf) + r.held <= Capacity
  BY <1>1, <1>2, <1>3, <1>5, CapacityAssumption DEF QueueOK
<1> QED BY <1>9, <1>10, <1>11 DEF QueueOK, r

\* read() keeps the queue in order.
LEMMA ReadKeeps ==
    ASSUME NEW q, QueueOK(q), NEW n \in Nat
    PROVE  QueueOK(AfterRead(q, n)) /\ ReadChunk(q, n) \in Seq(Nat)
<1> DEFINE k == Len(ReadChunk(q, n))
           r == AfterRead(q, n)
<1>1. q.buf \in Seq(Nat) /\ Len(q.buf) \in Nat /\ q.held \in Nat
  BY LenProperties DEF QueueOK, QueueType
<1>2. ReadChunk(q, n) \in Seq(Nat) /\ k \in Nat /\ k <= Len(q.buf)
  BY <1>1, PrefixType, LenProperties DEF ReadChunk, Least
<1>3. r = [nxt |-> q.nxt, buf |-> BytesFrom(q.buf, k), ooo |-> q.ooo, held |-> q.held]
  BY DEF AfterRead, QueueOK, QueueType
<1> HIDE DEF k, r
<1>4. BytesFrom(q.buf, k) \in Seq(Nat) /\ Len(BytesFrom(q.buf, k)) <= Len(q.buf)
  BY <1>1, <1>2, SuffixType
<1>5. QueueType(r)
  BY <1>3, <1>4 DEF QueueOK, QueueType
<1>6. Counted(r.ooo, r.held)
  BY <1>3 DEF QueueOK
<1>7. Len(r.buf) + r.held <= Capacity
  BY <1>1, <1>3, <1>4, LenProperties, CapacityAssumption DEF QueueOK
<1> QED BY <1>2, <1>5, <1>6, <1>7 DEF QueueOK, r

\* clear() empties both buffers and the count.
LEMMA ClearKeeps ==
    ASSUME NEW q, QueueOK(q)
    PROVE  QueueOK(ClearReceive(q))
<1> DEFINE r == ClearReceive(q)
<1>1. r = [nxt |-> q.nxt, buf |-> << >>, ooo |-> << >>, held |-> 0]
  BY DEF ClearReceive
<1> HIDE DEF r
<1>2. QueueType(r)
  BY <1>1, EmptySeq DEF QueueOK, QueueType
<1>3. Counted(r.ooo, r.held)
  BY <1>1, NothingParked
<1>4. Len(r.buf) + r.held <= Capacity
  BY <1>1, EmptySeq, CapacityAssumption
<1> QED BY <1>2, <1>3, <1>4 DEF QueueOK, r

-----------------------------------------------------------------------------
(* The specification keeps the invariant.                                  *)

\* What the peer sends is a payload at a sequence number.
LEMMA SegmentType ==
    ASSUME NEW seg \in Segments
    PROVE  /\ seg.pos \in Nat /\ seg.len \in Nat \ {0}
           /\ Payload(seg) \in Seq(Nat) /\ Len(Payload(seg)) = seg.len
           /\ SeqOf(seg.pos) \in SeqNum
<1>1. seg.pos \in Nat /\ seg.len \in Nat \ {0}
  BY StreamAssumption
<1>2. Payload(seg) \in Seq(Nat) /\ Len(Payload(seg)) = seg.len
  <2>1. \A i \in 1 .. seg.len : seg.pos + i - 1 \in Nat
    BY <1>1
  <2> QED BY <1>1, <2>1, IsASeq DEF Payload
<1>3. SeqOf(seg.pos) \in SeqNum
  <2>1. FirstSeq \in Int
    BY StreamAssumption, SeqModAssumption DEF SeqNum
  <2>2. seq_add(FirstSeq, 1) \in Int
    BY <2>1, SeqModAssumption DEF seq_add
  <2> QED BY <1>1, <2>2, AddIsSeqNum DEF SeqOf
<1> QED BY <1>1, <1>2, <1>3

\* The part of a segment past rcv_nxt is a payload.
LEMMA InOrderPartType ==
    ASSUME NEW q, QueueOK(q), NEW seq \in SeqNum, NEW data \in Seq(Nat)
    PROVE  InOrderPart(q, seq, data) \in Seq(Nat)
<1> DEFINE d == seq_diff(q.nxt, seq)
<1>1. d \in Int
  <2>1. q.nxt \in Int /\ seq \in Int
    BY SeqModAssumption DEF QueueOK, QueueType, SeqNum
  <2> QED BY <2>1, SeqModAssumption DEF seq_diff, SEQ_HALF
<1> HIDE DEF d
<1>2. Len(data) \in Nat
  BY LenProperties
<1>3. ~(d >= Len(data)) => BytesFrom(data, d) \in Seq(Nat)
  BY <1>1, <1>2, SuffixType
<1> QED BY <1>3, EmptySeq DEF InOrderPart, d

\* A new queue satisfies the invariant.
LEMMA InitHolds == Init => IInv
<1> SUFFICES ASSUME Init PROVE IInv
  OBVIOUS
<1>1. rq = [nxt |-> seq_add(FirstSeq, 1), buf |-> << >>, ooo |-> << >>, held |-> 0]
  BY DEF Init, NewReceiveQueue
<1>2. seq_add(FirstSeq, 1) \in SeqNum
  <2>1. FirstSeq \in Int
    BY StreamAssumption, SeqModAssumption DEF SeqNum
  <2> QED BY <2>1, AddIsSeqNum
<1>3. QueueType(rq)
  BY <1>1, <1>2, EmptySeq DEF QueueType
<1>4. Counted(rq.ooo, rq.held)
  BY <1>1, NothingParked
<1>5. Len(rq.buf) + rq.held <= Capacity
  BY <1>1, EmptySeq, CapacityAssumption
<1> QED BY <1>3, <1>4, <1>5, EmptySeq DEF IInv, QueueOK, Init

\* Every step of the reader or of the application keeps the invariant.
LEMMA StepKeeps == IInv /\ [Next]_vars => IInv'
<1> SUFFICES ASSUME IInv, [Next]_vars PROVE IInv'
  OBVIOUS
<1>1. ASSUME NEW seg \in Segments, Arrive(seg) PROVE IInv'
  <2> DEFINE seq == SeqOf(seg.pos)
             data == Payload(seg)
  <2>1. data \in Seq(Nat) /\ Len(data) \in Nat /\ seq \in SeqNum
    BY SegmentType, LenProperties
  <2> HIDE DEF seq, data
  <2>2. CASE rq' = ParkTrimmed(rq, seq, data)
    <3>1. RecvWindow(rq) \in Nat
      BY WindowType DEF IInv
    <3> DEFINE trimmed == FirstBytes(data, RecvWindow(rq))
    <3>2. trimmed \in Seq(Nat) /\ Len(trimmed) <= RecvWindow(rq)
      BY <2>1, <3>1, PrefixType DEF Least
    <3> HIDE DEF trimmed
    <3>3. QueueOK(Park(rq, seq, trimmed))
      BY <2>1, <3>2, ParkKeeps DEF IInv
    <3> QED BY <1>1, <2>2, <3>3 DEF ParkTrimmed, trimmed, Arrive, IInv
  <2>3. CASE rq' = Append_In_Order(rq, InOrderPart(rq, seq, data))
    <3>1. InOrderPart(rq, seq, data) \in Seq(Nat)
      BY <2>1, InOrderPartType DEF IInv
    <3>2. QueueOK(Append_In_Order(rq, InOrderPart(rq, seq, data)))
      BY <3>1, AppendKeeps DEF IInv
    <3> QED BY <1>1, <2>3, <3>2 DEF Arrive, IInv
  <2> QED BY <1>1, <2>2, <2>3 DEF Arrive, seq, data
<1>2. CASE DrainStep
  BY <1>2, TakeKeeps DEF DrainStep, IInv
<1>3. ASSUME NEW n \in 1 .. MaxRead, Read(n) PROVE IInv'
  <2>1. n \in Nat
    OBVIOUS
  <2>2. QueueOK(AfterRead(rq, n)) /\ ReadChunk(rq, n) \in Seq(Nat)
    BY <2>1, ReadKeeps DEF IInv
  <2>3. delivered \o ReadChunk(rq, n) \in Seq(Nat)
    BY <2>2, ConcatProperties DEF IInv
  <2> QED BY <1>3, <2>2, <2>3 DEF Read, IInv
<1>4. CASE Fin
  <2> DEFINE n == seq_add(rq.nxt, 1)
  <2>1. n \in SeqNum
    <3>1. rq.nxt \in Int
      BY SeqModAssumption DEF IInv, QueueOK, QueueType, SeqNum
    <3> QED BY <3>1, AddIsSeqNum
  <2>2. rq' = [nxt |-> n, buf |-> rq.buf, ooo |-> rq.ooo, held |-> rq.held]
    BY <1>4 DEF Fin, IInv, QueueOK, QueueType
  <2> HIDE DEF n
  <2>3. QueueOK(rq')
    BY <2>1, <2>2 DEF IInv, QueueOK, QueueType
  <2> QED BY <1>4, <2>3 DEF Fin, IInv
<1>5. CASE Teardown
  BY <1>5, ClearKeeps DEF Teardown, IInv
<1>6. CASE UNCHANGED vars
  BY <1>6 DEF vars, IInv
<1> QED BY <1>1, <1>2, <1>3, <1>4, <1>5, <1>6 DEF Next

\* The inductive invariant holds of every behaviour.
LEMMA Invariant == Spec => []IInv
BY InitHolds, StepKeeps, PTL DEF Spec

\* The receive queue is well formed in every reachable state, whatever arrives.
THEOREM TypeCorrect == Spec => []TypeOK
<1>1. IInv => TypeOK
  BY DEF IInv, QueueOK, QueueType, TypeOK
<1> QED BY <1>1, Invariant, PTL

\* ReorderQueue.bytes_buffered is the number of bytes parked in _data.
THEOREM CounterExact == Spec => []HeldExact
<1>1. IInv => HeldExact
  BY DEF IInv, QueueOK, Counted, HeldExact
<1> QED BY <1>1, Invariant, PTL

\* Unread and parked bytes together never exceed receive_capacity, for every
\* capacity, every segmentation and every interleaving of reads with the drain
\* loop.
THEOREM MemoryBounded == Spec => []MemoryBound
<1>1. IInv => MemoryBound
  BY DEF IInv, QueueOK, Counted, MemoryBound
<1> QED BY <1>1, Invariant, PTL

-----------------------------------------------------------------------------
(* The stream.                                                             *)

\* Positions of the stream have sequence numbers of their own.
ShortStream == StreamLen < SEQ_MOD

\* Two segments are the same or have no byte in common.
OneGrid ==
    \A s, t \in Segments :
        s = t \/ s.pos + s.len <= t.pos \/ t.pos + t.len <= s.pos

\* data, parked under s, are the first bytes of seg.
FromSegment(s, data, seg) ==
    /\ s = SeqOf(seg.pos)
    /\ Len(data) \in 1 .. seg.len
    /\ \A i \in 1 .. Len(data) : data[i] = seg.pos + i - 1

\* seg starts no earlier than the stream has come, and between two segments
\* later than that.
Ahead(seg, total, ready) ==
    /\ total <= seg.pos /\ seg.pos - total < SEQ_HALF
    /\ ready => total < seg.pos

\* Everything parked comes from a segment.
ParkedFrom(ooo, total, ready) ==
    \A s \in DOMAIN ooo : \E seg \in Segments :
        FromSegment(s, ooo[s], seg) /\ (OneGrid => Ahead(seg, total, ready))

\* What has been read and what waits in order are the stream's first bytes.
InOrder(read, unread) ==
    /\ Len(read) + Len(unread) <= StreamLen
    /\ \A i \in 1 .. Len(read) : read[i] = i - 1
    /\ \A i \in 1 .. Len(unread) : unread[i] = Len(read) + i - 1

\* The inductive invariant of the stream.
StreamInv ==
    /\ InOrder(delivered, rq.buf)
    /\ pc # "closed" =>
         /\ rq.nxt = SeqOf(Total + (IF fin THEN 1 ELSE 0))
         /\ ParkedFrom(rq.ooo, Total, pc = "ready")
         /\ fin => pc = "ready" /\ Total = StreamLen

\* A multiple of the space that is less than one turn is no turn.
LEMMA OneTurn ==
    ASSUME NEW d \in Int, NEW z \in Int, z = SEQ_MOD * d, -SEQ_MOD < z, z < SEQ_MOD
    PROVE  d = 0
<1>1. SEQ_MOD \in Nat /\ SEQ_MOD >= 2
  BY SeqModAssumption
<1>2. CASE d >= 1
  BY <1>1, <1>2
<1>3. CASE d <= -1
  BY <1>1, <1>3
<1> QED BY <1>2, <1>3

\* A number is its whole turns and its remainder.
LEMMA Whole ==
    ASSUME NEW x \in Int
    PROVE  /\ x % SEQ_MOD \in SeqNum
           /\ x \div SEQ_MOD \in Int
           /\ x = SEQ_MOD * (x \div SEQ_MOD) + (x % SEQ_MOD)
BY SeqModAssumption DEF SeqNum

\* Whole turns leave the remainder as it is.
LEMMA SameRemainder ==
    ASSUME NEW x \in Int, NEW y \in Int, NEW q \in Int, x = y + SEQ_MOD * q
    PROVE  x % SEQ_MOD = y % SEQ_MOD
<1> DEFINE a == x \div SEQ_MOD
           b == y \div SEQ_MOD
           r == x % SEQ_MOD
           s == y % SEQ_MOD
<1>1. a \in Int /\ b \in Int /\ r \in SeqNum /\ s \in SeqNum
      /\ x = SEQ_MOD * a + r /\ y = SEQ_MOD * b + s
  BY Whole
<1>2. SEQ_MOD \in Nat
  BY SeqModAssumption
<1> HIDE DEF a, b, r, s
<1>3. r - s = SEQ_MOD * (b + q - a)
  BY <1>1, <1>2 DEF SeqNum
<1>4. r - s \in Int /\ -SEQ_MOD < r - s /\ r - s < SEQ_MOD
  BY <1>1, <1>2 DEF SeqNum
<1>5. b + q - a = 0
  BY <1>1, <1>3, <1>4, OneTurn
<1>6. r = s
  BY <1>1, <1>2, <1>3, <1>5 DEF SeqNum
<1> QED BY <1>6 DEF r, s

\* Remainders of small numbers.
LEMMA SmallRemainder ==
    ASSUME NEW x \in Int
    PROVE  /\ 0 <= x /\ x < SEQ_MOD => x % SEQ_MOD = x
           /\ -SEQ_MOD <= x /\ x < 0 => x % SEQ_MOD = x + SEQ_MOD
BY SeqModAssumption

\* The space is two halves.
LEMMA Halves == SEQ_MOD = 2 * SEQ_HALF /\ SEQ_HALF \in Nat \ {0}
BY SeqModAssumption DEF SEQ_HALF

\* The sequence number of a position is the position from the first number on,
\* up to whole turns.
LEMMA SeqOfIs ==
    ASSUME NEW p \in Nat
    PROVE  /\ SeqOf(p) \in SeqNum
           /\ \E n \in Int : SeqOf(p) = seq_add(FirstSeq, 1) + p + SEQ_MOD * n
<1> DEFINE b == seq_add(FirstSeq, 1)
           x == b + p
<1>1. b \in Int
  <2>1. FirstSeq \in Int
    BY StreamAssumption, SeqModAssumption DEF SeqNum
  <2> QED BY <2>1, SeqModAssumption DEF seq_add
<1> HIDE DEF b
<1>2. x \in Int
  BY <1>1
<1>3. SeqOf(p) = x % SEQ_MOD
  BY DEF SeqOf, seq_add, b
<1> HIDE DEF x
<1>4. /\ SeqOf(p) \in SeqNum
      /\ x \div SEQ_MOD \in Int
      /\ x = SEQ_MOD * (x \div SEQ_MOD) + SeqOf(p)
  BY <1>2, <1>3, Whole
<1>5. SeqOf(p) = x + SEQ_MOD * (-(x \div SEQ_MOD))
  BY <1>2, <1>4, SeqModAssumption DEF SeqNum
<1> QED BY <1>4, <1>5 DEF x, b

\* Adding bytes to a position adds them to its sequence number.
LEMMA SeqOfAdd ==
    ASSUME NEW p \in Nat, NEW k \in Nat
    PROVE  seq_add(SeqOf(p), k) = SeqOf(p + k)
<1> DEFINE b == seq_add(FirstSeq, 1)
<1>1. b \in Int
  <2>1. FirstSeq \in Int
    BY StreamAssumption, SeqModAssumption DEF SeqNum
  <2> QED BY <2>1, SeqModAssumption DEF seq_add
<1> HIDE DEF b
<1>2. PICK n \in Int : SeqOf(p) = b + p + SEQ_MOD * n
  BY SeqOfIs DEF b
<1>3. SeqOf(p) \in Int /\ SEQ_MOD \in Nat
  BY SeqOfIs, SeqModAssumption DEF SeqNum
<1>4. SeqOf(p) + k = (b + (p + k)) + SEQ_MOD * n
  BY <1>1, <1>2, <1>3
<1> DEFINE x == SeqOf(p) + k
           y == b + (p + k)
<1>5. x \in Int /\ y \in Int /\ x = y + SEQ_MOD * n
  BY <1>1, <1>3, <1>4
<1> HIDE DEF x, y
<1>6. x % SEQ_MOD = y % SEQ_MOD
  BY <1>5, SameRemainder
<1> QED BY <1>6 DEF x, y, seq_add, SeqOf, b

\* The distance of two sequence numbers is that of their positions, up to
\* whole turns.
LEMMA SeqOfDistance ==
    ASSUME NEW p \in Nat, NEW q \in Nat
    PROVE  (SeqOf(p) - SeqOf(q)) % SEQ_MOD = (p - q) % SEQ_MOD
<1> DEFINE b == seq_add(FirstSeq, 1)
<1>1. b \in Int
  <2>1. FirstSeq \in Int
    BY StreamAssumption, SeqModAssumption DEF SeqNum
  <2> QED BY <2>1, SeqModAssumption DEF seq_add
<1> HIDE DEF b
<1>2. PICK m \in Int : SeqOf(p) = b + p + SEQ_MOD * m
  BY SeqOfIs DEF b
<1>3. PICK n \in Int : SeqOf(q) = b + q + SEQ_MOD * n
  BY SeqOfIs DEF b
<1>4. SeqOf(p) \in Int /\ SeqOf(q) \in Int /\ SEQ_MOD \in Nat
  BY SeqOfIs, SeqModAssumption DEF SeqNum
<1> DEFINE x == SeqOf(p) - SeqOf(q)
           y == p - q
<1>5. x \in Int /\ y \in Int /\ x = y + SEQ_MOD * (m - n)
  BY <1>1, <1>2, <1>3, <1>4
<1> HIDE DEF x, y
<1>6. x % SEQ_MOD = y % SEQ_MOD
  BY <1>5, SameRemainder
<1> QED BY <1>6 DEF x, y

\* Less than one turn apart, equal sequence numbers are equal positions.
LEMMA SeqOfEqual ==
    ASSUME NEW p \in Nat, NEW q \in Nat, -SEQ_MOD < p - q, p - q < SEQ_MOD,
           SeqOf(p) = SeqOf(q)
    PROVE  p = q
<1> DEFINE d == p - q
<1>1. d \in Int /\ -SEQ_MOD < d /\ d < SEQ_MOD
  OBVIOUS
<1>2. d % SEQ_MOD = 0
  <2>1. SeqOf(p) - SeqOf(q) = 0
    BY SeqOfIs, SeqModAssumption DEF SeqNum
  <2>2. 0 % SEQ_MOD = 0
    BY SmallRemainder, SeqModAssumption
  <2> QED BY <2>1, <2>2, SeqOfDistance
<1> HIDE DEF d
<1>3. d = 0
  BY <1>1, <1>2, SmallRemainder, SeqModAssumption
<1> QED BY <1>3 DEF d

\* Within half a turn, comparing sequence numbers compares positions.
LEMMA SeqOfOrder ==
    ASSUME NEW p \in Nat, NEW q \in Nat, -SEQ_HALF <= p - q, p - q < SEQ_HALF
    PROVE  /\ seq_gt(SeqOf(p), SeqOf(q)) <=> p > q
           /\ seq_diff(SeqOf(p), SeqOf(q)) = p - q
<1> DEFINE d == p - q
           r == (SeqOf(p) - SeqOf(q)) % SEQ_MOD
<1>1. d \in Int /\ -SEQ_HALF <= d /\ d < SEQ_HALF /\ (d > 0 <=> p > q)
  BY Halves
<1>2. r = d % SEQ_MOD
  BY SeqOfDistance
<1>3. seq_gt(SeqOf(p), SeqOf(q)) <=> 0 < r /\ r < SEQ_HALF
  BY DEF seq_gt, seq_lt
<1>4. seq_diff(SeqOf(p), SeqOf(q)) = IF r >= SEQ_HALF THEN r - SEQ_MOD ELSE r
  BY DEF seq_diff
<1> HIDE DEF d, r
<1>5. /\ 0 <= d => r = d
      /\ d < 0 => r = d + SEQ_MOD
  BY <1>1, <1>2, SmallRemainder, Halves
<1>6. /\ 0 < r /\ r < SEQ_HALF <=> d > 0
      /\ (IF r >= SEQ_HALF THEN r - SEQ_MOD ELSE r) = d
  BY <1>1, <1>5, Halves
<1>7. seq_diff(SeqOf(p), SeqOf(q)) = d
  BY <1>4, <1>6
<1>8. seq_gt(SeqOf(p), SeqOf(q)) <=> p > q
  BY <1>1, <1>3, <1>6
<1> QED BY <1>7, <1>8 DEF d
-----------------------------------------------------------------------------
(* What slices contain.                                                    *)

\* data[:n] is what data begins with.
LEMMA PrefixBytes ==
    ASSUME NEW data \in Seq(Nat), NEW n \in Nat,
           NEW i \in 1 .. Len(FirstBytes(data, n))
    PROVE  FirstBytes(data, n)[i] = data[i]
<1> DEFINE k == Least(n, Len(data))
<1>1. k \in 0 .. Len(data)
  BY LenProperties DEF Least
<1>2. FirstBytes(data, n) = SubSeq(data, 1, k)
  BY DEF FirstBytes
<1> HIDE DEF k
<1>3. Len(SubSeq(data, 1, k)) = k /\ \A j \in 1 .. k : SubSeq(data, 1, k)[j] = data[j]
  BY <1>1, SubSeqProperties
<1> QED BY <1>2, <1>3

\* data[n:] is what follows its first n bytes.
LEMMA SuffixBytes ==
    ASSUME NEW data \in Seq(Nat), NEW n \in 0 .. Len(data),
           NEW i \in 1 .. Len(data) - n
    PROVE  BytesFrom(data, n)[i] = data[n + i]
<1>1. Len(data) \in Nat
  BY LenProperties
<1>2. BytesFrom(data, n) = SubSeq(data, n + 1, Len(data))
  BY <1>1 DEF BytesFrom
<1>3. SubSeq(data, n + 1, Len(data))[i] = data[n + 1 + i - 1]
  BY <1>1, SubSeqProperties
<1>4. n + 1 + i - 1 = n + i
  BY <1>1
<1> QED BY <1>2, <1>3, <1>4

\* The bytes of a segment are those of the stream at its position.
LEMMA PayloadBytes ==
    ASSUME NEW seg \in Segments, NEW i \in 1 .. seg.len
    PROVE  Payload(seg)[i] = seg.pos + i - 1
BY DEF Payload

\* Appending the stream's next bytes keeps what is held in order.
LEMMA AppendInOrder ==
    ASSUME NEW read \in Seq(Nat), NEW unread \in Seq(Nat), NEW data \in Seq(Nat),
           InOrder(read, unread),
           Len(read) + Len(unread) + Len(data) <= StreamLen,
           \A i \in 1 .. Len(data) : data[i] = Len(read) + Len(unread) + i - 1
    PROVE  InOrder(read, unread \o data)
<1> DEFINE new == unread \o data
<1>1. Len(read) \in Nat /\ Len(unread) \in Nat /\ Len(data) \in Nat /\ StreamLen \in Nat
  BY LenProperties, StreamAssumption
<1>2. /\ Len(new) = Len(unread) + Len(data)
      /\ \A i \in 1 .. Len(new) :
             new[i] = IF i <= Len(unread) THEN unread[i] ELSE data[i - Len(unread)]
  BY ConcatProperties
<1> HIDE DEF new
<1>3. ASSUME NEW i \in 1 .. Len(new) PROVE new[i] = Len(read) + i - 1
  <2>1. CASE i <= Len(unread)
    BY <1>1, <1>2, <2>1 DEF InOrder
  <2>2. CASE i > Len(unread)
    <3>1. i - Len(unread) \in 1 .. Len(data)
      BY <1>1, <1>2, <2>2
    <3>2. new[i] = data[i - Len(unread)]
      BY <1>1, <1>2, <2>2
    <3>3. new[i] = Len(read) + Len(unread) + (i - Len(unread)) - 1
      BY <3>1, <3>2
    <3> QED BY <1>1, <3>3
  <2> QED BY <1>1, <2>1, <2>2
<1>4. Len(read) + Len(new) <= StreamLen
  BY <1>1, <1>2
<1> QED BY <1>3, <1>4 DEF InOrder, new

\* chunk and left are the two parts of seq.
Cut(seq, chunk, left) ==
    /\ chunk \in Seq(Nat) /\ left \in Seq(Nat)
    /\ Len(seq) = Len(chunk) + Len(left)
    /\ \A i \in 1 .. Len(chunk) : chunk[i] = seq[i]
    /\ \A i \in 1 .. Len(left) : left[i] = seq[Len(chunk) + i]

\* Reading moves bytes from one to the other.
LEMMA ReadInOrder ==
    ASSUME NEW read \in Seq(Nat), NEW unread \in Seq(Nat), InOrder(read, unread),
           NEW chunk, NEW left, Cut(unread, chunk, left)
    PROVE  InOrder(read \o chunk, left)
<1> DEFINE new == read \o chunk
<1> USE DEF Cut
<1>1. /\ Len(read) \in Nat /\ Len(unread) \in Nat /\ Len(chunk) \in Nat
      /\ Len(left) \in Nat
  BY LenProperties
<1>2. /\ Len(new) = Len(read) + Len(chunk)
      /\ \A i \in 1 .. Len(new) :
             new[i] = IF i <= Len(read) THEN read[i] ELSE chunk[i - Len(read)]
  BY ConcatProperties
<1> HIDE DEF new
<1>3. ASSUME NEW i \in 1 .. Len(new) PROVE new[i] = i - 1
  <2>1. CASE i <= Len(read)
    <3>1. i \in 1 .. Len(read) /\ new[i] = read[i]
      BY <1>1, <1>2, <2>1
    <3> QED BY <3>1 DEF InOrder
  <2>2. CASE i > Len(read)
    <3> DEFINE j == i - Len(read)
    <3>1. j \in 1 .. Len(chunk) /\ j \in 1 .. Len(unread) /\ new[i] = chunk[j]
      BY <1>1, <1>2, <2>2
    <3>2. j = i - Len(read) /\ j \in Int
      BY <1>1
    <3> HIDE DEF j
    <3>3. new[i] = Len(read) + j - 1
      BY <3>1 DEF InOrder
    <3> QED BY <1>1, <3>2, <3>3
  <2> QED BY <1>1, <1>2, <2>1, <2>2
<1>4. ASSUME NEW i \in 1 .. Len(left) PROVE left[i] = Len(new) + i - 1
  <2> DEFINE j == Len(chunk) + i
  <2>1. j \in 1 .. Len(unread) /\ left[i] = unread[j] /\ j = Len(chunk) + i /\ i \in Int
    BY <1>1
  <2> HIDE DEF j
  <2>2. left[i] = Len(read) + j - 1
    BY <2>1 DEF InOrder
  <2> QED BY <1>1, <1>2, <2>1, <2>2
<1>5. Len(new) + Len(left) = Len(read) + Len(unread)
  BY <1>1, <1>2
<1>6. InOrder(new, left)
  BY <1>3, <1>4, <1>5 DEF InOrder
<1> QED BY <1>6 DEF new

\* read() cuts the buffer in two.
LEMMA ReadCuts ==
    ASSUME NEW buf \in Seq(Nat), NEW n \in Nat
    PROVE  Cut(buf, FirstBytes(buf, n), BytesFrom(buf, Len(FirstBytes(buf, n))))
<1> DEFINE chunk == FirstBytes(buf, n)
           k == Len(chunk)
           left == BytesFrom(buf, k)
<1>1. Len(buf) \in Nat
  BY LenProperties
<1>2. chunk \in Seq(Nat) /\ k \in 0 .. Len(buf)
  BY <1>1, PrefixType, LenProperties DEF Least
<1>3. \A i \in 1 .. k : chunk[i] = buf[i]
  BY PrefixBytes
<1> HIDE DEF k
<1>4. left \in Seq(Nat) /\ Len(left) = Len(buf) - k
  BY <1>1, <1>2, SuffixType
<1>5. \A i \in 1 .. Len(buf) - k : left[i] = buf[k + i]
  BY <1>1, <1>2, SuffixBytes
<1> HIDE DEF left, chunk
<1>6. /\ Len(buf) = k + Len(left)
      /\ \A i \in 1 .. Len(left) : left[i] = buf[k + i]
  BY <1>1, <1>2, <1>4, <1>5
<1> QED BY <1>2, <1>3, <1>4, <1>6 DEF Cut, k, left, chunk

-----------------------------------------------------------------------------
(* Each operation keeps the stream.                                        *)

\* What the invariant says in numbers.
LEMMA TotalType ==
    ASSUME IInv, StreamInv
    PROVE  /\ Total \in Nat /\ Total <= StreamLen /\ StreamLen \in Nat
           /\ delivered \in Seq(Nat) /\ Len(delivered) \in Nat
           /\ rq.buf \in Seq(Nat) /\ Len(rq.buf) \in Nat
           /\ QueueOK(rq)
BY LenProperties, StreamAssumption DEF IInv, StreamInv, InOrder, QueueOK, QueueType, Total

\* A timely segment is compared with rcv_nxt as its position with Total, and is
\* none once the FIN has been consumed.
LEMMA ArrivalOrder ==
    ASSUME IInv, StreamInv, NEW seg \in Segments, Arrive(seg)
    PROVE  /\ ~fin /\ rq.nxt = SeqOf(Total)
           /\ IsEarly(rq, SeqOf(seg.pos)) <=> seg.pos > Total
           /\ SeqOf(seg.pos) = rq.nxt <=> seg.pos = Total
           /\ seg.pos <= Total => seq_diff(rq.nxt, SeqOf(seg.pos)) = Total - seg.pos
           /\ seg.pos - Total < SEQ_HALF
<1>1. /\ Total \in Nat /\ Total <= StreamLen /\ StreamLen \in Nat
      /\ seg.pos \in Nat /\ seg.len \in Nat \ {0} /\ seg.pos + seg.len <= StreamLen
  BY TotalType, SegmentType, StreamAssumption
<1>2. /\ pc = "ready"
      /\ Total - seg.pos < SEQ_HALF
      /\ seg.pos + seg.len - Total < SEQ_HALF
      /\ seq_gt(seq_add(SeqOf(seg.pos), seg.len), rq.nxt)
  BY DEF Arrive, Timely, Overlaps
<1>3. seq_add(SeqOf(seg.pos), seg.len) = SeqOf(seg.pos + seg.len)
  BY <1>1, SeqOfAdd
<1>4. ASSUME fin PROVE FALSE
  <2> DEFINE e == seg.pos + seg.len
             n == Total + 1
  <2>1. rq.nxt = SeqOf(n) /\ Total = StreamLen
    BY <1>2, <1>4 DEF StreamInv
  <2>2. e \in Nat /\ n \in Nat /\ e < n /\ -SEQ_HALF <= e - n /\ e - n < SEQ_HALF
    BY <1>1, <1>2, <2>1, Halves
  <2> HIDE DEF e, n
  <2>3. ~seq_gt(SeqOf(e), SeqOf(n))
    BY <2>2, SeqOfOrder
  <2> QED BY <1>2, <1>3, <2>1, <2>3 DEF e
<1>5. rq.nxt = SeqOf(Total)
  <2>1. rq.nxt = SeqOf(Total + 0)
    BY <1>2, <1>4 DEF StreamInv
  <2> QED BY <1>1, <2>1
<1>6. /\ -SEQ_HALF <= seg.pos - Total /\ seg.pos - Total < SEQ_HALF
      /\ -SEQ_HALF <= Total - seg.pos /\ Total - seg.pos < SEQ_HALF
      /\ -SEQ_MOD < seg.pos - Total /\ seg.pos - Total < SEQ_MOD
  BY <1>1, <1>2, Halves
<1>7. /\ seq_gt(SeqOf(seg.pos), SeqOf(Total)) <=> seg.pos > Total
      /\ seq_diff(SeqOf(Total), SeqOf(seg.pos)) = Total - seg.pos
  BY <1>1, <1>6, SeqOfOrder
<1>8. SeqOf(seg.pos) = SeqOf(Total) <=> seg.pos = Total
  BY <1>1, <1>6, SeqOfEqual
<1> QED BY <1>1, <1>4, <1>5, <1>6, <1>7, <1>8 DEF IsEarly

\* An early segment is parked as what it is.
LEMMA ParkStep ==
    ASSUME IInv, StreamInv, NEW seg \in Segments, Arrive(seg),
           seg.pos > Total
    PROVE  StreamInv'
<1> DEFINE seq == SeqOf(seg.pos)
           cut == FirstBytes(Payload(seg), RecvWindow(rq))
<1>1. /\ ~fin /\ rq.nxt = SeqOf(Total) /\ IsEarly(rq, seq)
      /\ seg.pos - Total < SEQ_HALF
  BY ArrivalOrder
<1>2. /\ pc = "ready" /\ pc' = "ready" /\ UNCHANGED <<delivered, fin>>
      /\ rq' = Park(rq, seq, cut)
  BY <1>1 DEF Arrive, ParkTrimmed
<1>3. CASE rq' = rq
  BY <1>2, <1>3 DEF StreamInv, Total
<1>4. CASE rq' # rq
  <2> DEFINE g == [s \in DOMAIN rq.ooo \cup {seq} |-> IF s = seq THEN cut ELSE rq.ooo[s]]
  <2>1. /\ cut # << >> /\ seq \notin DOMAIN rq.ooo
        /\ rq' = [rq EXCEPT !.ooo = g, !.held = @ + Len(cut)]
    BY <1>2, <1>4 DEF Park
  <2>2. rq'.nxt = rq.nxt /\ rq'.buf = rq.buf /\ rq'.ooo = g
    <3>1. rq = [nxt |-> rq.nxt, buf |-> rq.buf, ooo |-> rq.ooo, held |-> rq.held]
      BY DEF IInv, QueueOK, QueueType
    <3> HIDE DEF g, cut
    <3> QED BY <2>1, <3>1
  <2>3. Total' = Total
    BY <1>2, <2>2 DEF Total
  <2>4. /\ Payload(seg) \in Seq(Nat) /\ Len(Payload(seg)) = seg.len
        /\ seg.pos \in Nat /\ seg.len \in Nat
    BY SegmentType
  <2>5. RecvWindow(rq) \in Nat
    BY WindowType DEF IInv
  <2>6. cut \in Seq(Nat) /\ Len(cut) <= seg.len /\ Len(cut) \in Nat
    BY <2>4, <2>5, PrefixType, LenProperties DEF Least
  <2>7. \A i \in 1 .. Len(cut) : cut[i] = Payload(seg)[i]
    BY <2>4, <2>5, PrefixBytes
  <2>8. Len(cut) # 0
    BY <2>1, <2>6, EmptySeq
  <2>9. seq = SeqOf(seg.pos)
    OBVIOUS
  <2>10. \A s \in DOMAIN g : s # seq => s \in DOMAIN rq.ooo /\ g[s] = rq.ooo[s]
    OBVIOUS
  <2>11. g[seq] = cut
    OBVIOUS
  <2> HIDE DEF cut, seq, g
  <2>12. \A i \in 1 .. Len(cut) : cut[i] = seg.pos + i - 1
    BY <2>4, <2>6, <2>7, PayloadBytes
  <2>13. FromSegment(seq, cut, seg)
    BY <2>4, <2>6, <2>8, <2>9, <2>12 DEF FromSegment
  <2>14. Ahead(seg, Total, TRUE)
    BY <1>1, <2>4, TotalType DEF Ahead
  <2>15. ParkedFrom(rq.ooo, Total, TRUE)
    BY <1>2 DEF StreamInv
  <2>16. ParkedFrom(g, Total, TRUE)
    BY <2>10, <2>11, <2>13, <2>14, <2>15 DEF ParkedFrom
  <2>17. InOrder(delivered, rq.buf)
    BY DEF StreamInv
  <2>18. rq.nxt = SeqOf(Total + 0)
    BY <1>1, <1>2 DEF StreamInv
  <2> QED BY <1>1, <1>2, <2>2, <2>3, <2>16, <2>17, <2>18 DEF StreamInv
<1> QED BY <1>3, <1>4

\* The unseen part of a segment continues the stream.
LEMMA InOrderBytes ==
    ASSUME IInv, StreamInv, NEW seg \in Segments, Arrive(seg),
           seg.pos <= Total
    PROVE  LET part == InOrderPart(rq, SeqOf(seg.pos), Payload(seg))
           IN  /\ part # << >> /\ part \in Seq(Nat)
               /\ Total + Len(part) = seg.pos + seg.len
               /\ \A i \in 1 .. Len(part) : part[i] = Total + i - 1
<1> DEFINE seq == SeqOf(seg.pos)
           data == Payload(seg)
           part == InOrderPart(rq, seq, data)
           d == Total - seg.pos
<1>1. /\ ~IsEarly(rq, seq)
      /\ seq = rq.nxt <=> seg.pos = Total
      /\ seq_diff(rq.nxt, seq) = d
  <2>1. Total \in Nat /\ seg.pos \in Nat
    BY TotalType, SegmentType
  <2> QED BY <2>1, ArrivalOrder
<1>2. /\ data \in Seq(Nat) /\ Len(data) = seg.len /\ seg.pos \in Nat
      /\ seg.len \in Nat \ {0} /\ Total \in Nat
  BY SegmentType, TotalType
<1>3. part # << >>
  BY <1>1 DEF Arrive, Accepts
<1>4. ~seq_gt(seq, rq.nxt) \/ seq = rq.nxt
  BY <1>1 DEF IsEarly
<1>5. d \in Nat
  BY <1>2
<1>6. CASE seq = rq.nxt
  <2>1. part = data /\ seg.pos = Total
    BY <1>1, <1>6 DEF InOrderPart
  <2> HIDE DEF part
  <2>2. \A i \in 1 .. Len(part) : part[i] = seg.pos + i - 1
    BY <1>2, <2>1, PayloadBytes
  <2> QED BY <1>2, <1>3, <2>1, <2>2 DEF part
<1>7. CASE seq # rq.nxt
  <2>1. part = IF seq_diff(rq.nxt, seq) >= Len(data) THEN << >> ELSE BytesFrom(data, d)
    BY <1>1, <1>4, <1>7 DEF InOrderPart
  <2>2. d < seg.len /\ part = BytesFrom(data, d)
    <3> HIDE DEF d, part
    <3> QED BY <1>1, <1>2, <1>3, <1>5, <2>1
  <2>3. d = Total - seg.pos
    OBVIOUS
  <2>4. d \in 0 .. Len(data)
    <3> HIDE DEF d, data
    <3> QED BY <1>2, <1>5, <2>2
  <2> HIDE DEF d
  <2>5. BytesFrom(data, d) \in Seq(Nat) /\ Len(BytesFrom(data, d)) = seg.len - d
    BY <1>2, <1>5, <2>2, SuffixType
  <2>6. \A i \in 1 .. Len(data) - d : BytesFrom(data, d)[i] = data[d + i]
    BY <1>2, <2>4, SuffixBytes
  <2> HIDE DEF part
  <2>7. part \in Seq(Nat) /\ Len(part) = seg.len - d
    BY <2>2, <2>5
  <2>8. Total + Len(part) = seg.pos + seg.len
    BY <1>2, <1>5, <2>3, <2>7
  <2>9. ASSUME NEW i \in 1 .. Len(part) PROVE part[i] = Total + i - 1
    <3>1. d + i \in 1 .. seg.len /\ i \in 1 .. Len(data) - d
      BY <1>2, <1>5, <2>2, <2>7
    <3>2. part[i] = data[d + i]
      BY <2>2, <2>6, <3>1
    <3>3. part[i] = seg.pos + (d + i) - 1
      BY <3>1, <3>2, PayloadBytes
    <3> QED BY <1>2, <1>5, <2>3, <3>3
  <2> QED BY <1>3, <2>7, <2>8, <2>9 DEF part
<1> QED BY <1>6, <1>7

\* In-order data moves nxt along the stream and, on one grid, up to what is
\* parked at most.
LEMMA AppendStep ==
    ASSUME IInv, StreamInv, NEW seg \in Segments, Arrive(seg),
           seg.pos <= Total
    PROVE  StreamInv'
<1> DEFINE part == InOrderPart(rq, SeqOf(seg.pos), Payload(seg))
           w == RecvWindow(rq)
           chunk == FirstBytes(part, w)
<1>1. /\ Total \in Nat /\ Total <= StreamLen /\ StreamLen \in Nat
      /\ delivered \in Seq(Nat) /\ Len(delivered) \in Nat
      /\ rq.buf \in Seq(Nat) /\ Len(rq.buf) \in Nat
      /\ Total = Len(delivered) + Len(rq.buf)
  BY TotalType DEF Total
<1>2. /\ seg.pos \in Nat /\ seg.len \in Nat \ {0} /\ seg.pos + seg.len <= StreamLen
  BY SegmentType, StreamAssumption
<1>3. ~fin /\ rq.nxt = SeqOf(Total) /\ ~IsEarly(rq, SeqOf(seg.pos))
  BY <1>1, <1>2, ArrivalOrder
<1>4. /\ pc = "ready" /\ pc' = "draining" /\ UNCHANGED <<delivered, fin>>
      /\ rq' = Append_In_Order(rq, part)
  BY <1>3 DEF Arrive
<1>5. /\ part \in Seq(Nat) /\ Len(part) \in Nat
      /\ Total + Len(part) = seg.pos + seg.len
      /\ \A i \in 1 .. Len(part) : part[i] = Total + i - 1
  BY InOrderBytes, LenProperties
<1> HIDE DEF part
<1>6. w \in Nat
  BY WindowType DEF IInv
<1> HIDE DEF w
<1>7. chunk \in Seq(Nat) /\ Len(chunk) \in Nat /\ Len(chunk) <= Len(part)
  BY <1>5, <1>6, PrefixType, LenProperties DEF Least
<1>8. \A i \in 1 .. Len(chunk) : chunk[i] = part[i]
  BY <1>5, <1>6, PrefixBytes
<1>9. rq'.nxt = seq_add(rq.nxt, Len(chunk)) /\ rq'.buf = rq.buf \o chunk /\ rq'.ooo = rq.ooo
  <2>1. rq = [nxt |-> rq.nxt, buf |-> rq.buf, ooo |-> rq.ooo, held |-> rq.held]
    BY DEF IInv, QueueOK, QueueType
  <2>2. rq' = [rq EXCEPT !.buf = rq.buf \o chunk, !.nxt = seq_add(rq.nxt, Len(chunk))]
    BY <1>4 DEF Append_In_Order, w
  <2> HIDE DEF chunk
  <2> QED BY <2>1, <2>2
<1> HIDE DEF chunk
<1>10. Len(delivered) + Len(rq.buf) + Len(chunk) <= StreamLen
  BY <1>1, <1>2, <1>5, <1>7
<1>11. \A i \in 1 .. Len(chunk) : chunk[i] = Len(delivered) + Len(rq.buf) + i - 1
  BY <1>1, <1>5, <1>7, <1>8
<1>12. InOrder(delivered, rq.buf \o chunk)
  BY <1>1, <1>7, <1>10, <1>11, AppendInOrder DEF StreamInv
<1>13. Len(rq.buf \o chunk) = Len(rq.buf) + Len(chunk)
  BY <1>1, <1>7, ConcatProperties
<1>14. Total' = Total + Len(chunk)
  BY <1>1, <1>4, <1>7, <1>9, <1>13 DEF Total
<1>15. rq'.nxt = SeqOf(Total + Len(chunk))
  BY <1>1, <1>3, <1>7, <1>9, SeqOfAdd
<1>16. ParkedFrom(rq.ooo, Total + Len(chunk), FALSE)
  <2> SUFFICES ASSUME NEW s \in DOMAIN rq.ooo
               PROVE  \E t \in Segments :
                         /\ FromSegment(s, rq.ooo[s], t)
                         /\ OneGrid => Ahead(t, Total + Len(chunk), FALSE)
    BY DEF ParkedFrom
  <2>1. PICK t \in Segments : /\ FromSegment(s, rq.ooo[s], t)
                              /\ OneGrid => Ahead(t, Total, TRUE)
    BY <1>4 DEF StreamInv, ParkedFrom
  <2>2. t.pos \in Nat /\ t.len \in Nat \ {0}
    BY SegmentType
  <2>3. ASSUME OneGrid PROVE Ahead(t, Total + Len(chunk), FALSE)
    <3>1. Total < t.pos /\ t.pos - Total < SEQ_HALF
      BY <2>1, <2>3 DEF Ahead
    <3>2. seg # t
      BY <1>1, <1>2, <2>2, <3>1
    <3>3. seg.pos + seg.len <= t.pos \/ t.pos + t.len <= seg.pos
      BY <2>3, <3>2 DEF OneGrid
    <3>4. seg.pos + seg.len <= t.pos
      BY <1>1, <1>2, <2>2, <3>1, <3>3
    <3>5. Total + Len(chunk) <= t.pos
      BY <1>1, <1>2, <1>5, <1>7, <2>2, <3>4
    <3>6. t.pos - (Total + Len(chunk)) < SEQ_HALF
      BY <1>1, <1>7, <2>2, <3>1, Halves
    <3> QED BY <3>5, <3>6 DEF Ahead
  <2> QED BY <2>1, <2>3
<1>17. rq'.nxt = SeqOf(Total' + 0)
  BY <1>1, <1>7, <1>14, <1>15
<1>18. ParkedFrom(rq'.ooo, Total', FALSE)
  BY <1>9, <1>14, <1>16
<1> QED BY <1>3, <1>4, <1>9, <1>12, <1>17, <1>18 DEF StreamInv

\* What is parked under rcv_nxt is the stream's next bytes: it is not a stale
\* segment whose number has come round again.
LEMMA TakenIsNext ==
    ASSUME ShortStream \/ OneGrid, IInv, StreamInv, pc = "draining",
           CanTake(rq)
    PROVE  \E seg \in Segments : /\ FromSegment(rq.nxt, rq.ooo[rq.nxt], seg)
                                 /\ seg.pos = Total
<1>1. Total \in Nat /\ Total <= StreamLen /\ StreamLen \in Nat
  BY TotalType
<1>2. ~fin /\ rq.nxt = SeqOf(Total)
  <2>1. ~fin /\ rq.nxt = SeqOf(Total + 0)
    BY DEF StreamInv
  <2> QED BY <1>1, <2>1
<1>3. PICK seg \in Segments : /\ FromSegment(rq.nxt, rq.ooo[rq.nxt], seg)
                              /\ OneGrid => Ahead(seg, Total, FALSE)
  BY DEF StreamInv, ParkedFrom, CanTake
<1>4. seg.pos \in Nat /\ seg.len \in Nat \ {0} /\ seg.pos + seg.len <= StreamLen
  BY SegmentType, StreamAssumption
<1>5. -SEQ_MOD < seg.pos - Total /\ seg.pos - Total < SEQ_MOD
  <2>1. CASE ShortStream
    BY <1>1, <1>4, <2>1, Halves DEF ShortStream
  <2>2. CASE OneGrid
    BY <1>1, <1>3, <1>4, <2>2, Halves DEF Ahead
  <2> QED BY <2>1, <2>2
<1>6. SeqOf(seg.pos) = SeqOf(Total)
  BY <1>2, <1>3 DEF FromSegment
<1>7. seg.pos = Total
  BY <1>1, <1>4, <1>5, <1>6, SeqOfEqual
<1> QED BY <1>3, <1>7

\* A turn of the drain loop.
LEMMA DrainKeeps ==
    ASSUME ShortStream \/ OneGrid, IInv, StreamInv, DrainStep
    PROVE  StreamInv'
<1>1. /\ Total \in Nat /\ Total <= StreamLen /\ StreamLen \in Nat
      /\ delivered \in Seq(Nat) /\ Len(delivered) \in Nat
      /\ rq.buf \in Seq(Nat) /\ Len(rq.buf) \in Nat
      /\ Total = Len(delivered) + Len(rq.buf)
  BY TotalType DEF Total
<1>2. pc = "draining" /\ UNCHANGED <<delivered, fin>>
  BY DEF DrainStep
<1>3. ~fin /\ rq.nxt = SeqOf(Total) /\ ParkedFrom(rq.ooo, Total, FALSE)
      /\ InOrder(delivered, rq.buf)
  <2>1. ~fin /\ rq.nxt = SeqOf(Total + 0) /\ ParkedFrom(rq.ooo, Total, FALSE)
        /\ InOrder(delivered, rq.buf)
    BY <1>2 DEF StreamInv
  <2>2. Total + 0 = Total
    BY <1>1
  <2> QED BY <2>1, <2>2
<1>4. CASE CanTake(rq)
  <2> DEFINE data == rq.ooo[rq.nxt]
  <2>1. PICK seg \in Segments : FromSegment(rq.nxt, data, seg) /\ seg.pos = Total
    BY <1>2, <1>4, TakenIsNext
  <2>2. seg.pos \in Nat /\ seg.len \in Nat \ {0} /\ seg.pos + seg.len <= StreamLen
    BY SegmentType, StreamAssumption
  <2>3. data \in Seq(Nat) /\ Len(data) \in Nat
    BY <1>4, LenProperties DEF CanTake, IInv, QueueOK, QueueType
  <2>4. /\ rq'.nxt = seq_add(rq.nxt, Len(data)) /\ rq'.buf = rq.buf \o data
        /\ rq'.ooo = [s \in DOMAIN rq.ooo \ {rq.nxt} |-> rq.ooo[s]]
        /\ pc' = "draining"
    <3>1. rq' = TakeNext(rq) /\ pc' = "draining"
      BY <1>4 DEF DrainStep
    <3> QED BY <3>1 DEF TakeNext
  <2> HIDE DEF data
  <2>5. /\ Len(data) <= seg.len
        /\ \A i \in 1 .. Len(data) : data[i] = Len(delivered) + Len(rq.buf) + i - 1
    BY <1>1, <2>1, <2>2 DEF FromSegment
  <2>6. Len(delivered) + Len(rq.buf) + Len(data) <= StreamLen
    BY <1>1, <2>1, <2>2, <2>3, <2>5
  <2>7. InOrder(delivered, rq.buf \o data)
    BY <1>1, <1>3, <2>3, <2>5, <2>6, AppendInOrder
  <2>8. Len(rq.buf \o data) = Len(rq.buf) + Len(data)
    BY <1>1, <2>3, ConcatProperties
  <2>9. Total' = Total + Len(data)
    BY <1>1, <1>2, <2>3, <2>4, <2>8 DEF Total
  <2>10. rq'.nxt = SeqOf(Total')
    BY <1>1, <1>3, <2>3, <2>4, <2>9, SeqOfAdd
  <2>11. ParkedFrom(rq'.ooo, Total', FALSE)
    <3> SUFFICES ASSUME NEW s \in DOMAIN rq.ooo, s # rq.nxt
                 PROVE  \E t \in Segments :
                           /\ FromSegment(s, rq.ooo[s], t)
                           /\ OneGrid => Ahead(t, Total', FALSE)
      BY <2>4 DEF ParkedFrom
    <3>1. PICK t \in Segments : /\ FromSegment(s, rq.ooo[s], t)
                                /\ OneGrid => Ahead(t, Total, FALSE)
      BY <1>3 DEF ParkedFrom
    <3>2. t.pos \in Nat /\ t.len \in Nat \ {0}
      BY SegmentType
    <3>3. t.pos # Total
      BY <1>3, <3>1 DEF FromSegment
    <3>4. ASSUME OneGrid PROVE Ahead(t, Total', FALSE)
      <4>1. Total <= t.pos /\ t.pos - Total < SEQ_HALF
        BY <3>1, <3>4 DEF Ahead
      <4>2. seg # t
        BY <2>1, <3>3
      <4>3. seg.pos + seg.len <= t.pos \/ t.pos + t.len <= seg.pos
        BY <3>4, <4>2 DEF OneGrid
      <4>4. seg.pos + seg.len <= t.pos
        <5>1. ~(t.pos + t.len <= seg.pos)
          BY <1>1, <2>1, <3>2, <4>1
        <5> QED BY <4>3, <5>1
      <4>5. Total + Len(data) <= t.pos
        BY <1>1, <2>1, <2>2, <2>3, <2>5, <3>2, <4>4
      <4>6. t.pos - (Total + Len(data)) < SEQ_HALF
        BY <1>1, <2>3, <3>2, <4>1, Halves
      <4> QED BY <2>9, <4>5, <4>6 DEF Ahead
    <3> QED BY <3>1, <3>4
  <2>12. rq'.nxt = SeqOf(Total' + 0)
    BY <1>1, <2>3, <2>9, <2>10
  <2> QED BY <1>2, <1>3, <2>4, <2>7, <2>11, <2>12 DEF StreamInv
<1>5. CASE ~CanTake(rq)
  <2>1. rq' = rq /\ pc' = "ready" /\ Total' = Total
    BY <1>2, <1>5 DEF DrainStep, Total
  <2>2. ParkedFrom(rq.ooo, Total, TRUE)
    <3> SUFFICES ASSUME NEW s \in DOMAIN rq.ooo
                 PROVE  \E t \in Segments :
                           /\ FromSegment(s, rq.ooo[s], t)
                           /\ OneGrid => Ahead(t, Total, TRUE)
      BY DEF ParkedFrom
    <3>1. PICK t \in Segments : /\ FromSegment(s, rq.ooo[s], t)
                                /\ OneGrid => Ahead(t, Total, FALSE)
      BY <1>3 DEF ParkedFrom
    <3>2. t.pos # Total /\ t.pos \in Nat
      BY <1>3, <1>5, <3>1, SegmentType DEF FromSegment, CanTake
    <3> QED BY <1>1, <3>1, <3>2 DEF Ahead
  <2>3. rq.nxt = SeqOf(Total + 0)
    BY <1>1, <1>3
  <2> QED BY <1>2, <1>3, <2>1, <2>2, <2>3 DEF StreamInv
<1> QED BY <1>4, <1>5

\* read() moves bytes and changes nothing else.
LEMMA ReadStep ==
    ASSUME IInv, StreamInv, NEW n \in Nat, Read(n)
    PROVE  StreamInv'
<1> DEFINE chunk == FirstBytes(rq.buf, n)
           left == BytesFrom(rq.buf, Len(chunk))
<1>1. /\ rq.buf \in Seq(Nat) /\ delivered \in Seq(Nat) /\ InOrder(delivered, rq.buf)
  BY TotalType DEF StreamInv
<1>2. Cut(rq.buf, chunk, left)
  BY <1>1, ReadCuts
<1>3. /\ UNCHANGED <<pc, fin>> /\ delivered' = delivered \o chunk
      /\ rq' = [rq EXCEPT !.buf = left]
  BY DEF Read, AfterRead, ReadChunk
<1> HIDE DEF chunk, left
<1>4. rq'.buf = left /\ rq'.nxt = rq.nxt /\ rq'.ooo = rq.ooo
  <2>1. rq = [nxt |-> rq.nxt, buf |-> rq.buf, ooo |-> rq.ooo, held |-> rq.held]
    BY DEF IInv, QueueOK, QueueType
  <2> QED BY <1>3, <2>1
<1>5. /\ InOrder(delivered \o chunk, left)
      /\ Len(delivered \o chunk) + Len(left) = Len(delivered) + Len(rq.buf)
  <2>1. InOrder(delivered \o chunk, left)
    BY <1>1, <1>2, ReadInOrder
  <2>2. Len(delivered \o chunk) + Len(left) = Len(delivered) + Len(rq.buf)
    <3>1. chunk \in Seq(Nat) /\ left \in Seq(Nat) /\ Len(rq.buf) = Len(chunk) + Len(left)
      BY <1>2 DEF Cut
    <3>2. Len(delivered \o chunk) = Len(delivered) + Len(chunk)
      BY <1>1, <3>1, ConcatProperties
    <3>3. Len(delivered) \in Nat /\ Len(chunk) \in Nat /\ Len(left) \in Nat
      BY <1>1, <3>1, LenProperties
    <3> QED BY <3>1, <3>2, <3>3
  <2> QED BY <2>1, <2>2
<1>6. Total' = Total
  BY <1>3, <1>4, <1>5 DEF Total
<1> QED BY <1>3, <1>4, <1>5, <1>6 DEF StreamInv

\* The FIN is consumed where the stream ends.
LEMMA FinStep ==
    ASSUME IInv, StreamInv, Fin
    PROVE  StreamInv'
<1>1. Total \in Nat /\ Total <= StreamLen /\ StreamLen \in Nat
  BY TotalType
<1>2. /\ pc = "ready" /\ ~fin /\ StreamLen - Total < SEQ_HALF
      /\ SeqOf(StreamLen) = rq.nxt
      /\ rq' = [rq EXCEPT !.nxt = seq_add(@, 1)]
      /\ fin' = TRUE /\ UNCHANGED <<pc, delivered>>
  BY DEF Fin
<1>3. rq.nxt = SeqOf(Total)
  <2>1. rq.nxt = SeqOf(Total + 0)
    BY <1>2 DEF StreamInv
  <2> QED BY <1>1, <2>1
<1>4. Total = StreamLen
  <2>1. -SEQ_MOD < StreamLen - Total /\ StreamLen - Total < SEQ_MOD
    BY <1>1, <1>2, Halves
  <2> QED BY <1>1, <1>2, <1>3, <2>1, SeqOfEqual
<1>5. rq'.nxt = seq_add(rq.nxt, 1) /\ rq'.buf = rq.buf /\ rq'.ooo = rq.ooo
  <2>1. rq = [nxt |-> rq.nxt, buf |-> rq.buf, ooo |-> rq.ooo, held |-> rq.held]
    BY DEF IInv, QueueOK, QueueType
  <2> QED BY <1>2, <2>1
<1>6. Total' = Total
  BY <1>2, <1>5 DEF Total
<1>7. rq'.nxt = SeqOf(Total + 1)
  BY <1>1, <1>3, <1>5, SeqOfAdd
<1> QED BY <1>2, <1>4, <1>5, <1>6, <1>7 DEF StreamInv

\* Teardown leaves what was read.
LEMMA TeardownStep ==
    ASSUME IInv, StreamInv, Teardown
    PROVE  StreamInv'
<1>1. pc' = "closed" /\ rq'.buf = << >> /\ delivered' = delivered
  BY DEF Teardown, ClearReceive
<1>2. /\ Len(delivered) \in Nat /\ Len(rq.buf) \in Nat /\ Total <= StreamLen
      /\ StreamLen \in Nat
  BY TotalType
<1>3. InOrder(delivered, << >>)
  BY <1>2, EmptySeq DEF StreamInv, InOrder, Total
<1> QED BY <1>1, <1>3 DEF StreamInv

\* An empty queue holds the stream's first no bytes.
LEMMA StreamInit == Init => StreamInv
<1> SUFFICES ASSUME Init PROVE StreamInv
  OBVIOUS
<1>1. /\ rq.nxt = seq_add(FirstSeq, 1) /\ rq.buf = << >> /\ rq.ooo = << >>
      /\ delivered = << >> /\ fin = FALSE
  BY DEF Init, NewReceiveQueue
<1>2. Total = 0
  BY <1>1, EmptySeq DEF Total
<1>3. rq.nxt = SeqOf(0 + 0)
  <2> DEFINE b == seq_add(FirstSeq, 1)
  <2>1. b \in SeqNum
    <3>1. FirstSeq \in Int
      BY StreamAssumption, SeqModAssumption DEF SeqNum
    <3> QED BY <3>1, AddIsSeqNum
  <2> HIDE DEF b
  <2>2. b \in Int /\ 0 <= b /\ b < SEQ_MOD
    BY <2>1, SeqModAssumption DEF SeqNum
  <2>3. b % SEQ_MOD = b
    BY <2>2, SmallRemainder
  <2>4. b + (0 + 0) = b
    BY <2>2
  <2> QED BY <1>1, <2>3, <2>4 DEF b, SeqOf, seq_add
<1>4. InOrder(<< >>, << >>)
  BY EmptySeq, StreamAssumption DEF InOrder
<1>5. ParkedFrom(<< >>, 0, pc = "ready")
  BY DEF ParkedFrom
<1> QED BY <1>1, <1>2, <1>3, <1>4, <1>5 DEF StreamInv

\* Every step keeps the stream.
LEMMA StreamStep ==
    ASSUME ShortStream \/ OneGrid
    PROVE  IInv /\ StreamInv /\ [Next]_vars => StreamInv'
<1> SUFFICES ASSUME IInv, StreamInv, [Next]_vars PROVE StreamInv'
  OBVIOUS
<1>1. ASSUME NEW seg \in Segments, Arrive(seg) PROVE StreamInv'
  <2>1. seg.pos > Total \/ seg.pos <= Total
    BY SegmentType, TotalType
  <2> QED BY <1>1, <2>1, ParkStep, AppendStep
<1>2. CASE DrainStep
  BY <1>2, DrainKeeps
<1>3. ASSUME NEW n \in 1 .. MaxRead, Read(n) PROVE StreamInv'
  BY <1>3, ReadStep
<1>4. CASE Fin
  BY <1>4, FinStep
<1>5. CASE Teardown
  BY <1>5, TeardownStep
<1>6. CASE UNCHANGED vars
  BY <1>6 DEF vars, StreamInv, Total
<1> QED BY <1>1, <1>2, <1>3, <1>4, <1>5, <1>6 DEF Next

\* Both invariants hold of every behaviour.
LEMMA StreamInvariant ==
    ASSUME ShortStream \/ OneGrid
    PROVE  Spec => [](IInv /\ StreamInv)
BY InitHolds, StepKeeps, StreamInit, StreamStep, PTL DEF Spec

\* The bytes read and waiting are the stream.
LEMMA IntegrityFollows == IInv /\ StreamInv => StreamIntegrity
<1> SUFFICES ASSUME IInv, StreamInv PROVE StreamIntegrity
  OBVIOUS
<1> DEFINE all == delivered \o rq.buf
<1>1. /\ delivered \in Seq(Nat) /\ rq.buf \in Seq(Nat)
      /\ Len(delivered) \in Nat /\ Len(rq.buf) \in Nat /\ Total \in Nat
      /\ Total = Len(delivered) + Len(rq.buf)
  BY TotalType DEF Total
<1>2. /\ all \in Seq(Nat) /\ Len(all) = Total
      /\ \A i \in 1 .. Len(all) :
             all[i] = IF i <= Len(delivered) THEN delivered[i]
                      ELSE rq.buf[i - Len(delivered)]
  BY <1>1, ConcatProperties
<1>3. DOMAIN all = 1 .. Total /\ all = [i \in DOMAIN all |-> all[i]]
  BY <1>2, LenProperties
<1> HIDE DEF all
<1>4. ASSUME NEW i \in 1 .. Total PROVE all[i] = i - 1
  <2>1. CASE i <= Len(delivered)
    <3>1. i \in 1 .. Len(delivered) /\ all[i] = delivered[i]
      BY <1>1, <1>2, <2>1
    <3> QED BY <3>1 DEF StreamInv, InOrder
  <2>2. CASE i > Len(delivered)
    <3> DEFINE j == i - Len(delivered)
    <3>1. j \in 1 .. Len(rq.buf) /\ all[i] = rq.buf[j]
      BY <1>1, <1>2, <2>2
    <3>2. j = i - Len(delivered) /\ j \in Int
      BY <1>1
    <3> HIDE DEF j
    <3>3. all[i] = Len(delivered) + j - 1
      BY <3>1 DEF StreamInv, InOrder
    <3> QED BY <1>1, <3>2, <3>3
  <2> QED BY <1>1, <2>1, <2>2
<1>5. all = [i \in 1 .. Total |-> i - 1]
  BY <1>3, <1>4
<1> QED BY <1>5 DEF StreamIntegrity, StreamInv, all

\* On one grid nothing is left behind nxt.
LEMMA PulledInFollows ==
    ASSUME OneGrid
    PROVE  IInv /\ StreamInv => EarlyDataPulledIn
<1> SUFFICES ASSUME IInv, StreamInv, pc = "ready", NEW s \in DOMAIN rq.ooo
             PROVE  seq_gt(s, rq.nxt)
  BY DEF EarlyDataPulledIn
<1>1. Total \in Nat /\ Total <= StreamLen /\ StreamLen \in Nat
  BY TotalType
<1>2. PICK seg \in Segments : FromSegment(s, rq.ooo[s], seg) /\ Ahead(seg, Total, TRUE)
  BY DEF StreamInv, ParkedFrom
<1>3. seg.pos \in Nat /\ seg.len \in Nat \ {0} /\ seg.pos + seg.len <= StreamLen
  BY SegmentType, StreamAssumption
<1>4. Total < seg.pos /\ seg.pos - Total < SEQ_HALF /\ s = SeqOf(seg.pos)
  BY <1>2 DEF Ahead, FromSegment
<1>5. ~fin
  BY <1>1, <1>3, <1>4 DEF StreamInv
<1>6. rq.nxt = SeqOf(Total)
  <2>1. rq.nxt = SeqOf(Total + 0)
    BY <1>5 DEF StreamInv
  <2> QED BY <1>1, <2>1
<1>7. seq_gt(SeqOf(seg.pos), SeqOf(Total))
  BY <1>1, <1>3, <1>4, SeqOfOrder, Halves
<1> QED BY <1>4, <1>6, <1>7

\* What read() has returned and what it would return next are the stream from
\* its first byte, and nxt acknowledges exactly that much, whatever is lost,
\* repeated, reordered or re-cut.
THEOREM StreamCorrect == ShortStream \/ OneGrid => (Spec => []StreamIntegrity)
<1> SUFFICES ASSUME ShortStream \/ OneGrid PROVE Spec => []StreamIntegrity
  OBVIOUS
<1> QED BY IntegrityFollows, StreamInvariant, PTL

\* _handle_fin consumes the FIN only behind the last byte of the stream.
THEOREM FinCorrect == ShortStream \/ OneGrid => (Spec => []FinComplete)
<1> SUFFICES ASSUME ShortStream \/ OneGrid PROVE Spec => []FinComplete
  OBVIOUS
<1>1. IInv /\ StreamInv => FinComplete
  BY DEF StreamInv, FinComplete
<1> QED BY <1>1, StreamInvariant, PTL

\* From a peer that cuts its stream in one way, everything parked is pulled in
\* once the gap ahead of it fills.
THEOREM PulledIn == OneGrid => (Spec => []EarlyDataPulledIn)
<1> SUFFICES ASSUME OneGrid PROVE Spec => []EarlyDataPulledIn
  OBVIOUS
<1> QED BY PulledInFollows, StreamInvariant, PTL
=============================================================================
