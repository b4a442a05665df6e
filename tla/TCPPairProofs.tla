--------------------------- MODULE TCPPairProofs ---------------------------
(***************************************************************************)
(* Theorems about TCPPair, for every value of its constants: whatever is   *)
(* in flight can be retransmitted (OutstandingCovered), and whatever waits *)
(* to be sent or acknowledged has a timer behind it (NeverStuck).          *)
(*                                                                         *)
(* Both are about the sending half of one connection, whatever segments it *)
(* is sent, so Good, the inductive invariant, is about one connection.  At *)
(* its heart is SendOK: the outstanding segments tile the sequence numbers *)
(* from snd_una to snd_nxt, each with the bytes the send queue holds       *)
(* there, and no byte is outstanding twice.  That nothing is twice is what *)
(* bounds the payload outstanding, so that RetransmitQueue.add, whose      *)
(* refusal _transmit ignores, does not refuse (BytesBound).                *)
(*                                                                         *)
(* There is a lemma for each operation of the queues, for each step of     *)
(* TCPConnection and for each action of the pair, in the order in which    *)
(* the modules define them; lemma XIs or XKeeps says what X returns or     *)
(* preserves.                                                              *)
(***************************************************************************)
EXTENDS TCPPair, ListProofs

Flag == {"SYN", "ACK", "FIN", "RST"}
SendQueueType == [una : SeqNum, nxt : SeqNum, buf : Seq(Nat)]
EntryType == [seq : SeqNum, flags : SUBSET Flag, data : Seq(Nat), retransmits : Nat]

\* How far snd_nxt, and an outstanding entry, are past snd_una.
Ahead(sq) == seq_diff(sq.nxt, sq.una)
Place(e, sq) == seq_diff(e.seq, sq.una)

\* An entry ends in what is in flight, is no longer than a segment, and what it
\* has past snd_una are the bytes the send queue holds there.
EntryOK(e, sq) ==
    /\ seq_len(e) \in 1 .. LongestPayload
    /\ Place(e, sq) + seq_len(e) \in 1 .. Ahead(sq)
    /\ e.data # << >> => seq_len(e) = Len(e.data)
    /\ \A j \in 1 .. Len(e.data) :
          Place(e, sq) + j > 0 => /\ Place(e, sq) + j <= Len(sq.buf)
                                  /\ e.data[j] = sq.buf[Place(e, sq) + j]

\* No byte is outstanding twice.
Apart(e, f, sq) ==
    e.data # << >> /\ f.data # << >>
        => \/ Place(e, sq) + seq_len(e) <= Place(f, sq)
           \/ Place(f, sq) + seq_len(f) <= Place(e, sq)

\* The send queue and the outstanding queue fit together, with at most most
\* sequence numbers in flight.
SendOK(sq, retx, most) ==
    /\ Ahead(sq) \in 0 .. most
    /\ Len(sq.buf) <= SendCapacity
    /\ \A i \in 1 .. Len(retx) : EntryOK(retx[i], sq)
    /\ \A i, j \in 1 .. Len(retx) : i # j => Apart(retx[i], retx[j], sq)
    /\ \A k \in 0 .. Ahead(sq) - 1 : \E i \in 1 .. Len(retx) :
          /\ Place(retx[i], sq) <= k
          /\ k < Place(retx[i], sq) + seq_len(retx[i])

-----------------------------------------------------------------------------
(* Sequence numbers                                                        *)

\* The space is two halves.
LEMMA Halves == SEQ_MOD = 2 * SEQ_HALF /\ SEQ_HALF \in Nat \ {0} /\ SEQ_MOD \in Nat
BY SeqModAssumption DEF SEQ_HALF

\* A sum is a sequence number.
LEMMA AddIsSeqNum ==
    ASSUME NEW x \in Int, NEW k \in Int
    PROVE  seq_add(x, k) \in SeqNum
BY SeqModAssumption DEF seq_add, SeqNum

\* A multiple of the size of the space within one turn of zero is zero.
LEMMA OneTurn ==
    ASSUME NEW d \in Int, NEW z \in Int, z = SEQ_MOD * d, -SEQ_MOD < z, z < SEQ_MOD
    PROVE  d = 0
<1>1. SEQ_MOD \in Nat /\ SEQ_MOD >= 2
  BY SeqModAssumption
<1>2. CASE d >= 1
  BY <1>1, <1>2
<1>3. CASE d <= -1
  BY <1>1, <1>3
<1> QED BY <1>2, <1>3

\* A number is its whole turns and its remainder.
LEMMA Whole ==
    ASSUME NEW x \in Int
    PROVE  /\ x % SEQ_MOD \in SeqNum
           /\ x \div SEQ_MOD \in Int
           /\ x = SEQ_MOD * (x \div SEQ_MOD) + (x % SEQ_MOD)
BY SeqModAssumption DEF SeqNum

\* Whole turns leave the remainder as it is.
LEMMA SameRemainder ==
    ASSUME NEW x \in Int, NEW y \in Int, NEW q \in Int, x = y + SEQ_MOD * q
    PROVE  x % SEQ_MOD = y % SEQ_MOD
<1> DEFINE a == x \div SEQ_MOD
           b == y \div SEQ_MOD
           r == x % SEQ_MOD
           s == y % SEQ_MOD
<1>1. a \in Int /\ b \in Int /\ r \in SeqNum /\ s \in SeqNum
      /\ x = SEQ_MOD * a + r /\ y = SEQ_MOD * b + s
  BY Whole
<1>2. SEQ_MOD \in Nat
  BY SeqModAssumption
<1> HIDE DEF a, b, r, s
<1>3. r - s = SEQ_MOD * (b + q - a)
  BY <1>1, <1>2 DEF SeqNum
<1>4. r - s \in Int /\ -SEQ_MOD < r - s /\ r - s < SEQ_MOD
  BY <1>1, <1>2 DEF SeqNum
<1>5. b + q - a = 0
  BY <1>1, <1>3, <1>4, OneTurn
<1>6. r = s
  BY <1>1, <1>2, <1>3, <1>5 DEF SeqNum
<1> QED BY <1>6 DEF r, s

\* Remainders of small numbers.
LEMMA SmallRemainder ==
    ASSUME NEW x \in Int
    PROVE  /\ 0 <= x /\ x < SEQ_MOD => x % SEQ_MOD = x
           /\ -SEQ_MOD <= x /\ x < 0 => x % SEQ_MOD = x + SEQ_MOD
BY SeqModAssumption

\* Two sums from one base, less than half a turn apart, compare and differ as
\* what was added does.
LEMMA FromBase ==
    ASSUME NEW u \in SeqNum, NEW p \in Int, NEW q \in Int,
           -SEQ_HALF < p - q, p - q < SEQ_HALF
    PROVE  /\ seq_diff(seq_add(u, p), seq_add(u, q)) = p - q
           /\ seq_gt(seq_add(u, p), seq_add(u, q)) <=> p > q
           /\ seq_le(seq_add(u, p), seq_add(u, q)) <=> p <= q
<1> DEFINE x == u + p
           y == u + q
           X == seq_add(u, p)
           Y == seq_add(u, q)
           d == p - q
           r == (X - Y) % SEQ_MOD
           s == (Y - X) % SEQ_MOD
<1>1. u \in Int /\ SEQ_MOD \in Nat /\ d \in Int /\ -SEQ_HALF < d /\ d < SEQ_HALF
  BY SeqModAssumption DEF SeqNum
<1>2. x \in Int /\ y \in Int /\ x - y = d
  BY <1>1
<1>3. X = x % SEQ_MOD /\ Y = y % SEQ_MOD
  BY DEF seq_add
<1>4. (d > 0 <=> p > q) /\ (d <= 0 <=> p <= q)
  BY <1>1
<1> HIDE DEF x, y
<1>5. PICK m \in Int : X = x + SEQ_MOD * m /\ X \in Int
  <2> DEFINE z == x \div SEQ_MOD
  <2>1. z \in Int /\ X \in SeqNum /\ x = SEQ_MOD * z + X
    BY <1>2, <1>3, Whole
  <2> HIDE DEF z, X
  <2>2. X \in Int
    BY <2>1 DEF SeqNum
  <2>3. X = x + SEQ_MOD * (-z) /\ -z \in Int
    BY <1>1, <1>2, <2>1, <2>2
  <2> QED BY <2>2, <2>3
<1>6. PICK n \in Int : Y = y + SEQ_MOD * n /\ Y \in Int
  <2> DEFINE z == y \div SEQ_MOD
  <2>1. z \in Int /\ Y \in SeqNum /\ y = SEQ_MOD * z + Y
    BY <1>2, <1>3, Whole
  <2> HIDE DEF z, Y
  <2>2. Y \in Int
    BY <2>1 DEF SeqNum
  <2>3. Y = y + SEQ_MOD * (-z) /\ -z \in Int
    BY <1>1, <1>2, <2>1, <2>2
  <2> QED BY <2>2, <2>3
<1> HIDE DEF X, Y, d
<1>7. r = d % SEQ_MOD
  <2>1. X - Y \in Int /\ m - n \in Int /\ X - Y = d + SEQ_MOD * (m - n)
    BY <1>1, <1>2, <1>5, <1>6
  <2> QED BY <1>1, <2>1, SameRemainder
<1>8. s = (-d) % SEQ_MOD
  <2> DEFINE e == -d
             w == Y - X
  <2>1. w \in Int /\ n - m \in Int /\ e \in Int /\ w = e + SEQ_MOD * (n - m)
    BY <1>1, <1>2, <1>5, <1>6
  <2> HIDE DEF e, w
  <2>2. w % SEQ_MOD = e % SEQ_MOD
    BY <2>1, SameRemainder
  <2> QED BY <2>2 DEF e, w
<1>9. seq_gt(X, Y) <=> 0 < r /\ r < SEQ_HALF
  BY DEF seq_gt, seq_lt
<1>10. seq_diff(X, Y) = IF r >= SEQ_HALF THEN r - SEQ_MOD ELSE r
  BY DEF seq_diff
<1>11. seq_le(X, Y) <=> X = Y \/ (0 < s /\ s < SEQ_HALF)
  BY DEF seq_le, seq_lt
<1>12. X = Y => r = 0
  BY <1>1, <1>5, <1>6, SmallRemainder, Halves
<1> HIDE DEF r, s
<1>13. /\ 0 <= d => r = d
       /\ d < 0 => r = d + SEQ_MOD
       /\ d <= 0 => s = -d
       /\ d > 0 => s = SEQ_MOD - d
  BY <1>1, <1>7, <1>8, SmallRemainder, Halves
<1>14. seq_diff(X, Y) = d /\ (seq_gt(X, Y) <=> d > 0)
  BY <1>1, <1>9, <1>10, <1>13, Halves
<1>15. d = 0 => X = Y
  <2>1. d = 0 => x = y
    BY <1>2
  <2> QED BY <1>3, <2>1
<1>16. seq_le(X, Y) <=> d <= 0
  BY <1>1, <1>11, <1>12, <1>13, <1>15, Halves
<1> QED BY <1>4, <1>14, <1>16 DEF X, Y, d

\* A number is its distance from the base, added to the base.
LEMMA DiffIs ==
    ASSUME NEW x \in SeqNum, NEW u \in SeqNum
    PROVE  /\ seq_diff(x, u) \in -SEQ_HALF .. SEQ_HALF - 1
           /\ seq_add(u, seq_diff(x, u)) = x
           /\ seq_add(u, 0) = u
           /\ seq_gt(x, u) => seq_diff(x, u) > 0
           /\ ~seq_gt(x, u) => seq_diff(x, u) <= 0
<1> DEFINE r == (x - u) % SEQ_MOD
           d == seq_diff(x, u)
<1>1. /\ x \in Int /\ u \in Int /\ x - u \in Int /\ -SEQ_MOD < x - u /\ x - u < SEQ_MOD
      /\ 0 <= x /\ x < SEQ_MOD /\ 0 <= u /\ u < SEQ_MOD
  BY SeqModAssumption DEF SeqNum
<1>2. d = IF r >= SEQ_HALF THEN r - SEQ_MOD ELSE r
  BY DEF seq_diff
<1>3. r \in {x - u, x - u + SEQ_MOD} /\ 0 <= r /\ r < SEQ_MOD /\ r \in Int
  <2> DEFINE z == x - u
  <2>1. z \in Int /\ -SEQ_MOD < z /\ z < SEQ_MOD
    BY <1>1
  <2> HIDE DEF z
  <2>2. z % SEQ_MOD \in {z, z + SEQ_MOD} /\ 0 <= z % SEQ_MOD /\ z % SEQ_MOD < SEQ_MOD /\ z % SEQ_MOD \in Int
    BY <2>1, SmallRemainder, Halves
  <2> QED BY <2>2 DEF z
<1>4. seq_gt(x, u) <=> 0 < r /\ r < SEQ_HALF
  BY DEF seq_gt, seq_lt
<1> HIDE DEF r, d
<1>5. d \in -SEQ_HALF .. SEQ_HALF - 1 /\ u + d \in {x, x + SEQ_MOD, x - SEQ_MOD}
  BY <1>1, <1>2, <1>3, Halves
<1>6. (u + d) % SEQ_MOD = x
  <2>1. u + d \in Int /\ d \in Int
    BY <1>1, <1>5, Halves
  <2>2. PICK q \in Int : u + d = x + SEQ_MOD * q
    <3>1. SEQ_MOD * 0 = 0 /\ SEQ_MOD * 1 = SEQ_MOD /\ SEQ_MOD * (-1) = -SEQ_MOD
      BY Halves
    <3>2. x + SEQ_MOD * 0 = x /\ x + SEQ_MOD * 1 = x + SEQ_MOD /\ x + SEQ_MOD * (-1) = x - SEQ_MOD
      BY <1>1, <3>1, Halves
    <3> QED BY <1>5, <3>2
  <2>3. (u + d) % SEQ_MOD = x % SEQ_MOD
    BY <1>1, <2>1, <2>2, SameRemainder
  <2>4. x % SEQ_MOD = x
    BY <1>1, SmallRemainder
  <2> QED BY <2>3, <2>4
<1>7. seq_add(u, 0) = u
  BY <1>1, SmallRemainder DEF seq_add
<1>8. (seq_gt(x, u) => d > 0) /\ (~seq_gt(x, u) => d <= 0)
  BY <1>2, <1>3, <1>4, Halves
<1> QED BY <1>5, <1>6, <1>7, <1>8 DEF d, seq_add

\* Steps add up.
LEMMA AddAdd ==
    ASSUME NEW u \in SeqNum, NEW p \in Int, NEW q \in Int
    PROVE  seq_add(seq_add(u, p), q) = seq_add(u, p + q)
<1> DEFINE x == u + p
           X == seq_add(u, p)
           z == x \div SEQ_MOD
<1>1. u \in Int /\ SEQ_MOD \in Nat /\ x \in Int
  BY SeqModAssumption DEF SeqNum
<1>2. X = x % SEQ_MOD
  BY DEF seq_add
<1>3. z \in Int /\ X \in SeqNum /\ x = SEQ_MOD * z + X
  <2> HIDE DEF x
  <2> QED BY <1>1, <1>2, Whole
<1> HIDE DEF X, z
<1>4. X \in Int
  BY <1>3 DEF SeqNum
<1>5. X + q \in Int /\ u + (p + q) \in Int /\ u + (p + q) = (X + q) + SEQ_MOD * z
  BY <1>1, <1>3, <1>4
<1>6. (u + (p + q)) % SEQ_MOD = (X + q) % SEQ_MOD
  BY <1>3, <1>5, SameRemainder
<1> QED BY <1>6 DEF seq_add, X

-----------------------------------------------------------------------------
(* The send queue and the outstanding queue                                *)

\* The capacities are numbers, and what they bound fits in half the space.
LEMMA Sizes ==
    /\ SendCapacity \in Nat \ {0} /\ RetxCapacity \in Nat \ {0}
    /\ MSS \in Nat \ {0} /\ MIN_PEER_MSS \in Nat \ {0} /\ DEFAULT_PEER_MSS \in Nat \ {0}
    /\ MAX_WINDOW_FIELD \in Nat \ {0} /\ 2^WScale \in Nat \ {0}
    /\ MAX_WINDOW_FIELD * 2^WScale \in Nat
    /\ MAX_WINDOW_FIELD <= MAX_WINDOW_FIELD * 2^WScale
    /\ MostInFlight \in Nat \ {0} /\ MostInFlight <= SendCapacity
    /\ MostInFlight = SendCapacity \/ MSS <= MostInFlight
    /\ LongestPayload \in Nat \ {0}
    /\ MSS <= LongestPayload /\ MIN_PEER_MSS <= LongestPayload
    /\ DEFAULT_PEER_MSS <= LongestPayload
    /\ MostInFlight + LongestPayload <= RetxCapacity + 1
    /\ MostInFlight + 1 < SEQ_HALF /\ LongestPayload < SEQ_HALF
<1>1. /\ SendCapacity \in Nat \ {0} /\ RetxCapacity \in Nat \ {0}
      /\ MSS \in Nat \ {0} /\ MIN_PEER_MSS \in Nat \ {0} /\ DEFAULT_PEER_MSS \in Nat \ {0}
      /\ MAX_WINDOW_FIELD \in Nat \ {0} /\ 2^WScale \in Nat \ {0}
  BY SendAssumption, RenoAssumption, ConnectionAssumption
<1> DEFINE factor == 2^WScale
           w == MAX_WINDOW_FIELD * factor
<1>2. w \in Nat /\ MAX_WINDOW_FIELD <= w
  <2>1. factor \in Nat /\ factor >= 1 /\ MAX_WINDOW_FIELD \in Nat
    BY <1>1
  <2> HIDE DEF factor
  <2>2. ASSUME NEW m \in Nat, NEW g \in Nat, g >= 1 PROVE m * g \in Nat /\ m <= m * g
    BY <2>2
  <2> QED BY <2>1, <2>2
<1>3. MostInFlight = Least(SendCapacity, Most(w, MSS))
  BY DEF MostInFlight
<1> HIDE DEF w
<1>4. /\ MostInFlight \in Nat \ {0} /\ MostInFlight <= SendCapacity
      /\ MostInFlight = SendCapacity \/ MSS <= MostInFlight
  BY <1>1, <1>2, <1>3 DEF Least, Most
<1>5. /\ LongestPayload \in Nat \ {0}
      /\ MSS <= LongestPayload /\ MIN_PEER_MSS <= LongestPayload
      /\ DEFAULT_PEER_MSS <= LongestPayload
  BY <1>1 DEF LongestPayload, Most
<1> QED BY <1>1, <1>2, <1>4, <1>5, SpaceAssumption DEF w

\* What may be in flight, without the products.
LEMMA Limits ==
    /\ MostInFlight \in Nat \ {0} /\ LongestPayload \in Nat \ {0}
    /\ RetxCapacity \in Nat /\ SendCapacity \in Nat /\ MostInFlight <= SendCapacity
    /\ MostInFlight + LongestPayload <= RetxCapacity + 1
    /\ MostInFlight + 1 < SEQ_HALF /\ LongestPayload < SEQ_HALF
BY Sizes

\* The fields of an entry, and where it starts and ends.
LEMMA EntryFields ==
    ASSUME NEW sq \in SendQueueType, NEW e \in EntryType
    PROVE  /\ seq_len(e) \in Nat /\ Len(e.data) \in Nat /\ e.data \in Seq(Nat)
           /\ Place(e, sq) \in -SEQ_HALF .. SEQ_HALF - 1
           /\ Place(e, sq) \in Int
           /\ e.seq = seq_add(sq.una, Place(e, sq))
           /\ seq_end(e) = seq_add(sq.una, Place(e, sq) + seq_len(e))
           /\ Ahead(sq) \in -SEQ_HALF .. SEQ_HALF - 1
           /\ Ahead(sq) \in Int
           /\ sq.nxt = seq_add(sq.una, Ahead(sq))
<1>1. /\ e.seq \in SeqNum /\ e.data \in Seq(Nat) /\ sq.una \in SeqNum /\ sq.nxt \in SeqNum
  BY DEF SendQueueType, EntryType
<1>2. Len(e.data) \in Nat
  BY <1>1, LenProperties
<1>3. seq_len(e) \in Nat
  <2> DEFINE syn == IF "SYN" \in e.flags THEN 1 ELSE 0
             fin == IF "FIN" \in e.flags THEN 1 ELSE 0
  <2>1. syn \in Nat /\ fin \in Nat
    OBVIOUS
  <2>2. seq_len(e) = Len(e.data) + syn + fin
    BY DEF seq_len
  <2> HIDE DEF syn, fin
  <2> QED BY <1>2, <2>1, <2>2
<1>4. /\ Place(e, sq) \in -SEQ_HALF .. SEQ_HALF - 1 /\ e.seq = seq_add(sq.una, Place(e, sq))
      /\ Ahead(sq) \in -SEQ_HALF .. SEQ_HALF - 1 /\ sq.nxt = seq_add(sq.una, Ahead(sq))
  BY <1>1, DiffIs DEF Place, Ahead
<1>5. Place(e, sq) \in Int /\ Ahead(sq) \in Int
  BY <1>4, Halves
<1>6. seq_end(e) = seq_add(sq.una, Place(e, sq) + seq_len(e))
  <2> DEFINE p == Place(e, sq)
             l == seq_len(e)
  <2>1. /\ seq_end(e) = seq_add(e.seq, l) /\ e.seq = seq_add(sq.una, p)
        /\ p \in Int /\ l \in Int /\ sq.una \in SeqNum
    BY <1>1, <1>3, <1>4, <1>5 DEF seq_end
  <2> HIDE DEF p, l
  <2>2. seq_end(e) = seq_add(sq.una, p + l)
    BY <2>1, AddAdd
  <2> QED BY <2>2 DEF p, l
<1> QED BY <1>1, <1>2, <1>3, <1>4, <1>5, <1>6

\* What an acknowledgement does to the send queue.
LEMMA AcknowledgeIs ==
    ASSUME NEW sq \in SendQueueType, NEW ack \in SeqNum, seq_gt(ack, sq.una),
           NEW a, a = seq_diff(ack, sq.una)
    PROVE  /\ a \in 1 .. SEQ_HALF - 1 /\ ack = seq_add(sq.una, a)
           /\ Acknowledge(sq, ack) \in SendQueueType
           /\ Acknowledge(sq, ack).una = ack
           /\ Ahead(sq) >= 0 => Ahead(Acknowledge(sq, ack))
                                    = IF Ahead(sq) < a THEN 0 ELSE Ahead(sq) - a
           /\ Len(Acknowledge(sq, ack).buf) \in Nat
           /\ Len(Acknowledge(sq, ack).buf) <= Len(sq.buf)
           /\ sq.buf = << >> => Acknowledge(sq, ack).buf = << >>
           /\ a <= Len(sq.buf) =>
                 /\ a + Len(Acknowledge(sq, ack).buf) = Len(sq.buf)
                 /\ \A i \in 1 .. Len(Acknowledge(sq, ack).buf) :
                       Acknowledge(sq, ack).buf[i] = sq.buf[a + i]
<1> DEFINE n == Ahead(sq)
           m == Least(a, Len(sq.buf))
           r == Acknowledge(sq, ack)
<1>1. /\ sq.una \in SeqNum /\ sq.nxt \in SeqNum /\ sq.buf \in Seq(Nat)
      /\ Len(sq.buf) \in Nat
  BY LenProperties DEF SendQueueType
<1>2. a \in 1 .. SEQ_HALF - 1 /\ ack = seq_add(sq.una, a)
  BY <1>1, DiffIs, Halves
<1>3. n \in -SEQ_HALF .. SEQ_HALF - 1 /\ sq.nxt = seq_add(sq.una, n)
  BY <1>1, DiffIs DEF Ahead
<1>4. m \in Nat /\ m <= Len(sq.buf) /\ (a <= Len(sq.buf) => m = a)
  BY <1>1, <1>2, Halves DEF Least
<1>5. r = [una |-> ack, nxt |-> IF seq_lt(sq.nxt, ack) THEN ack ELSE sq.nxt,
           buf |-> BytesFrom(sq.buf, m)]
  BY DEF Acknowledge
<1> HIDE DEF m, r, n
<1>6. /\ BytesFrom(sq.buf, m) \in Seq(Nat) /\ m + Len(BytesFrom(sq.buf, m)) = Len(sq.buf)
      /\ \A i \in 1 .. Len(BytesFrom(sq.buf, m)) : BytesFrom(sq.buf, m)[i] = sq.buf[m + i]
      /\ Len(BytesFrom(sq.buf, m)) \in Nat
  BY <1>1, <1>4, BytesFromAre, LenProperties
<1>7. r \in SendQueueType /\ r.una = ack /\ r.buf = BytesFrom(sq.buf, m)
      /\ r.nxt = IF seq_lt(sq.nxt, ack) THEN ack ELSE sq.nxt
  BY <1>1, <1>5, <1>6 DEF SendQueueType
<1>8. ASSUME n >= 0 PROVE Ahead(r) = IF n < a THEN 0 ELSE n - a
  <2>1. n \in Int /\ a \in Int /\ -SEQ_HALF < a - n /\ a - n < SEQ_HALF
        /\ -SEQ_HALF < n - a /\ n - a < SEQ_HALF
    BY <1>2, <1>3, <1>8, Halves
  <2>2. seq_lt(sq.nxt, ack) <=> a > n
    BY <1>1, <1>2, <1>3, <2>1, FromBase DEF seq_gt
  <2>3. CASE a > n
    <3>1. r.nxt = ack
      BY <1>7, <2>2, <2>3
    <3>2. seq_diff(seq_add(sq.una, a), seq_add(sq.una, a)) = a - a
      BY <1>1, <2>1, Halves, FromBase
    <3>3. seq_diff(ack, ack) = 0
      <4>1. a - a = 0
        BY <2>1
      <4> QED BY <1>2, <3>2, <4>1
    <3> QED BY <1>7, <2>1, <2>3, <3>1, <3>3 DEF Ahead
  <2>4. CASE ~(a > n)
    <3>1. r.nxt = sq.nxt
      BY <1>7, <2>2, <2>4
    <3>2. seq_diff(seq_add(sq.una, n), seq_add(sq.una, a)) = n - a
      BY <1>1, <2>1, FromBase
    <3>3. seq_diff(sq.nxt, ack) = n - a
      BY <1>2, <1>3, <3>2
    <3> QED BY <1>7, <2>1, <2>4, <3>1, <3>3 DEF Ahead
  <2> QED BY <2>3, <2>4
<1>9. sq.buf = << >> => r.buf = << >>
  <2> SUFFICES ASSUME sq.buf = << >> PROVE r.buf = << >>
    OBVIOUS
  <2>1. Len(r.buf) = 0
    BY <1>1, <1>4, <1>6, <1>7, EmptySeq
  <2> QED BY <1>6, <1>7, <2>1, EmptySeq
<1>10. Len(r.buf) \in Nat /\ Len(r.buf) <= Len(sq.buf)
  BY <1>1, <1>4, <1>6, <1>7
<1>11. ASSUME a <= Len(sq.buf)
       PROVE  /\ a + Len(r.buf) = Len(sq.buf)
              /\ \A i \in 1 .. Len(r.buf) : r.buf[i] = sq.buf[a + i]
  <2>1. m = a
    BY <1>4, <1>11
  <2> QED BY <1>6, <1>7, <2>1
<1> QED BY <1>2, <1>7, <1>8, <1>9, <1>10, <1>11 DEF r, n

\* RetxAcknowledge keeps entries of the queue.
LEMMA RetxAcknowledgeType ==
    ASSUME NEW retx \in Seq(EntryType), NEW ack
    PROVE  RetxAcknowledge(retx, ack) \in Seq(EntryType)
<1> DEFINE P == {i \in 1 .. Len(retx) : ~seq_le(seq_end(retx[i]), ack)}
<1>1. P \subseteq 1 .. Len(retx)
  OBVIOUS
<1>2. RetxAcknowledge(retx, ack) = Picked(retx, P)
  BY DEF RetxAcknowledge
<1> HIDE DEF P
<1>3. Picked(retx, P) \in Seq(EntryType)
  BY <1>1, PickedIs
<1> QED BY <1>2, <1>3

\* An entry that is not acknowledged whole starts as much nearer to snd_una.
LEMMA PlaceAfterAck ==
    ASSUME NEW sq \in SendQueueType, NEW e \in EntryType, EntryOK(e, sq),
           NEW ack \in SeqNum, seq_gt(ack, sq.una),
           NEW a, a = seq_diff(ack, sq.una),
           Ahead(sq) >= 0
    PROVE  /\ ~seq_le(seq_end(e), ack) <=> Place(e, sq) + seq_len(e) > a
           /\ ~seq_le(seq_end(e), ack) =>
                Place(e, Acknowledge(sq, ack)) = Place(e, sq) - a
<1> DEFINE p == Place(e, sq)
           l == seq_len(e)
           n == Ahead(sq)
<1>1. /\ p \in -SEQ_HALF .. SEQ_HALF - 1 /\ l \in 1 .. LongestPayload /\ p + l \in 1 .. n
      /\ e.seq = seq_add(sq.una, p) /\ seq_end(e) = seq_add(sq.una, p + l)
      /\ n \in -SEQ_HALF .. SEQ_HALF - 1
  BY EntryFields DEF EntryOK
<1>2. a \in 1 .. SEQ_HALF - 1 /\ ack = seq_add(sq.una, a) /\ Acknowledge(sq, ack).una = ack
  BY AcknowledgeIs
<1>3. sq.una \in SeqNum
  BY DEF SendQueueType
<1> HIDE DEF p, l, n
<1>4. p \in Int /\ l \in Int /\ a \in Int /\ n \in Int
  BY <1>1, <1>2, Halves, Sizes
<1>5. -SEQ_HALF < (p + l) - a /\ (p + l) - a < SEQ_HALF
  BY <1>1, <1>2, <1>4, Halves
<1>6. seq_le(seq_end(e), ack) <=> p + l <= a
  BY <1>1, <1>2, <1>3, <1>4, <1>5, FromBase
<1>7. ASSUME p + l > a PROVE seq_diff(e.seq, ack) = p - a
  <2>1. -SEQ_HALF < p - a /\ p - a < SEQ_HALF
    BY <1>1, <1>2, <1>4, <1>7, Halves, Sizes
  <2> QED BY <1>1, <1>2, <1>3, <1>4, <2>1, FromBase
<1>8. Place(e, Acknowledge(sq, ack)) = seq_diff(e.seq, ack)
  BY <1>2 DEF Place
<1>9. ~(p + l <= a) <=> p + l > a
  BY <1>4
<1> QED BY <1>6, <1>7, <1>8, <1>9 DEF p, l

\* A new acknowledgement keeps both queues fitting together.
LEMMA AckKeeps ==
    ASSUME NEW sq \in SendQueueType, NEW retx \in Seq(EntryType), NEW most \in Int,
           SendOK(sq, retx, most), NEW ack \in SeqNum, seq_gt(ack, sq.una)
    PROVE  SendOK(Acknowledge(sq, ack), RetxAcknowledge(retx, ack), most)
<1> DEFINE a == seq_diff(ack, sq.una)
           n == Ahead(sq)
           rq1 == Acknowledge(sq, ack)
           rx == RetxAcknowledge(retx, ack)
           n1 == Ahead(rq1)
           P == {i \in 1 .. Len(retx) : ~seq_le(seq_end(retx[i]), ack)}
           c == Cardinality(P)
           at == InOrder(P)
           L == Len(retx)
<1>1. L \in Nat /\ P \in SUBSET (1 .. L) /\ \A i \in 1 .. L : retx[i] \in EntryType
  BY LenProperties, ElementOfSeq
<1>2. n \in 0 .. most /\ Len(sq.buf) <= SendCapacity
      /\ sq.buf \in Seq(Nat) /\ Len(sq.buf) \in Nat
  BY LenProperties DEF SendOK, SendQueueType
<1>3. /\ a \in 1 .. SEQ_HALF - 1
      /\ rq1 \in SendQueueType /\ rq1.una = ack
      /\ n1 = IF n < a THEN 0 ELSE n - a
      /\ Len(rq1.buf) \in Nat /\ Len(rq1.buf) <= Len(sq.buf)
      /\ a <= Len(sq.buf) =>
            /\ a + Len(rq1.buf) = Len(sq.buf)
            /\ \A i \in 1 .. Len(rq1.buf) : rq1.buf[i] = sq.buf[a + i]
  BY <1>2, AcknowledgeIs
<1>4. rx = Picked(retx, P) /\ Len(rx) = c /\ rx \in Seq(EntryType) /\ c \in Nat
  <2>1. rx = Picked(retx, P)
    BY DEF RetxAcknowledge
  <2> HIDE DEF P, rx
  <2>2. Picked(retx, P) \in Seq(EntryType) /\ Len(Picked(retx, P)) = c
    BY <1>1, PickedIs
  <2>3. Len(Picked(retx, P)) \in Nat
    BY <2>2, LenProperties
  <2> QED BY <2>1, <2>2, <2>3
<1>5. /\ \A k \in 1 .. c : at[k] \in P /\ Picked(retx, P)[k] = retx[at[k]]
      /\ \A k, m \in 1 .. c : at[k] = at[m] => k = m
      /\ \A i \in P : \E k \in 1 .. c : at[k] = i
  <2> HIDE DEF P, L, at, c
  <2>0. L \in Nat /\ P \in SUBSET (1 .. L)
    BY <1>1
  <2>1. /\ \A k \in 1 .. Cardinality(P) : InOrder(P)[k] \in P
        /\ \A k, m \in 1 .. Cardinality(P) : InOrder(P)[k] = InOrder(P)[m] => k = m
        /\ \A i \in P : \E k \in 1 .. Cardinality(P) : InOrder(P)[k] = i
    BY <2>0, InOrderIs, Zenon
  <2>2. \A k \in 1 .. Cardinality(P) : Picked(retx, P)[k] = retx[InOrder(P)[k]]
    BY PickedAt
  <2> QED BY <2>1, <2>2, Zenon DEF c, at
<1>6. \A i \in 1 .. L : EntryOK(retx[i], sq)
  BY DEF SendOK
<1>7. \A i \in 1 .. L :
        /\ i \in P <=> Place(retx[i], sq) + seq_len(retx[i]) > a
        /\ i \in P => Place(retx[i], rq1) = Place(retx[i], sq) - a
  <2>1. n >= 0
    BY <1>2
  <2> SUFFICES ASSUME NEW i \in 1 .. L
               PROVE  /\ i \in P <=> Place(retx[i], sq) + seq_len(retx[i]) > a
                      /\ i \in P => Place(retx[i], rq1) = Place(retx[i], sq) - a
    OBVIOUS
  <2>2. retx[i] \in EntryType /\ EntryOK(retx[i], sq)
    BY <1>1, <1>6
  <2>3. i \in P <=> ~seq_le(seq_end(retx[i]), ack)
    OBVIOUS
  <2> HIDE DEF P
  <2> QED BY <2>1, <2>2, <2>3, PlaceAfterAck
<1>8. \A k \in 1 .. c : at[k] \in P /\ at[k] \in 1 .. L /\ rx[k] = retx[at[k]]
  <2> HIDE DEF P, rx
  <2> QED BY <1>1, <1>4, <1>5
<1>9. \A i \in 1 .. L : /\ Place(retx[i], sq) \in Int /\ seq_len(retx[i]) \in Nat
                        /\ Len(retx[i].data) \in Nat
  BY <1>1, EntryFields
<1>10. \A i \in 1 .. L : \A j \in 1 .. L : i # j => Apart(retx[i], retx[j], sq)
  BY DEF SendOK
<1>11. \A k \in 0 .. n - 1 : \E i \in 1 .. L :
          Place(retx[i], sq) <= k /\ k < Place(retx[i], sq) + seq_len(retx[i])
  BY DEF SendOK
<1>12. a \in Int /\ n \in Nat /\ n1 \in Nat /\ n1 <= most
  BY <1>2, <1>3, Halves
<1> HIDE DEF a, n, rq1, rx, n1, P, c, at, L
<1>13. ASSUME NEW k \in 1 .. c PROVE EntryOK(rx[k], rq1)
  <2> DEFINE e == rx[k]
             p == Place(e, sq)
             l == seq_len(e)
  <2>1. /\ EntryOK(e, sq) /\ p + l > a /\ Place(e, rq1) = p - a
        /\ p \in Int /\ l \in Nat /\ Len(e.data) \in Nat
    BY <1>6, <1>7, <1>8, <1>9
  <2>2. l \in 1 .. LongestPayload /\ p + l \in 1 .. n /\ (e.data # << >> => l = Len(e.data))
        /\ \A j \in 1 .. Len(e.data) :
             p + j > 0 => p + j <= Len(sq.buf) /\ e.data[j] = sq.buf[p + j]
    BY <2>1 DEF EntryOK, n
  <2> HIDE DEF e, p, l
  <2>3. (p - a) + l \in 1 .. n1
    BY <1>3, <1>12, <2>1, <2>2
  <2>4. ASSUME NEW j \in 1 .. Len(e.data), (p - a) + j > 0
        PROVE  (p - a) + j <= Len(rq1.buf) /\ e.data[j] = rq1.buf[(p - a) + j]
    <3>1. j \in Int /\ p + j > 0 /\ p + j > a
      BY <1>3, <1>12, <2>1, <2>4
    <3>2. p + j <= Len(sq.buf) /\ e.data[j] = sq.buf[p + j]
      BY <2>2, <3>1
    <3>3. a <= Len(sq.buf)
      BY <1>2, <1>12, <2>1, <3>1, <3>2
    <3>4. (p - a) + j \in 1 .. Len(rq1.buf)
      BY <1>2, <1>3, <1>12, <2>1, <2>4, <3>1, <3>2, <3>3
    <3>5. rq1.buf[(p - a) + j] = sq.buf[a + ((p - a) + j)]
      BY <1>3, <3>3, <3>4
    <3>6. a + ((p - a) + j) = p + j
      BY <1>12, <2>1, <3>1
    <3> QED BY <3>2, <3>4, <3>5, <3>6
  <2> QED BY <2>1, <2>2, <2>3, <2>4 DEF EntryOK, e, l, n1
<1>14. ASSUME NEW k \in 1 .. c, NEW m \in 1 .. c, k # m PROVE Apart(rx[k], rx[m], rq1)
  <2> DEFINE e == rx[k]
             f == rx[m]
             p == Place(e, sq)
             q == Place(f, sq)
             x == seq_len(e)
             y == seq_len(f)
  <2>1. at[k] # at[m]
    BY <1>5, <1>14
  <2>2. Apart(e, f, sq)
    BY <1>8, <1>10, <2>1
  <2>3. /\ Place(e, rq1) = p - a /\ Place(f, rq1) = q - a
        /\ p \in Int /\ q \in Int /\ x \in Int /\ y \in Int
    BY <1>7, <1>8, <1>9
  <2>4. e.data # << >> /\ f.data # << >> => p + x <= q \/ q + y <= p
    BY <2>2 DEF Apart
  <2> HIDE DEF e, f, p, q, x, y
  <2>5. /\ p + x <= q => (p - a) + x <= q - a
        /\ q + y <= p => (q - a) + y <= p - a
    BY <1>12, <2>3
  <2> QED BY <2>3, <2>4, <2>5 DEF Apart, e, f, x, y
<1>15. ASSUME NEW k \in 0 .. n1 - 1
       PROVE  \E i \in 1 .. c : Place(rx[i], rq1) <= k /\ k < Place(rx[i], rq1) + seq_len(rx[i])
  <2>1. k \in Int /\ k + a \in 0 .. n - 1 /\ k >= 0
    BY <1>3, <1>12
  <2>2. PICK i \in 1 .. L :
          Place(retx[i], sq) <= k + a /\ k + a < Place(retx[i], sq) + seq_len(retx[i])
    BY <1>11, <2>1
  <2>3. Place(retx[i], sq) \in Int /\ seq_len(retx[i]) \in Nat
    BY <1>9
  <2>4. i \in P
    BY <1>7, <1>12, <2>1, <2>2, <2>3
  <2>5. PICK h \in 1 .. c : at[h] = i
    BY <1>5, <2>4
  <2>6. rx[h] = retx[i] /\ Place(rx[h], rq1) = Place(retx[i], sq) - a
    BY <1>7, <1>8, <2>4, <2>5
  <2>7. Place(rx[h], rq1) <= k /\ k < Place(rx[h], rq1) + seq_len(rx[h])
    BY <1>12, <2>1, <2>2, <2>3, <2>6
  <2> QED BY <2>7
<1>16. n1 \in 0 .. most /\ Len(rq1.buf) <= SendCapacity
  BY <1>2, <1>3, <1>12, Sizes
<1>17. SendOK(rq1, rx, most)
  BY <1>4, <1>13, <1>14, <1>15, <1>16 DEF SendOK, n1
<1> QED BY <1>17 DEF rq1, rx

\* The bytes outstanding have a place each, among those in flight or in the
\* segment that snd_una has entered.
LEMMA BytesBound ==
    ASSUME NEW sq \in SendQueueType, NEW retx \in Seq(EntryType), NEW most \in Int,
           SendOK(sq, retx, most)
    PROVE  /\ BytesOutstanding(retx) \in Nat
           /\ BytesOutstanding(retx) + 1 <= Ahead(sq) + LongestPayload
<1> DEFINE L == Len(retx)
           n == Ahead(sq)
           p(i) == Place(retx[i], sq)
           l(i) == Len(retx[i].data)
           U == UNION {{i} \X (1 .. Len(retx[i].data)) : i \in 1 .. Len(retx)}
           T == (1 - LongestPayload) .. (n - 1)
           f == [u \in U |-> p(u[1]) + u[2] - 1]
<1>1. n \in Nat /\ L \in Nat /\ LongestPayload \in Nat \ {0}
  <2>1. n \in 0 .. most
    BY DEF SendOK
  <2>2. n \in Nat
    BY <2>1
  <2> QED BY <2>2, LenProperties, Sizes
<1>2. \A i \in 1 .. L :
        /\ p(i) \in Int /\ l(i) \in Nat
        /\ l(i) # 0 => /\ l(i) <= LongestPayload
                       /\ p(i) + l(i) >= 1 /\ p(i) + l(i) <= n
                       /\ retx[i].data # << >> /\ seq_len(retx[i]) = l(i)
  <2> SUFFICES ASSUME NEW i \in 1 .. L
      PROVE  /\ p(i) \in Int /\ l(i) \in Nat
             /\ l(i) # 0 => /\ l(i) <= LongestPayload
                            /\ p(i) + l(i) >= 1 /\ p(i) + l(i) <= n
                            /\ retx[i].data # << >> /\ seq_len(retx[i]) = l(i)
    OBVIOUS
  <2>1. retx[i] \in EntryType /\ EntryOK(retx[i], sq)
    BY ElementOfSeq DEF SendOK
  <2> DEFINE e == retx[i]
  <2>2. p(i) \in Int /\ l(i) \in Nat /\ e.data \in Seq(Nat)
    BY <2>1, EntryFields
  <2>3. l(i) # 0 => e.data # << >>
    BY <2>2, EmptySeq
  <2>4. /\ seq_len(e) \in 1 .. LongestPayload /\ p(i) + seq_len(e) \in 1 .. n
        /\ e.data # << >> => seq_len(e) = l(i)
    BY <2>1 DEF EntryOK
  <2> HIDE DEF e, p, l, n
  <2>5. l(i) # 0 => /\ l(i) <= LongestPayload
                    /\ p(i) + l(i) >= 1 /\ p(i) + l(i) <= n
    BY <1>1, <2>2, <2>3, <2>4
  <2> QED BY <2>2, <2>3, <2>4, <2>5 DEF e
<1>3. \A i, j \in 1 .. L :
        i # j /\ l(i) # 0 /\ l(j) # 0 => p(i) + l(i) <= p(j) \/ p(j) + l(j) <= p(i)
  <2> SUFFICES ASSUME NEW i \in 1 .. L, NEW j \in 1 .. L, i # j, l(i) # 0, l(j) # 0
               PROVE  p(i) + l(i) <= p(j) \/ p(j) + l(j) <= p(i)
    OBVIOUS
  <2>1. Apart(retx[i], retx[j], sq)
    BY DEF SendOK
  <2>2. /\ retx[i].data # << >> /\ seq_len(retx[i]) = l(i)
        /\ retx[j].data # << >> /\ seq_len(retx[j]) = l(j)
    BY <1>2
  <2> QED BY <2>1, <2>2 DEF Apart
<1> HIDE DEF p, l
<1>4. \A u \in U : u[1] \in 1 .. L /\ u[2] \in 1 .. l(u[1]) /\ u = <<u[1], u[2]>>
  BY DEF l
<1> HIDE DEF U, L, n
<1>5. \A u \in U : f[u] \in T
  <2> SUFFICES ASSUME NEW u \in U PROVE p(u[1]) + u[2] - 1 \in T
    OBVIOUS
  <2> DEFINE i == u[1]
             j == u[2]
  <2>1. i \in 1 .. L /\ j \in 1 .. l(i)
    BY <1>4
  <2> HIDE DEF i, j
  <2>2. /\ p(i) \in Int /\ l(i) \in Nat
        /\ l(i) # 0 => /\ l(i) <= LongestPayload
                       /\ p(i) + l(i) >= 1 /\ p(i) + l(i) <= n
    BY <1>2, <2>1
  <2>3. p(i) + j - 1 \in T
    BY <1>1, <2>1, <2>2
  <2> QED BY <2>3 DEF i, j
<1>6. ASSUME NEW u \in U, NEW v \in U, f[u] = f[v] PROVE u = v
  <2> DEFINE i == u[1]
             j == u[2]
             k == v[1]
             m == v[2]
  <2>1. /\ i \in 1 .. L /\ j \in 1 .. l(i) /\ u = <<i, j>>
        /\ k \in 1 .. L /\ m \in 1 .. l(k) /\ v = <<k, m>>
        /\ p(i) + j - 1 = p(k) + m - 1
    BY <1>4, <1>6
  <2> HIDE DEF i, j, k, m
  <2>2. p(i) \in Int /\ l(i) \in Nat /\ p(k) \in Int /\ l(k) \in Nat
    BY <1>2, <2>1
  <2>3. i = k
    <3> SUFFICES ASSUME i # k PROVE FALSE
      OBVIOUS
    <3>1. p(i) + l(i) <= p(k) \/ p(k) + l(k) <= p(i)
      BY <1>3, <2>1, <2>2
    <3> QED BY <2>1, <2>2, <3>1
  <2>4. j = m
    BY <2>1, <2>2, <2>3
  <2> QED BY <2>1, <2>3, <2>4
<1>7. f \in [U -> T]
  BY <1>5
<1> HIDE DEF f
<1>8. f \in Injection(U, T)
  BY <1>6, <1>7 DEF Injection, IsInjective
<1>9. IsFiniteSet(T) /\ Cardinality(T) = n - 1 + LongestPayload
  <2> DEFINE a == 1 - LongestPayload
             b == n - 1
  <2>1. a \in Int /\ b \in Int /\ a <= b + 1 /\ b - a + 1 = n - 1 + LongestPayload
    BY <1>1
  <2> HIDE DEF a, b
  <2>2. IsFiniteSet(a .. b) /\ Cardinality(a .. b) = IF a > b THEN 0 ELSE b - a + 1
    BY <2>1, FS_Interval
  <2>3. Cardinality(a .. b) = b - a + 1
    BY <2>1, <2>2
  <2> QED BY <2>1, <2>2, <2>3 DEF a, b
<1> HIDE DEF T
<1>10. Cardinality(U) \in Nat /\ Cardinality(U) <= n - 1 + LongestPayload
  <2>1. IsFiniteSet(U) /\ Cardinality(U) <= Cardinality(T)
    BY <1>8, <1>9, FS_Injection
  <2> QED BY <1>9, <2>1, FS_CardinalityType
<1>11. BytesOutstanding(retx) = Cardinality(U)
  BY DEF BytesOutstanding, U
<1> QED BY <1>1, <1>10, <1>11 DEF n

\* The entry RetxAdd makes.
Entry(seq, flags, data) ==
    [seq |-> seq, flags |-> flags, data |-> data, retransmits |-> 0]

\* RetxAdd adds an entry or leaves the queue alone.
LEMMA RetxAddType ==
    ASSUME NEW retx \in Seq(EntryType), NEW seq \in SeqNum, NEW flags \in SUBSET Flag,
           NEW data \in Seq(Nat)
    PROVE  /\ Entry(seq, flags, data) \in EntryType
           /\ RetxAdd(retx, seq, flags, data) \in Seq(EntryType)
           /\ retx # << >> => RetxAdd(retx, seq, flags, data) # << >>
<1> DEFINE e == Entry(seq, flags, data)
           r == RetxAdd(retx, seq, flags, data)
<1>1. e \in EntryType
  BY DEF Entry, EntryType
<1>2. r = retx \/ r = Append(retx, e)
  BY DEF RetxAdd, Entry
<1> HIDE DEF e, r
<1>3. Append(retx, e) \in Seq(EntryType) /\ Append(retx, e) # << >>
  BY <1>1, AppendProperties
<1> QED BY <1>1, <1>2, <1>3 DEF e, r

\* Adding an entry keeps both queues fitting together, when it covers what is
\* newly in flight and repeats no byte.
LEMMA AppendKeeps ==
    ASSUME NEW sq \in SendQueueType, NEW retx \in Seq(EntryType),
           NEW most \in Int, SendOK(sq, retx, most),
           NEW e \in EntryType, NEW nxt \in SeqNum, NEW sq1, sq1 = [sq EXCEPT !.nxt = nxt],
           NEW most1 \in Int, Ahead(sq1) <= most1, Ahead(sq) <= Ahead(sq1),
           EntryOK(e, sq1),
           \A k \in Ahead(sq) .. Ahead(sq1) - 1 :
              Place(e, sq) <= k /\ k < Place(e, sq) + seq_len(e),
           e.data # << >> => Place(e, sq) >= Ahead(sq)
    PROVE  SendOK(sq1, Append(retx, e), most1)
<1> DEFINE L == Len(retx)
           rx == Append(retx, e)
           n == Ahead(sq)
           n1 == Ahead(sq1)
<1>1. /\ sq1 \in SendQueueType /\ sq1.una = sq.una /\ sq1.buf = sq.buf /\ sq1.nxt = nxt
  BY DEF SendQueueType
<1>2. /\ L \in Nat /\ Len(rx) = L + 1 /\ rx \in Seq(EntryType) /\ rx[L + 1] = e
      /\ \A i \in 1 .. L : rx[i] = retx[i] /\ retx[i] \in EntryType
  BY AppendProperties, LenProperties, ElementOfSeq
<1>3. \A f : Place(f, sq1) = Place(f, sq)
  BY <1>1 DEF Place
<1>4. n \in 0 .. most /\ n \in Int /\ n1 \in Int
  <2>1. n \in 0 .. most
    BY DEF SendOK
  <2>2. n1 \in Int
    BY <1>1, EntryFields
  <2>3. n \in Int
    BY <2>1
  <2> QED BY <2>1, <2>2, <2>3
<1>5. ASSUME NEW i \in 1 .. L PROVE EntryOK(retx[i], sq1)
  <2>1. EntryOK(retx[i], sq) /\ Place(retx[i], sq) \in Int /\ seq_len(retx[i]) \in Nat
    BY <1>2, EntryFields DEF SendOK
  <2>2. Place(retx[i], sq) + seq_len(retx[i]) \in 1 .. n1
    <3>1. Place(retx[i], sq) + seq_len(retx[i]) \in 1 .. n
      BY <2>1 DEF EntryOK
    <3> HIDE DEF n, n1
    <3> QED BY <1>4, <2>1, <3>1 DEF n, n1
  <2> QED BY <1>1, <1>3, <2>1, <2>2 DEF EntryOK
<1>6. ASSUME NEW i \in 1 .. L PROVE Apart(retx[i], e, sq1) /\ Apart(e, retx[i], sq1)
  <2>1. /\ Place(retx[i], sq) + seq_len(retx[i]) \in 1 .. n
        /\ Place(retx[i], sq) \in Int /\ seq_len(retx[i]) \in Nat
        /\ Place(e, sq) \in Int
    <3>1. EntryOK(retx[i], sq)
      BY DEF SendOK
    <3> QED BY <1>2, <3>1, EntryFields DEF EntryOK
  <2>2. e.data # << >> => Place(retx[i], sq) + seq_len(retx[i]) <= Place(e, sq)
    BY <1>4, <2>1
  <2> QED BY <1>3, <2>2 DEF Apart
<1>7. \A i, j \in 1 .. L : i # j => Apart(retx[i], retx[j], sq1)
  BY <1>3 DEF SendOK, Apart
<1>8. ASSUME NEW k \in 0 .. n1 - 1
      PROVE  \E i \in 1 .. L + 1 : /\ Place(rx[i], sq1) <= k
                                   /\ k < Place(rx[i], sq1) + seq_len(rx[i])
  <2>0. k \in Int /\ 0 <= k /\ k <= n1 - 1 /\ L + 1 \in 1 .. L + 1
    BY <1>2, <1>4
  <2>1. CASE k < n
    <3>1. k \in 0 .. n - 1
      BY <1>4, <2>0, <2>1
    <3>2. PICK i \in 1 .. L : Place(retx[i], sq) <= k /\ k < Place(retx[i], sq) + seq_len(retx[i])
      BY <3>1 DEF SendOK
    <3>3. i \in 1 .. L + 1 /\ rx[i] = retx[i]
      BY <1>2
    <3> QED BY <1>3, <3>2, <3>3
  <2>2. CASE ~(k < n)
    <3>1. k \in n .. n1 - 1
      BY <1>4, <2>0, <2>2
    <3>2. Place(e, sq) <= k /\ k < Place(e, sq) + seq_len(e)
      BY <3>1
    <3> QED BY <1>2, <1>3, <2>0, <3>2
  <2> QED BY <2>1, <2>2
<1>9. n1 \in 0 .. most1
  BY <1>4
<1>10. Len(sq1.buf) <= SendCapacity
  BY <1>1 DEF SendOK
<1> HIDE DEF L, rx, n, n1
<1>11. \A i \in 1 .. L + 1 : EntryOK(rx[i], sq1)
  <2> SUFFICES ASSUME NEW i \in 1 .. L + 1 PROVE EntryOK(rx[i], sq1)
    OBVIOUS
  <2>1. CASE i = L + 1
    BY <1>2, <2>1
  <2>2. CASE i # L + 1
    <3>1. i \in 1 .. L
      BY <1>2, <2>2
    <3> QED BY <1>2, <1>5, <3>1
  <2> QED BY <2>1, <2>2
<1>12. \A i, j \in 1 .. L + 1 : i # j => Apart(rx[i], rx[j], sq1)
  <2> SUFFICES ASSUME NEW i \in 1 .. L + 1, NEW j \in 1 .. L + 1, i # j
               PROVE  Apart(rx[i], rx[j], sq1)
    OBVIOUS
  <2>1. CASE i = L + 1
    <3>1. j \in 1 .. L
      BY <1>2, <2>1
    <3> QED BY <1>2, <1>6, <2>1, <3>1
  <2>2. CASE j = L + 1
    <3>1. i \in 1 .. L
      BY <1>2, <2>2
    <3> QED BY <1>2, <1>6, <2>2, <3>1
  <2>3. CASE i # L + 1 /\ j # L + 1
    <3>1. i \in 1 .. L /\ j \in 1 .. L
      BY <1>2, <2>3
    <3> QED BY <1>2, <1>7, <3>1
  <2> QED BY <2>1, <2>2, <2>3
<1>13. SendOK(sq1, rx, most1)
  BY <1>2, <1>8, <1>9, <1>10, <1>11, <1>12 DEF SendOK, n1
<1> QED BY <1>13 DEF rx

\* A segment sent at snd_nxt is remembered, and both queues go on fitting
\* together: one byte of sequence space without data, or the bytes that come
\* next in the send queue.
LEMMA SendKeeps ==
    ASSUME NEW sq \in SendQueueType, NEW retx \in Seq(EntryType),
           NEW most \in Int, SendOK(sq, retx, most),
           NEW flags \in SUBSET Flag, NEW data \in Seq(Nat),
           NEW l \in Nat, l = seq_len(Entry(sq.nxt, flags, data)),
           \/ data = << >> /\ l = 1
           \/ /\ data # << >> /\ l = Len(data) /\ l <= LongestPayload
              /\ Ahead(sq) + l <= Len(sq.buf)
              /\ \A j \in 1 .. Len(data) : data[j] = sq.buf[Ahead(sq) + j],
           Ahead(sq) + Len(data) <= MostInFlight,
           NEW most1 \in Int, Ahead(sq) + l <= most1, most1 <= MostInFlight + 1
    PROVE  /\ RetxAdd(retx, sq.nxt, flags, data) # << >>
           /\ SendOK([sq EXCEPT !.nxt = seq_add(sq.nxt, l)],
                     RetxAdd(retx, sq.nxt, flags, data), most1)
<1> DEFINE n == Ahead(sq)
           e == Entry(sq.nxt, flags, data)
           nxt == seq_add(sq.nxt, l)
           sq1 == [sq EXCEPT !.nxt = nxt]
<1>1. n \in Nat /\ n <= most /\ sq.una \in SeqNum /\ sq.nxt \in SeqNum
  <2>1. n \in 0 .. most
    BY DEF SendOK
  <2>2. n \in Nat /\ n <= most
    BY <2>1
  <2> QED BY <2>2 DEF SendQueueType
<1>2. e \in EntryType /\ e.seq = sq.nxt /\ e.data = data /\ seq_len(e) = l
  BY <1>1, RetxAddType DEF Entry
<1>3. RetxAdd(retx, sq.nxt, flags, data) = Append(retx, e)
  <2>1. BytesOutstanding(retx) \in Nat /\ BytesOutstanding(retx) + 1 <= n + LongestPayload
    BY BytesBound
  <2>2. Len(data) \in Nat
    BY LenProperties
  <2> DEFINE b == BytesOutstanding(retx)
             d == Len(data)
  <2>3. /\ b \in Nat /\ b + 1 <= n + LongestPayload /\ d \in Nat
        /\ n + d <= MostInFlight
    BY <2>1, <2>2
  <2> HIDE DEF n, b, d
  <2>4. ~(b + d > RetxCapacity)
    BY <1>1, <2>3, Limits
  <2> QED BY <2>4 DEF RetxAdd, Entry, b, d
<1>4. Append(retx, e) # << >>
  BY <1>2, AppendProperties
<1>5. nxt \in SeqNum /\ sq1.una = sq.una /\ sq1.buf = sq.buf /\ sq1.nxt = nxt
      /\ sq1 \in SendQueueType
  <2>1. nxt \in SeqNum
    <3>1. sq.nxt \in Int
      BY <1>1 DEF SeqNum
    <3> QED BY <3>1, AddIsSeqNum
  <2> HIDE DEF nxt
  <2> QED BY <2>1 DEF SendQueueType
<1>6. Place(e, sq) = n /\ Place(e, sq1) = n
  BY <1>2, <1>5 DEF Place, Ahead
<1>7. sq.nxt = seq_add(sq.una, n)
  BY <1>2, EntryFields
<1> HIDE DEF n, e, nxt
<1>8. Ahead(sq1) = n + l
  <2>1. n \in Int /\ l \in Int /\ n + l \in Int /\ 0 \in Int
        /\ -SEQ_HALF < (n + l) - 0 /\ (n + l) - 0 < SEQ_HALF /\ (n + l) - 0 = n + l
    <3>1. n + l <= MostInFlight + 1
      <4>1. n + l <= most1
        BY DEF n
      <4> QED BY <1>1, <4>1, Limits
    <3> QED BY <1>1, <3>1, Limits, Halves
  <2>2. nxt = seq_add(sq.una, n + l)
    <3>1. seq_add(seq_add(sq.una, n), l) = seq_add(sq.una, n + l)
      BY <1>1, <2>1, AddAdd
    <3> QED BY <1>7, <3>1 DEF nxt
  <2>3. seq_diff(seq_add(sq.una, n + l), seq_add(sq.una, 0)) = (n + l) - 0
    BY <1>1, <2>1, FromBase
  <2>4. seq_add(sq.una, 0) = sq.una
    BY <1>1, DiffIs
  <2> QED BY <1>5, <2>1, <2>2, <2>3, <2>4 DEF Ahead
<1>9. EntryOK(e, sq1)
  <2>1. l \in 1 .. LongestPayload /\ l \in Nat
    <3>1. data # << >> => Len(data) \in Nat /\ Len(data) # 0
      BY EmptySeq, LenProperties
    <3> QED BY <3>1, Sizes
  <2>2. n + l \in 1 .. n + l
    BY <1>1, <2>1
  <2>3. data # << >> => l = Len(data)
    OBVIOUS
  <2>4. ASSUME NEW j \in 1 .. Len(data) PROVE n + j <= Len(sq.buf) /\ data[j] = sq.buf[n + j]
    <3>1. Len(<< >>) = 0 /\ Len(sq.buf) \in Nat
      BY EmptySeq, LenProperties DEF SendQueueType
    <3>2. data # << >>
      BY <3>1
    <3>3. l = Len(data) /\ n + l <= Len(sq.buf) /\ data[j] = sq.buf[n + j]
      BY <3>2 DEF n
    <3> QED BY <1>1, <2>1, <3>1, <3>3
  <2> QED BY <1>2, <1>5, <1>6, <1>8, <2>1, <2>2, <2>3, <2>4 DEF EntryOK
<1>10. \A k \in n .. (n + l) - 1 : n <= k /\ k < n + l
  BY <1>1
<1>11. SendOK(sq1, Append(retx, e), most1)
  <2>1. n <= n + l /\ n + l <= most1
    BY <1>1 DEF n
  <2> HIDE DEF sq1
  <2>2. sq1 = [sq EXCEPT !.nxt = nxt]
    BY DEF sq1
  <2>3. /\ Ahead(sq1) <= most1 /\ n <= Ahead(sq1) /\ n >= n
        /\ \A k \in n .. Ahead(sq1) - 1 : Place(e, sq) <= k /\ k < Place(e, sq) + seq_len(e)
    BY <1>1, <1>2, <1>6, <1>8, <1>10, <2>1
  <2> QED BY <1>2, <1>5, <1>6, <1>9, <2>2, <2>3, AppendKeeps DEF n
<1> QED BY <1>3, <1>4, <1>11 DEF nxt, sq1

\* Marking the oldest entry as sent again changes nothing that matters here.
LEMMA MarkKeeps ==
    ASSUME NEW retx \in Seq(EntryType), retx # << >>
    PROVE  /\ MarkOldestRetransmitted(retx) \in Seq(EntryType)
           /\ MarkOldestRetransmitted(retx) # << >>
           /\ retx[1] \in EntryType
           /\ \A sq, most : SendOK(sq, retx, most)
                               => SendOK(sq, MarkOldestRetransmitted(retx), most)
<1> DEFINE L == Len(retx)
           old == retx[1]
           new == [old EXCEPT !.retransmits = Least(@ + 1, MAX_RETRANSMITS)]
           rx == MarkOldestRetransmitted(retx)
<1>1. L \in Nat /\ L # 0 /\ 1 \in 1 .. L /\ \A i \in 1 .. L : retx[i] \in EntryType
  <2>1. L \in Nat /\ L # 0
    BY EmptySeq, LenProperties
  <2>2. 1 \in 1 .. L
    BY <2>1
  <2> QED BY <2>1, <2>2, ElementOfSeq
<1>2. new \in EntryType /\ new.seq = old.seq /\ new.flags = old.flags /\ new.data = old.data
  <2>1. old \in EntryType
    BY <1>1
  <2>2. old.retransmits \in Nat /\ MAX_RETRANSMITS \in Nat
    BY <2>1, SendAssumption DEF EntryType
  <2>3. Least(old.retransmits + 1, MAX_RETRANSMITS) \in Nat
    BY <2>2 DEF Least
  <2> HIDE DEF old
  <2> QED BY <2>1, <2>3 DEF EntryType
<1>3. rx = [retx EXCEPT ![1] = new]
  BY DEF MarkOldestRetransmitted
<1> HIDE DEF L, new, rx
<1>4. /\ rx \in Seq(EntryType) /\ Len(rx) = L
      /\ \A j \in 1 .. L : rx[j] = IF j = 1 THEN new ELSE retx[j]
  BY <1>1, <1>2, <1>3, ExceptSeq DEF L
<1>5. \A j \in 1 .. L : rx[j].seq = retx[j].seq /\ rx[j].flags = retx[j].flags
                        /\ rx[j].data = retx[j].data
  BY <1>2, <1>4
<1>6. rx # << >>
  BY <1>1, <1>4, EmptySeq
<1>7. ASSUME NEW sq, NEW most, SendOK(sq, retx, most) PROVE SendOK(sq, rx, most)
  <2>1. \A j \in 1 .. L : Place(rx[j], sq) = Place(retx[j], sq) /\ seq_len(rx[j]) = seq_len(retx[j])
    BY <1>5 DEF Place, seq_len
  <2>2. \A j \in 1 .. L : EntryOK(rx[j], sq)
    <3> SUFFICES ASSUME NEW j \in 1 .. L PROVE EntryOK(rx[j], sq)
      OBVIOUS
    <3>1. EntryOK(retx[j], sq)
      BY <1>7 DEF SendOK, L
    <3> QED BY <1>5, <2>1, <3>1 DEF EntryOK
  <2>3. \A i, j \in 1 .. L : i # j => Apart(rx[i], rx[j], sq)
    <3> SUFFICES ASSUME NEW i \in 1 .. L, NEW j \in 1 .. L, i # j PROVE Apart(rx[i], rx[j], sq)
      OBVIOUS
    <3>1. Apart(retx[i], retx[j], sq)
      BY <1>7 DEF SendOK, L
    <3> QED BY <1>5, <2>1, <3>1 DEF Apart
  <2>4. \A k \in 0 .. Ahead(sq) - 1 : \E i \in 1 .. L :
          Place(rx[i], sq) <= k /\ k < Place(rx[i], sq) + seq_len(rx[i])
    <3>1. \A k \in 0 .. Ahead(sq) - 1 : \E i \in 1 .. L :
            Place(retx[i], sq) <= k /\ k < Place(retx[i], sq) + seq_len(retx[i])
      BY <1>7 DEF SendOK, L
    <3> QED BY <2>1, <3>1
  <2>5. Ahead(sq) \in 0 .. most /\ Len(sq.buf) <= SendCapacity
    BY <1>7 DEF SendOK
  <2> QED BY <1>4, <2>2, <2>3, <2>4, <2>5 DEF SendOK
<1> QED BY <1>1, <1>4, <1>6, <1>7 DEF rx

\* Writing appends to the send queue, up to its capacity.
LEMMA WriteKeeps ==
    ASSUME NEW sq \in SendQueueType, NEW data \in Seq(Nat)
    PROVE  /\ Write(sq, data) \in SendQueueType
           /\ Write(sq, data).una = sq.una /\ Write(sq, data).nxt = sq.nxt
           /\ \A retx, most : retx \in Seq(EntryType) /\ SendOK(sq, retx, most)
                                 => SendOK(Write(sq, data), retx, most)
<1> DEFINE room == Room(sq)
           more == FirstBytes(data, room)
           new == Write(sq, data)
<1>1. sq.buf \in Seq(Nat) /\ Len(sq.buf) \in Nat /\ Len(data) \in Nat
  BY LenProperties DEF SendQueueType
<1>2. room \in Nat /\ (Len(sq.buf) <= SendCapacity => Len(sq.buf) + room <= SendCapacity)
  <2> DEFINE b == Len(sq.buf)
  <2>1. b \in Nat /\ room = IF SendCapacity - b >= 0 THEN SendCapacity - b ELSE 0
    BY <1>1 DEF Room, Most
  <2> HIDE DEF b, room
  <2>2. room \in Nat /\ (b <= SendCapacity => b + room <= SendCapacity)
    BY <2>1, Limits
  <2> QED BY <2>2 DEF b
<1> HIDE DEF room
<1>3. more \in Seq(Nat) /\ Len(more) \in Nat /\ Len(more) <= room
  BY <1>1, <1>2, FirstBytesAre, LenProperties DEF Least
<1>4. new = [sq EXCEPT !.buf = sq.buf \o more]
  BY DEF Write, room
<1> HIDE DEF more, new
<1>5. /\ sq.buf \o more \in Seq(Nat) /\ Len(sq.buf \o more) = Len(sq.buf) + Len(more)
      /\ \A i \in 1 .. Len(sq.buf) + Len(more) :
            (sq.buf \o more)[i] = IF i <= Len(sq.buf) THEN sq.buf[i] ELSE more[i - Len(sq.buf)]
  BY <1>1, <1>3, ConcatProperties
<1>6. \A i \in 1 .. Len(sq.buf) : (sq.buf \o more)[i] = sq.buf[i]
  BY <1>1, <1>3, <1>5
<1>7. /\ new \in SendQueueType /\ new.una = sq.una /\ new.nxt = sq.nxt
      /\ new.buf = sq.buf \o more
  BY <1>4, <1>5 DEF SendQueueType
<1>8. Len(new.buf) >= Len(sq.buf) /\ \A i \in 1 .. Len(sq.buf) : new.buf[i] = sq.buf[i]
  BY <1>1, <1>3, <1>5, <1>6, <1>7
<1>9. ASSUME NEW retx \in Seq(EntryType), NEW most, SendOK(sq, retx, most)
      PROVE  SendOK(new, retx, most)
  <2>1. Ahead(new) = Ahead(sq) /\ \A e : Place(e, new) = Place(e, sq)
    BY <1>7 DEF Ahead, Place
  <2>2. Len(new.buf) <= SendCapacity
    <3>1. Len(sq.buf) <= SendCapacity
      BY <1>9 DEF SendOK
    <3> QED BY <1>1, <1>2, <1>3, <1>5, <1>7, <3>1, Limits
  <2>3. ASSUME NEW i \in 1 .. Len(retx) PROVE EntryOK(retx[i], new)
    <3> DEFINE e == retx[i]
    <3>1. EntryOK(e, sq) /\ Place(e, sq) \in Int /\ Len(e.data) \in Nat
      <4>1. e \in EntryType
        BY ElementOfSeq
      <4> QED BY <1>9, <4>1, EntryFields DEF SendOK
    <3> HIDE DEF e
    <3>2. ASSUME NEW j \in 1 .. Len(e.data), Place(e, sq) + j > 0
          PROVE  /\ Place(e, sq) + j <= Len(new.buf)
                 /\ e.data[j] = new.buf[Place(e, sq) + j]
      <4>1. Place(e, sq) + j <= Len(sq.buf) /\ e.data[j] = sq.buf[Place(e, sq) + j]
        BY <3>1, <3>2 DEF EntryOK
      <4>2. Place(e, sq) + j \in 1 .. Len(sq.buf)
        BY <1>1, <3>1, <3>2, <4>1
      <4>3. Len(new.buf) \in Nat
        BY <1>7, LenProperties DEF SendQueueType
      <4> QED BY <1>1, <1>8, <3>1, <4>1, <4>2, <4>3
    <3>3. EntryOK(e, new)
      BY <2>1, <3>1, <3>2 DEF EntryOK
    <3> QED BY <3>3 DEF e
  <2> QED BY <1>9, <2>1, <2>2, <2>3 DEF SendOK, Apart
<1> QED BY <1>7, <1>9 DEF new

\* What peek(snd_nxt, length) returns: nothing at all, or the next bytes.
LEMMA PeekIs ==
    ASSUME NEW sq \in SendQueueType, NEW length \in Int
    PROVE  /\ Peek(sq, sq.nxt, length) \in Seq(Nat)
           /\ Len(Peek(sq, sq.nxt, length)) \in Nat
           /\ Peek(sq, sq.nxt, length) # << >> =>
                 /\ Len(Peek(sq, sq.nxt, length)) <= length
                 /\ Ahead(sq) + Len(Peek(sq, sq.nxt, length)) <= Len(sq.buf)
                 /\ \A j \in 1 .. Len(Peek(sq, sq.nxt, length)) :
                       Peek(sq, sq.nxt, length)[j] = sq.buf[Ahead(sq) + j]
           /\ Ahead(sq) = 0 /\ length > 0 /\ sq.buf # << >>
                 => Peek(sq, sq.nxt, length) # << >>
<1> DEFINE n == Ahead(sq)
           p == Peek(sq, sq.nxt, length)
           b == Len(sq.buf)
<1>1. sq.buf \in Seq(Nat) /\ b \in Nat /\ n \in Int
  <2>1. sq.una \in SeqNum /\ sq.nxt \in SeqNum
    BY DEF SendQueueType
  <2>2. n \in Int
    BY <2>1, DiffIs, Halves DEF Ahead
  <2> QED BY <2>2, LenProperties DEF SendQueueType
<1>2. p = IF n < 0 \/ length <= 0 THEN << >> ELSE FirstBytes(BytesFrom(sq.buf, n), length)
  BY DEF Peek, Ahead
<1>3. << >> \in Seq(Nat) /\ Len(<< >>) = 0
  BY EmptySeq
<1> HIDE DEF n, p
<1>4. CASE n < 0 \/ length <= 0
  <2>1. p = << >>
    BY <1>2, <1>4
  <2> QED BY <1>1, <1>3, <1>4, <2>1 DEF p, n
<1>5. CASE ~(n < 0 \/ length <= 0) /\ n <= b
  <2> DEFINE tail == BytesFrom(sq.buf, n)
             k == Least(length, Len(tail))
  <2>1. n \in Nat /\ length \in Nat /\ length > 0
    BY <1>1, <1>5
  <2>2. /\ tail \in Seq(Nat) /\ n + Len(tail) = b /\ Len(tail) \in Nat
        /\ \A i \in 1 .. Len(tail) : tail[i] = sq.buf[n + i]
    BY <1>1, <1>5, <2>1, BytesFromAre, LenProperties DEF b
  <2>3. p = FirstBytes(tail, length)
    BY <1>2, <1>5
  <2> HIDE DEF tail
  <2>4. p \in Seq(Nat) /\ Len(p) = k /\ \A i \in 1 .. k : p[i] = tail[i]
    BY <2>1, <2>2, <2>3, FirstBytesAre
  <2>5. k \in Nat /\ k <= length /\ k <= Len(tail) /\ (Len(tail) # 0 => k # 0)
    BY <2>1, <2>2 DEF Least
  <2> HIDE DEF k
  <2>6. ASSUME NEW j \in 1 .. k PROVE p[j] = sq.buf[n + j]
    <3>1. j \in 1 .. Len(tail)
      BY <2>2, <2>5
    <3>2. p[j] = tail[j]
      BY <2>4
    <3> QED BY <2>2, <3>1, <3>2
  <2>7. n + k <= b
    BY <1>1, <2>2, <2>5
  <2>8. n = 0 /\ sq.buf # << >> => p # << >>
    <3> SUFFICES ASSUME n = 0, sq.buf # << >> PROVE p # << >>
      OBVIOUS
    <3>1. b # 0
      BY <1>1, EmptySeq DEF b
    <3>2. k # 0
      BY <1>1, <2>2, <2>5, <3>1
    <3> QED BY <1>3, <2>4, <3>2
  <2> QED BY <2>4, <2>5, <2>6, <2>7, <2>8 DEF p, n, b
<1>6. CASE ~(n < 0 \/ length <= 0) /\ ~(n <= b)
  <2> DEFINE tail == BytesFrom(sq.buf, n)
  <2>1. tail = SubSeq(sq.buf, n + 1, b)
    BY <1>1, <1>6 DEF BytesFrom
  <2>2. tail = << >>
    <3>1. n + 1 > b /\ n + 1 \in Int
      BY <1>1, <1>6
    <3> QED BY <1>1, <2>1, <3>1, SubSeqEmpty DEF b
  <2>3. p = FirstBytes(<< >>, length) /\ length \in Nat
    BY <1>2, <1>6, <2>2
  <2>4. p \in Seq(Nat) /\ Len(p) = Least(length, 0)
    BY <1>3, <2>3, FirstBytesAre
  <2>5. Len(p) = 0
    BY <1>6, <2>3, <2>4 DEF Least
  <2>6. p = << >>
    BY <2>4, <2>5, EmptySeq
  <2> QED BY <1>1, <1>3, <1>6, <2>6 DEF p, n, b
<1> QED BY <1>4, <1>5, <1>6

-----------------------------------------------------------------------------
(* The receive queue and Reno: that their operations return a queue and a  *)
(* controller is all the sender needs to know of them.                     *)

RecvQueueType ==
    [nxt : SeqNum, buf : Seq(Nat),
     ooo : UNION {[D -> Seq(Nat)] : D \in SUBSET SeqNum}, held : Int]
RenoState == {"slow-start", "congestion-avoidance", "fast-recovery"}
RenoType ==
    [cwnd : Int, ssthresh : Int, dups : Int, recover : SeqNum, state : RenoState]

\* The fields of a receive queue.
LEMMA RecvFields ==
    ASSUME NEW rq \in RecvQueueType
    PROVE  /\ rq.nxt \in SeqNum /\ rq.nxt \in Int
           /\ rq.buf \in Seq(Nat) /\ Len(rq.buf) \in Nat /\ rq.held \in Int
           /\ DOMAIN rq.ooo \in SUBSET SeqNum
           /\ \A s \in DOMAIN rq.ooo : rq.ooo[s] \in Seq(Nat)
           /\ RecvWindow(rq) \in Nat
<1>1. rq.nxt \in SeqNum /\ rq.buf \in Seq(Nat) /\ rq.held \in Int
      /\ rq.ooo \in UNION {[D -> Seq(Nat)] : D \in SUBSET SeqNum}
  BY DEF RecvQueueType
<1>2. PICK D \in SUBSET SeqNum : rq.ooo \in [D -> Seq(Nat)]
  BY <1>1
<1>3. rq.nxt \in Int
  BY <1>1, Halves DEF SeqNum
<1>4. Len(rq.buf) \in Nat
  BY <1>1, LenProperties
<1> DEFINE b == Len(rq.buf)
           h == rq.held
<1>5. b \in Nat /\ h \in Int /\ Capacity \in Nat
  BY <1>1, <1>4, CapacityAssumption
<1>6. RecvWindow(rq) = Most(Capacity - (b + h), 0)
  BY DEF RecvWindow
<1> HIDE DEF b, h
<1>7. RecvWindow(rq) \in Nat
  BY <1>5, <1>6 DEF Most
<1> QED BY <1>1, <1>2, <1>3, <1>4, <1>7

\* What makes a receive queue.
LEMMA IsRecvQueue ==
    ASSUME NEW nxt \in SeqNum, NEW buf \in Seq(Nat), NEW ooo, NEW held \in Int,
           NEW D \in SUBSET SeqNum, ooo \in [D -> Seq(Nat)]
    PROVE  [nxt |-> nxt, buf |-> buf, ooo |-> ooo, held |-> held] \in RecvQueueType
BY DEF RecvQueueType

\* A new queue and an empty one.
LEMMA NewRecvType ==
    ASSUME NEW irs \in Int
    PROVE  NewReceiveQueue(irs) \in RecvQueueType
<1>1. seq_add(irs, 1) \in SeqNum /\ << >> \in Seq(Nat) /\ 0 \in Int /\ {} \in SUBSET SeqNum
  BY AddIsSeqNum
<1>2. << >> \in [{} -> Seq(Nat)]
  OBVIOUS
<1> QED BY <1>1, <1>2, IsRecvQueue DEF NewReceiveQueue

LEMMA ClearRecvType ==
    ASSUME NEW rq \in RecvQueueType
    PROVE  ClearReceive(rq) \in RecvQueueType
<1>1. rq.nxt \in SeqNum /\ << >> \in Seq(Nat) /\ 0 \in Int /\ {} \in SUBSET SeqNum
  BY RecvFields
<1>2. << >> \in [{} -> Seq(Nat)]
  OBVIOUS
<1> QED BY <1>1, <1>2, IsRecvQueue DEF ClearReceive

\* Parking, appending and taking.
LEMMA ParkType ==
    ASSUME NEW rq \in RecvQueueType, NEW seq \in SeqNum, NEW data \in Seq(Nat)
    PROVE  Park(rq, seq, data) \in RecvQueueType
<1> DEFINE D == DOMAIN rq.ooo \cup {seq}
           ooo == [s \in D |-> IF s = seq THEN data ELSE rq.ooo[s]]
           held == rq.held + Len(data)
           new == [rq EXCEPT !.ooo = ooo, !.held = held]
<1>1. held \in Int
  BY LenProperties, RecvFields
<1>2. D \in SUBSET SeqNum /\ ooo \in [D -> Seq(Nat)]
  BY RecvFields
<1>3. Park(rq, seq, data) = rq \/ Park(rq, seq, data) = new
  BY DEF Park
<1> HIDE DEF D, ooo, held
<1>4. new \in RecvQueueType
  BY <1>1, <1>2 DEF RecvQueueType
<1> HIDE DEF new
<1> QED BY <1>3, <1>4

LEMMA AppendType ==
    ASSUME NEW rq \in RecvQueueType, NEW data \in Seq(Nat)
    PROVE  Append_In_Order(rq, data) \in RecvQueueType
<1> DEFINE chunk == FirstBytes(data, RecvWindow(rq))
           buf == rq.buf \o chunk
           nxt == seq_add(rq.nxt, Len(chunk))
<1>1. chunk \in Seq(Nat)
  BY RecvFields, FirstBytesAre
<1>2. Append_In_Order(rq, data) = [rq EXCEPT !.buf = buf, !.nxt = nxt]
  BY DEF Append_In_Order
<1> HIDE DEF chunk
<1>3. Len(chunk) \in Nat /\ buf \in Seq(Nat)
  BY <1>1, LenProperties, RecvFields, ConcatProperties
<1>4. nxt \in SeqNum
  BY <1>3, RecvFields, AddIsSeqNum
<1> HIDE DEF buf, nxt
<1> QED BY <1>2, <1>3, <1>4 DEF RecvQueueType

LEMMA TakeType ==
    ASSUME NEW rq \in RecvQueueType, CanTake(rq)
    PROVE  TakeNext(rq) \in RecvQueueType
<1> DEFINE data == rq.ooo[rq.nxt]
           D == DOMAIN rq.ooo \ {rq.nxt}
           ooo == [s \in D |-> rq.ooo[s]]
<1>1. data \in Seq(Nat)
  BY RecvFields DEF CanTake
<1>2. D \in SUBSET SeqNum /\ ooo \in [D -> Seq(Nat)]
  BY RecvFields
<1>3. TakeNext(rq) = [nxt |-> seq_add(rq.nxt, Len(data)), buf |-> rq.buf \o data,
                      ooo |-> ooo, held |-> rq.held - Len(data)]
  BY DEF TakeNext
<1> HIDE DEF data, D, ooo
<1>4. Len(data) \in Nat /\ rq.buf \o data \in Seq(Nat)
  BY <1>1, LenProperties, RecvFields, ConcatProperties
<1>5. seq_add(rq.nxt, Len(data)) \in SeqNum /\ rq.held - Len(data) \in Int
  BY <1>4, RecvFields, AddIsSeqNum
<1> QED BY <1>2, <1>3, <1>4, <1>5, IsRecvQueue

\* The drain loop, however many turns it takes.
LEMMA DrainType ==
    ASSUME NEW rq \in RecvQueueType
    PROVE  Drain(rq) \in RecvQueueType
<1> DEFINE n == Cardinality(DOMAIN rq.ooo)
           turn == [q \in RecvQueueType |-> IF CanTake(q) THEN TakeNext(q) ELSE q]
           Runs(after) == after = [k \in 0 .. n |->
                             IF k = 0 THEN rq
                             ELSE LET before == after[k - 1]
                                  IN  IF CanTake(before) THEN TakeNext(before) ELSE before]
           run == CHOOSE after : Runs(after)
<1>1. n \in Nat
  <2>1. IsFiniteSet(SeqNum)
    BY Halves, FS_Interval DEF SeqNum
  <2> QED BY <2>1, RecvFields, FS_Subset, FS_CardinalityType
<1>2. turn \in [RecvQueueType -> RecvQueueType]
  BY TakeType
<1>3. Drain(rq) = run[n]
  BY DEF Drain
<1> HIDE DEF n
<1>4. \E after \in [0 .. n -> RecvQueueType] : Runs(after)
  <2> HIDE DEF turn
  <2> DEFINE after == Turns(RecvQueueType, turn, rq, n)
  <2>1. /\ after \in [0 .. n -> RecvQueueType]
        /\ after[0] = rq /\ \A k \in 1 .. n : after[k] = turn[after[k - 1]]
    <3>1. after \in [0 .. n -> RecvQueueType] /\ Follows(after, turn, rq, n)
      BY <1>1, <1>2, LoopExists
    <3> HIDE DEF after
    <3> QED BY <3>1 DEF Follows
  <2> HIDE DEF after
  <2>2. \A k \in 0 .. n : k # 0 => k \in 1 .. n /\ k - 1 \in 0 .. n
    BY <1>1
  <2>3. \A k \in 0 .. n : k # 0 => after[k] =
           IF CanTake(after[k - 1]) THEN TakeNext(after[k - 1]) ELSE after[k - 1]
    BY <2>1, <2>2 DEF turn
  <2> QED BY <2>1, <2>3
<1>5. Runs(run)
  <2> HIDE DEF Runs
  <2> QED BY <1>4, Zenon
<1> HIDE DEF run, turn
<1> DEFINE good == {k \in 0 .. n : run[k] \in RecvQueueType}
<1>6. 0 \in good
  BY <1>1, <1>5
<1>7. \A k \in 1 .. n : k - 1 \in good => k \in good
  <2> SUFFICES ASSUME NEW k \in 1 .. n, k - 1 \in good PROVE k \in good
    OBVIOUS
  <2>1. run[k] = IF CanTake(run[k - 1]) THEN TakeNext(run[k - 1]) ELSE run[k - 1]
    BY <1>1, <1>5
  <2> QED BY <2>1, TakeType
<1> HIDE DEF Runs
<1>8. n \in good
  <2>1. good \in SUBSET (0 .. n)
    OBVIOUS
  <2> HIDE DEF good
  <2> QED BY <1>1, <1>6, <1>7, <2>1, LoopKeeps
<1> QED BY <1>3, <1>8

\* What a segment brings, as insert() takes it.
LEMMA InsertType ==
    ASSUME NEW rq \in RecvQueueType, NEW seq \in SeqNum, NEW data \in Seq(Nat)
    PROVE  Insert(rq, seq, data) \in RecvQueueType
<1> DEFINE d == seq_diff(rq.nxt, seq)
           part == InOrderPart(rq, seq, data)
           trimmed == FirstBytes(data, RecvWindow(rq))
<1>1. trimmed \in Seq(Nat)
  BY RecvFields, FirstBytesAre
<1>2. part \in Seq(Nat)
  <2>1. << >> \in Seq(Nat)
    OBVIOUS
  <2>2. CASE part = BytesFrom(data, d) /\ ~(d >= Len(data))
    <3> DEFINE k == IF d >= 0 THEN d ELSE Most(Len(data) + d, 0)
    <3>1. d \in Int /\ Len(data) \in Nat
      BY RecvFields, DiffIs, Halves, LenProperties
    <3> HIDE DEF d
    <3>2. k \in Nat /\ k <= Len(data)
      BY <2>2, <3>1 DEF Most
    <3>3. part = SubSeq(data, k + 1, Len(data))
      BY <2>2 DEF BytesFrom
    <3> HIDE DEF k
    <3>4. part = BytesFrom(data, k)
      BY <3>2, <3>3 DEF BytesFrom
    <3> HIDE DEF part
    <3> QED BY <3>2, <3>4, BytesFromAre
  <2>3. part \in {data, << >>} \/ (part = BytesFrom(data, d) /\ ~(d >= Len(data)))
    BY DEF InOrderPart
  <2> QED BY <2>1, <2>2, <2>3
<1> HIDE DEF part, trimmed
<1>3. Insert(rq, seq, data) \in {Park(rq, seq, trimmed), Drain(Append_In_Order(rq, part)), rq}
  BY DEF Insert, ParkTrimmed, trimmed, part
<1> QED BY <1>1, <1>2, <1>3, ParkType, AppendType, DrainType

\* Reading, and stepping over the peer's FIN.
LEMMA ReadType ==
    ASSUME NEW rq \in RecvQueueType
    PROVE  /\ AfterRead(rq, Len(rq.buf)) \in RecvQueueType
           /\ [rq EXCEPT !.nxt = seq_add(rq.nxt, 1)] \in RecvQueueType
<1> DEFINE n == Len(rq.buf)
           m == Len(ReadChunk(rq, n))
           rest == BytesFrom(rq.buf, m)
<1>1. n \in Nat /\ rq.buf \in Seq(Nat)
  BY RecvFields
<1>2. m = n
  BY <1>1, FirstBytesAre DEF ReadChunk, Least
<1>3. AfterRead(rq, n) = [rq EXCEPT !.buf = rest]
  BY DEF AfterRead
<1> HIDE DEF m
<1>4. rest \in Seq(Nat)
  BY <1>1, <1>2, BytesFromAre
<1>5. seq_add(rq.nxt, 1) \in SeqNum
  BY RecvFields, AddIsSeqNum
<1> HIDE DEF rest
<1> QED BY <1>3, <1>4, <1>5 DEF RecvQueueType

\* Reno's operations return a controller.
LEMMA RenoFields ==
    ASSUME NEW reno \in RenoType
    PROVE  /\ reno.cwnd \in Int /\ reno.ssthresh \in Int /\ reno.dups \in Int
           /\ reno.recover \in SeqNum /\ reno.state \in RenoState
BY DEF RenoType

LEMMA RenoWith ==
    ASSUME NEW reno \in RenoType, NEW cwnd \in Int, NEW ssthresh \in Int, NEW dups \in Int,
           NEW state \in RenoState
    PROVE  /\ [reno EXCEPT !.cwnd = cwnd] \in RenoType
           /\ [reno EXCEPT !.dups = dups] \in RenoType
           /\ [reno EXCEPT !.cwnd = cwnd, !.dups = dups] \in RenoType
           /\ [reno EXCEPT !.cwnd = cwnd, !.state = state, !.dups = dups] \in RenoType
           /\ [reno EXCEPT !.cwnd = cwnd, !.dups = dups, !.state = state] \in RenoType
           /\ [reno EXCEPT !.ssthresh = ssthresh, !.cwnd = cwnd, !.state = state,
                           !.dups = dups] \in RenoType
BY DEF RenoType

LEMMA RenoStates ==
    /\ "slow-start" \in RenoState
    /\ "congestion-avoidance" \in RenoState
    /\ "fast-recovery" \in RenoState
BY DEF RenoState

LEMMA NewRenoType == NewReno \in RenoType
<1>1. 0 \in SeqNum
  BY Halves DEF SeqNum
<1>2. MSS \in Nat /\ INITIAL_WINDOW_CAP \in Nat /\ MAX_CWND \in Nat
  BY RenoAssumption
<1>3. Least(10 * MSS, Most(2 * MSS, INITIAL_WINDOW_CAP)) \in Int
  BY <1>2 DEF Least, Most
<1> QED BY <1>1, <1>2, <1>3, RenoStates DEF NewReno, RenoType

LEMMA OnAckType ==
    ASSUME NEW reno \in RenoType, NEW acked \in Int, NEW ack \in SeqNum
    PROVE  on_ack(reno, acked, ack) \in RenoType
<1> DEFINE zero == 0
           avoidance == "congestion-avoidance"
<1>0. zero \in Int /\ MSS \in Nat /\ MAX_CWND \in Nat
  BY RenoAssumption
<1>1. /\ avoidance \in RenoState /\ reno.state \in RenoState
      /\ reno.ssthresh \in Int /\ reno.dups \in Int
  BY RenoStates, RenoFields
<1>2. LeaveRecovery(reno) \in RenoType
  <2> DEFINE cwnd == Most(reno.ssthresh, MSS)
  <2>1. cwnd \in Int
    BY <1>0, RenoFields DEF Most
  <2>2. LeaveRecovery(reno)
          = [reno EXCEPT !.cwnd = cwnd, !.state = avoidance, !.dups = zero]
    BY DEF LeaveRecovery
  <2> HIDE DEF cwnd, zero, avoidance
  <2>3. [reno EXCEPT !.cwnd = cwnd, !.state = avoidance, !.dups = zero] \in RenoType
    BY <1>0, <1>1, <2>1, RenoWith
  <2> QED BY <2>2, <2>3
<1>3. Deflate(reno, acked) \in RenoType
  <2> DEFINE cwnd == Most(reno.ssthresh, reno.cwnd - acked) + acked
  <2>1. cwnd \in Int
    BY RenoFields DEF Most
  <2>2. Deflate(reno, acked) = [reno EXCEPT !.cwnd = cwnd]
    BY DEF Deflate
  <2> HIDE DEF cwnd
  <2> QED BY <2>1, <2>2, RenoFields, RenoWith
<1>4. GrowExponentially(reno, acked) \in RenoType
  <2> DEFINE cwnd == Least(reno.cwnd + acked, MAX_CWND)
             state == IF cwnd >= reno.ssthresh THEN avoidance ELSE reno.state
  <2>1. cwnd \in Int
    BY <1>0, RenoFields DEF Least
  <2>2. GrowExponentially(reno, acked)
          = [reno EXCEPT !.cwnd = cwnd, !.dups = zero, !.state = state]
    BY DEF GrowExponentially
  <2> HIDE DEF cwnd, zero, avoidance
  <2>3. state \in RenoState
    BY <1>1, RenoFields
  <2> HIDE DEF state
  <2>4. [reno EXCEPT !.cwnd = cwnd, !.dups = zero, !.state = state] \in RenoType
    BY <1>0, <1>1, <2>1, <2>3, RenoWith
  <2> QED BY <2>2, <2>4
<1>5. GrowLinearly(reno, acked) \in RenoType
  <2> DEFINE x == MSS * acked
             y == Most(reno.cwnd, 1)
             z == x \div y
             cwnd == Least(reno.cwnd + Most(z, 1), MAX_CWND)
  <2>1. x \in Int
    BY <1>0
  <2>2. y \in Nat \ {0}
    BY RenoFields DEF Most
  <2>3. GrowLinearly(reno, acked) = [reno EXCEPT !.cwnd = cwnd, !.dups = zero]
    BY DEF GrowLinearly
  <2> HIDE DEF x, y
  <2>4. z \in Int
    BY <2>1, <2>2
  <2> HIDE DEF z
  <2>5. cwnd \in Int
    BY <1>0, <2>4, RenoFields DEF Least, Most
  <2> HIDE DEF cwnd, zero
  <2>6. [reno EXCEPT !.cwnd = cwnd, !.dups = zero] \in RenoType
    BY <1>0, <1>1, <2>5, RenoWith
  <2> QED BY <2>3, <2>6
<1>6. on_ack(reno, acked, ack) \in {LeaveRecovery(reno), Deflate(reno, acked),
                                    GrowExponentially(reno, acked), GrowLinearly(reno, acked)}
  BY RenoFields DEF on_ack, RenoState
<1> QED BY <1>2, <1>3, <1>4, <1>5, <1>6

LEMMA OnDuplicateType ==
    ASSUME NEW reno \in RenoType, NEW ack \in SeqNum
    PROVE  on_duplicate_ack(reno, ack) \in RenoType /\ on_timeout(reno) \in RenoType
<1> DEFINE half == Halved(reno)
           more == Least(reno.cwnd + MSS, MAX_CWND)
           dups == reno.dups + 1
           zero == 0
           start == "slow-start"
           fast == [cwnd |-> half + 3 * MSS, ssthresh |-> half,
                    state |-> "fast-recovery", dups |-> 3, recover |-> ack]
<1>1. MSS \in Nat /\ MSS \in Int /\ MAX_CWND \in Nat /\ zero \in Int
  BY RenoAssumption
<1>2. half \in Int
  BY <1>1, RenoFields DEF Halved, Most
<1>3. more \in Int /\ dups \in Int
  BY <1>1, RenoFields DEF Least
<1>4. start \in RenoState
  BY RenoStates
<1>5. on_timeout(reno) = [reno EXCEPT !.ssthresh = half, !.cwnd = MSS, !.state = start,
                                      !.dups = zero]
  BY DEF on_timeout
<1>6. fast \in RenoType
  <2> HIDE DEF half
  <2>1. half + 3 * MSS \in Int
    BY <1>1, <1>2
  <2> QED BY <1>2, <2>1, RenoStates DEF RenoType
<1>7. \/ on_duplicate_ack(reno, ack) = [reno EXCEPT !.cwnd = more]
      \/ on_duplicate_ack(reno, ack) = fast
      \/ on_duplicate_ack(reno, ack) = [reno EXCEPT !.dups = dups]
  BY DEF on_duplicate_ack
<1> HIDE DEF half, more, fast, dups, zero, start
<1>8. /\ [reno EXCEPT !.ssthresh = half, !.cwnd = MSS, !.state = start, !.dups = zero] \in RenoType
      /\ [reno EXCEPT !.cwnd = more] \in RenoType
      /\ [reno EXCEPT !.dups = dups] \in RenoType
  BY <1>1, <1>2, <1>3, <1>4, RenoFields, RenoWith
<1> QED BY <1>5, <1>6, <1>7, <1>8

\* The effective window is between one segment and the peer's window.
LEMMA WindowIs ==
    ASSUME NEW reno \in RenoType, NEW window \in Nat
    PROVE  /\ effective_window(reno, window) \in Nat \ {0}
           /\ effective_window(reno, window) <= Most(window, MSS)
<1>1. MSS \in Nat \ {0}
  BY RenoAssumption
<1> QED BY <1>1, RenoFields DEF effective_window, Most, Least

-----------------------------------------------------------------------------
(* The connection: its type, and what one step of sending does to it.      *)

SegmentType ==
    [seq : SeqNum, ack : SeqNum, flags : SUBSET Flag, win : 0 .. MAX_WINDOW_FIELD,
     data : Seq(Nat), opt : BOOLEAN]
ConnState == AllStates \ {"LISTEN"}
PeerWindow == 0 .. MAX_WINDOW_FIELD * 2^WScale
PeerMSS == 1 .. LongestPayload
FinSeq == SeqNum \cup {NoFin}
ConnectionType ==
    [state : ConnState, iss : SeqNum, sq : SendQueueType, rq : RecvQueueType,
     retx : Seq(EntryType), reno : RenoType, peer_window : PeerWindow,
     snd_wscale : {0, WScale}, peer_mss : PeerMSS,
     rtx : BOOLEAN, dack : BOOLEAN, persist : BOOLEAN, tw : BOOLEAN,
     fin_seq : FinSeq, out : Seq(SegmentType)]

\* The sender of d is the sender of c.
SameSender(d, c) ==
    /\ d.state = c.state /\ d.iss = c.iss /\ d.sq = c.sq /\ d.retx = c.retx
    /\ d.rtx <=> c.rtx
    /\ d.persist <=> c.persist

\* The fields of a connection.
LEMMA ConnFields ==
    ASSUME NEW c \in ConnectionType
    PROVE  /\ c.state \in ConnState /\ c.iss \in SeqNum /\ c.sq \in SendQueueType
           /\ c.rq \in RecvQueueType /\ c.retx \in Seq(EntryType) /\ c.reno \in RenoType
           /\ c.peer_window \in PeerWindow /\ c.snd_wscale \in {0, WScale}
           /\ c.peer_mss \in PeerMSS /\ c.fin_seq \in FinSeq /\ c.out \in Seq(SegmentType)
           /\ c.rtx \in BOOLEAN /\ c.dack \in BOOLEAN
           /\ c.persist \in BOOLEAN /\ c.tw \in BOOLEAN
BY DEF ConnectionType

\* The fields of a send queue.
LEMMA SendFields ==
    ASSUME NEW sq \in SendQueueType
    PROVE  /\ sq.una \in SeqNum /\ sq.nxt \in SeqNum /\ sq.buf \in Seq(Nat)
           /\ sq.una \in Int /\ sq.nxt \in Int /\ Len(sq.buf) \in Nat
<1>1. sq.una \in SeqNum /\ sq.nxt \in SeqNum /\ sq.buf \in Seq(Nat)
  BY DEF SendQueueType
<1> QED BY <1>1, Halves, LenProperties DEF SeqNum

\* The window put into a segment fits its field.
LEMMA AdvertisedType ==
    ASSUME NEW c \in ConnectionType
    PROVE  _advertised_window(c) \in 0 .. MAX_WINDOW_FIELD
<1> DEFINE w == RecvWindow(c.rq)
           f == 2^WScale
           s == w \div f
<1>1. w \in Nat
  BY ConnFields, RecvFields
<1>2. f \in Nat \ {0} /\ MAX_WINDOW_FIELD \in Nat
  BY ConnectionAssumption
<1> HIDE DEF w, f
<1>3. s \in Nat
  BY <1>1, <1>2
<1>4. _advertised_window(c) = Least(s, MAX_WINDOW_FIELD)
  BY DEF _advertised_window, s, w, f
<1> HIDE DEF s
<1> QED BY <1>2, <1>3, <1>4 DEF Least

\* Sending a segment without keeping it.
LEMMA EmitIs ==
    ASSUME NEW c \in ConnectionType, NEW seq \in SeqNum, NEW flags \in SUBSET Flag,
           NEW data \in Seq(Nat), NEW opt \in BOOLEAN
    PROVE  /\ Emit(c, seq, flags, data, opt) \in ConnectionType
           /\ SameSender(Emit(c, seq, flags, data, opt), c)
           /\ Emit(c, seq, flags, data, opt).rq = c.rq
<1> DEFINE seg == [seq |-> seq, ack |-> c.rq.nxt, flags |-> flags,
                   win |-> _advertised_window(c), data |-> data, opt |-> opt]
           out == Append(c.out, seg)
<1>1. seg \in SegmentType
  <2>1. c.rq.nxt \in SeqNum
    BY ConnFields, RecvFields
  <2> QED BY <2>1, AdvertisedType DEF SegmentType
<1>2. Emit(c, seq, flags, data, opt) = [c EXCEPT !.out = out]
  BY DEF Emit
<1> HIDE DEF seg
<1>3. out \in Seq(SegmentType)
  BY <1>1, ConnFields, AppendProperties
<1> HIDE DEF out
<1> QED BY <1>2, <1>3 DEF ConnectionType, SameSender

\* An RST.
LEMMA RstIs == RstSegment \in SegmentType
<1>1. 0 \in SeqNum /\ 0 \in 0 .. MAX_WINDOW_FIELD
  BY Halves, ConnectionAssumption DEF SeqNum
<1>2. {"RST"} \in SUBSET Flag /\ << >> \in Seq(Nat)
  BY DEF Flag
<1> QED BY <1>1, <1>2 DEF RstSegment, SegmentType

LEMMA EmitRstIs ==
    ASSUME NEW c \in ConnectionType
    PROVE  EmitRst(c) \in ConnectionType /\ SameSender(EmitRst(c), c)
<1> DEFINE out == Append(c.out, RstSegment)
<1>1. RstSegment \in SegmentType
  BY RstIs
<1>2. EmitRst(c) = [c EXCEPT !.out = out]
  BY DEF EmitRst
<1>3. out \in Seq(SegmentType)
  BY <1>1, ConnFields, AppendProperties
<1> HIDE DEF out
<1> QED BY <1>2, <1>3 DEF ConnectionType, SameSender

\* Sending a segment and keeping it.
LEMMA EmitTrackedIs ==
    ASSUME NEW c \in ConnectionType, NEW seq \in SeqNum, NEW flags \in SUBSET Flag,
           NEW data \in Seq(Nat), NEW opt \in BOOLEAN,
           NEW d, d = EmitTracked(c, seq, flags, data, opt)
    PROVE  /\ d \in ConnectionType
           /\ d.state = c.state /\ d.iss = c.iss /\ d.sq = c.sq
           /\ d.persist <=> c.persist
           /\ d.retx = RetxAdd(c.retx, seq, flags, data)
           /\ d.rtx <=> d.retx # << >>
<1> DEFINE e == Emit(c, seq, flags, data, opt)
           retx == RetxAdd(e.retx, seq, flags, data)
           f == [e EXCEPT !.retx = retx]
<1>1. e \in ConnectionType /\ SameSender(e, c)
  BY EmitIs
<1>2. retx = RetxAdd(c.retx, seq, flags, data) /\ retx \in Seq(EntryType)
  BY <1>1, ConnFields, RetxAddType DEF SameSender
<1>3. d = [f EXCEPT !.rtx = f.retx # << >>]
  BY DEF EmitTracked, _arm_retransmit_timer
<1> HIDE DEF e, retx
<1>4. /\ f \in ConnectionType /\ f.retx = retx /\ f.state = e.state /\ f.iss = e.iss
      /\ f.sq = e.sq
      /\ f.persist <=> e.persist
  BY <1>1, <1>2 DEF ConnectionType
<1> HIDE DEF f
<1>5. /\ d \in ConnectionType /\ d.retx = f.retx /\ d.state = f.state /\ d.iss = f.iss
      /\ d.sq = f.sq
      /\ d.persist <=> f.persist
      /\ d.rtx <=> f.retx # << >>
  BY <1>3, <1>4 DEF ConnectionType
<1> QED BY <1>1, <1>2, <1>4, <1>5 DEF SameSender

\* New bytes, and the FIN.
LEMMA SendNewIs ==
    ASSUME NEW c \in ConnectionType, NEW data \in Seq(Nat), NEW d, d = SendNew(c, data)
    PROVE  /\ d \in ConnectionType
           /\ d.state = c.state /\ d.iss = c.iss
           /\ d.persist <=> c.persist
           /\ d.sq = [c.sq EXCEPT !.nxt = seq_add(c.sq.nxt, Len(data))]
           /\ d.retx = RetxAdd(c.retx, c.sq.nxt, {"ACK"}, data)
           /\ d.rtx <=> d.retx # << >>
<1> DEFINE e == EmitTracked(c, c.sq.nxt, {"ACK"}, data, FALSE)
           nxt == seq_add(c.sq.nxt, Len(data))
           sq == [e.sq EXCEPT !.nxt = nxt]
<1>1. c.sq.nxt \in SeqNum /\ {"ACK"} \in SUBSET Flag /\ Len(data) \in Nat /\ FALSE \in BOOLEAN
  BY ConnFields, SendFields, LenProperties DEF Flag
<1>2. /\ e \in ConnectionType
      /\ e.state = c.state /\ e.iss = c.iss /\ e.sq = c.sq
      /\ e.persist <=> c.persist
      /\ e.retx = RetxAdd(c.retx, c.sq.nxt, {"ACK"}, data)
      /\ e.rtx <=> e.retx # << >>
  BY <1>1, EmitTrackedIs
<1>3. d = [e EXCEPT !.sq = sq]
  BY DEF SendNew
<1>4. nxt \in SeqNum
  BY <1>1, ConnFields, SendFields, AddIsSeqNum
<1> HIDE DEF e, nxt
<1>5. sq \in SendQueueType /\ sq = [c.sq EXCEPT !.nxt = nxt]
  <2>1. e.sq \in SendQueueType
    BY <1>2, ConnFields
  <2> QED BY <1>2, <1>4, <2>1 DEF SendQueueType
<1> HIDE DEF sq
<1>6. /\ d \in ConnectionType /\ d.sq = sq /\ d.state = e.state /\ d.iss = e.iss
      /\ d.retx = e.retx
      /\ d.persist <=> e.persist
      /\ d.rtx <=> e.rtx
  BY <1>2, <1>3, <1>5 DEF ConnectionType
<1> QED BY <1>2, <1>5, <1>6 DEF nxt

LEMMA SendFinIs ==
    ASSUME NEW c \in ConnectionType, NEW d, d = _send_fin(c)
    PROVE  /\ d \in ConnectionType
           /\ d.state = c.state /\ d.iss = c.iss
           /\ d.persist <=> c.persist
           /\ d.sq = [c.sq EXCEPT !.nxt = seq_add(c.sq.nxt, 1)]
           /\ d.retx = RetxAdd(c.retx, c.sq.nxt, {"ACK", "FIN"}, << >>)
           /\ d.rtx <=> d.retx # << >>
<1> DEFINE e == EmitTracked(c, c.sq.nxt, {"ACK", "FIN"}, << >>, FALSE)
           nxt == seq_add(c.sq.nxt, 1)
           sq == [e.sq EXCEPT !.nxt = nxt]
           fin == c.sq.nxt
<1>1. /\ c.sq.nxt \in SeqNum /\ {"ACK", "FIN"} \in SUBSET Flag /\ << >> \in Seq(Nat)
      /\ FALSE \in BOOLEAN
  BY ConnFields, SendFields DEF Flag
<1>2. /\ e \in ConnectionType
      /\ e.state = c.state /\ e.iss = c.iss /\ e.sq = c.sq
      /\ e.persist <=> c.persist
      /\ e.retx = RetxAdd(c.retx, c.sq.nxt, {"ACK", "FIN"}, << >>)
      /\ e.rtx <=> e.retx # << >>
  BY <1>1, EmitTrackedIs
<1>3. d = [e EXCEPT !.fin_seq = fin, !.sq.nxt = nxt]
  BY DEF _send_fin
<1>4. nxt \in SeqNum /\ fin \in FinSeq
  BY <1>1, ConnFields, SendFields, AddIsSeqNum DEF FinSeq
<1> HIDE DEF e, nxt, fin
<1>5. sq \in SendQueueType /\ sq = [c.sq EXCEPT !.nxt = nxt]
  <2>1. e.sq \in SendQueueType
    BY <1>2, ConnFields
  <2> QED BY <1>2, <1>4, <2>1 DEF SendQueueType
<1>6. d = [e EXCEPT !.fin_seq = fin, !.sq = sq]
  BY <1>2, <1>3 DEF ConnectionType
<1> HIDE DEF sq
<1>7. /\ d \in ConnectionType /\ d.sq = sq /\ d.state = e.state /\ d.iss = e.iss
      /\ d.retx = e.retx
      /\ d.persist <=> e.persist
      /\ d.rtx <=> e.rtx
  BY <1>2, <1>4, <1>5, <1>6 DEF ConnectionType
<1> QED BY <1>2, <1>5, <1>7 DEF nxt

\* An acknowledgement by itself.
LEMMA SendAckIs ==
    ASSUME NEW c \in ConnectionType
    PROVE  /\ _send_ack(c) \in ConnectionType /\ SameSender(_send_ack(c), c)
           /\ _send_ack(c).rq = c.rq
<1> DEFINE d == [c EXCEPT !.dack = FALSE]
           e == Emit(d, c.sq.nxt, {"ACK"}, << >>, FALSE)
<1>1. d \in ConnectionType /\ SameSender(d, c) /\ d.rq = c.rq
  BY DEF ConnectionType, SameSender
<1>2. _send_ack(c) = IF c.state \in {"CLOSED", "LISTEN"} THEN d ELSE e
  BY DEF _send_ack
<1> HIDE DEF d
<1>3. e \in ConnectionType /\ SameSender(e, d) /\ e.rq = d.rq
  <2>1. c.sq.nxt \in SeqNum /\ {"ACK"} \in SUBSET Flag /\ << >> \in Seq(Nat) /\ FALSE \in BOOLEAN
    BY ConnFields, SendFields DEF Flag
  <2> QED BY <1>1, <2>1, EmitIs
<1> HIDE DEF e
<1> QED BY <1>1, <1>2, <1>3 DEF SameSender

-----------------------------------------------------------------------------
(* Flushing                                                                *)

\* The send side of a connection: the queues fit together and the
\* retransmission timer runs just when something is outstanding.
Sender(c, most) ==
    /\ SendOK(c.sq, c.retx, most)
    /\ c.rtx <=> c.retx # << >>

\* Unsent or unacknowledged bytes have a timer behind them.
Fed(c) == c.sq.buf # << >> => c.retx # << >> \/ c.persist

Mosts == {MostInFlight, MostInFlight + 1}

\* What is in flight, and that nothing is when nothing is outstanding.
LEMMA InFlightIs ==
    ASSUME NEW sq \in SendQueueType, NEW retx, NEW most \in Int, SendOK(sq, retx, most)
    PROVE  /\ Ahead(sq) \in Nat /\ Ahead(sq) <= most
           /\ InFlight(sq) = Ahead(sq)
           /\ Len(sq.buf) <= SendCapacity
           /\ retx = << >> => Ahead(sq) = 0
<1>1. Ahead(sq) \in Nat /\ Ahead(sq) <= most /\ Len(sq.buf) <= SendCapacity
  BY DEF SendOK
<1>2. InFlight(sq) = Ahead(sq)
  <2> DEFINE n == Ahead(sq)
  <2>1. InFlight(sq) = Most(n, 0) /\ n \in Nat
    BY <1>1 DEF InFlight, Ahead
  <2> HIDE DEF n
  <2>2. InFlight(sq) = n
    BY <2>1 DEF Most
  <2> QED BY <2>2 DEF n
<1>3. retx = << >> => Ahead(sq) = 0
  <2> SUFFICES ASSUME retx = << >>, Ahead(sq) # 0 PROVE FALSE
    OBVIOUS
  <2>1. 0 \in 0 .. Ahead(sq) - 1
    BY <1>1
  <2>2. \E i \in 1 .. Len(retx) : Place(retx[i], sq) <= 0
    BY <2>1 DEF SendOK
  <2>3. Len(retx) = 0
    BY EmptySeq
  <2> QED BY <2>2, <2>3
<1> QED BY <1>1, <1>2, <1>3

\* What the next turn of the loop would send.
LEMMA NextPayloadIs ==
    ASSUME NEW c \in ConnectionType
    PROVE  /\ NextPayload(c) \in Seq(Nat) /\ Len(NextPayload(c)) \in Nat
           /\ \A most \in Int : SendOK(c.sq, c.retx, most) =>
                 /\ NextPayload(c) # << >> =>
                      /\ Len(NextPayload(c)) <= LongestPayload
                      /\ Ahead(c.sq) + Len(NextPayload(c)) <= Len(c.sq.buf)
                      /\ Ahead(c.sq) + Len(NextPayload(c)) <= MostInFlight
                      /\ \A j \in 1 .. Len(NextPayload(c)) :
                            NextPayload(c)[j] = c.sq.buf[Ahead(c.sq) + j]
                 /\ c.retx = << >> /\ c.sq.buf # << >> => NextPayload(c) # << >>
<1> DEFINE w == effective_window(c.reno, c.peer_window)
           widest == MAX_WINDOW_FIELD * 2^WScale
           f == InFlight(c.sq)
           n == Ahead(c.sq)
           m == c.peer_mss
           length == Least(w - f, m)
           p == NextPayload(c)
           b == Len(c.sq.buf)
<1>1. c.sq \in SendQueueType /\ b \in Nat
  BY ConnFields, SendFields
<1>2. widest \in Nat /\ c.peer_window \in Nat /\ c.peer_window <= widest
      /\ MSS \in Nat
  <2>1. widest \in Nat /\ MSS \in Nat
    BY Sizes
  <2>2. c.peer_window \in 0 .. widest
    BY ConnFields DEF PeerWindow
  <2> HIDE DEF widest
  <2> QED BY <2>1, <2>2
<1>3. w \in Nat \ {0} /\ w <= Most(c.peer_window, MSS)
  BY <1>2, ConnFields, WindowIs
<1>4. m \in Nat \ {0} /\ m <= LongestPayload
  <2>1. m \in 1 .. LongestPayload
    BY ConnFields DEF PeerMSS
  <2> QED BY <2>1, Limits
<1>5. p = Peek(c.sq, c.sq.nxt, length)
  BY DEF NextPayload
<1>6. f \in Int
  <2> DEFINE x == seq_diff(c.sq.nxt, c.sq.una)
  <2>1. x \in Int /\ f = Most(x, 0)
    BY <1>1, SendFields, DiffIs, Halves DEF InFlight
  <2> HIDE DEF x
  <2> QED BY <2>1 DEF Most
<1> HIDE DEF w, f, m, p
<1>7. length \in Int /\ length <= w - f /\ length <= m
  BY <1>3, <1>4, <1>6 DEF Least
<1>8. MostInFlight = Least(SendCapacity, Most(widest, MSS))
  BY DEF MostInFlight
<1> HIDE DEF widest
<1>9. p \in Seq(Nat) /\ Len(p) \in Nat
  <2> HIDE DEF length
  <2> QED BY <1>1, <1>5, <1>7, PeekIs
<1>10. ASSUME NEW most \in Int, SendOK(c.sq, c.retx, most), p # << >>
       PROVE  /\ Len(p) <= LongestPayload /\ n + Len(p) <= b /\ n + Len(p) <= MostInFlight
              /\ \A j \in 1 .. Len(p) : p[j] = c.sq.buf[n + j]
  <2>1. /\ Len(p) <= length /\ n + Len(p) <= b
        /\ \A j \in 1 .. Len(p) : p[j] = c.sq.buf[n + j]
    <3> HIDE DEF length
    <3> QED BY <1>1, <1>5, <1>7, <1>10, PeekIs
  <2>2. n \in Nat /\ f = n /\ b <= SendCapacity
    BY <1>1, <1>10, InFlightIs DEF f
  <2> DEFINE l == Len(p)
  <2>3. l \in Nat /\ l <= length /\ n + l <= b
    BY <1>9, <2>1
  <2> HIDE DEF l, n, b, length
  <2>4. l <= LongestPayload
    BY <1>4, <1>7, <2>3, Limits
  <2>5. n + l <= w
    BY <1>3, <1>6, <1>7, <2>2, <2>3
  <2>6. w <= Most(widest, MSS)
    BY <1>2, <1>3 DEF Most
  <2>7. n + l <= SendCapacity
    BY <1>1, <2>2, <2>3, Limits
  <2>8. n + l <= MostInFlight
    BY <1>2, <1>3, <1>8, <2>2, <2>3, <2>5, <2>6, <2>7, Limits DEF Least, Most
  <2> QED BY <2>1, <2>4, <2>8 DEF l, n, b
<1>11. ASSUME NEW most \in Int, SendOK(c.sq, c.retx, most), c.retx = << >>, c.sq.buf # << >>
       PROVE  p # << >>
  <2>1. n = 0 /\ f = 0
    BY <1>1, <1>11, InFlightIs DEF f
  <2>2. length > 0
    BY <1>3, <1>4, <2>1 DEF Least
  <2> HIDE DEF length
  <2> QED BY <1>1, <1>5, <1>7, <1>11, <2>1, <2>2, PeekIs
<1> QED BY <1>9, <1>10, <1>11 DEF p

\* Sending the next bytes.
LEMMA SendNewKeeps ==
    ASSUME NEW c \in ConnectionType, NEW most \in Mosts, Sender(c, most),
           NEW data \in Seq(Nat), data # << >>, Len(data) <= LongestPayload,
           Ahead(c.sq) + Len(data) <= Len(c.sq.buf),
           Ahead(c.sq) + Len(data) <= MostInFlight,
           \A j \in 1 .. Len(data) : data[j] = c.sq.buf[Ahead(c.sq) + j]
    PROVE  Sender(SendNew(c, data), most) /\ SendNew(c, data).retx # << >>
<1> DEFINE d == SendNew(c, data)
           l == Len(data)
           flags == {"ACK"}
<1>1. /\ d.sq = [c.sq EXCEPT !.nxt = seq_add(c.sq.nxt, l)]
      /\ d.retx = RetxAdd(c.retx, c.sq.nxt, flags, data)
      /\ d.rtx <=> d.retx # << >>
  BY SendNewIs
<1>2. /\ c.sq \in SendQueueType /\ c.retx \in Seq(EntryType) /\ flags \in SUBSET Flag
      /\ l \in Nat
  BY ConnFields, LenProperties DEF Flag
<1>3. most \in Int /\ MostInFlight \in Int /\ MostInFlight <= most /\ most <= MostInFlight + 1
  BY Limits DEF Mosts
<1>4. Ahead(c.sq) \in Nat
  BY <1>2, <1>3, InFlightIs DEF Sender
<1>5. l = seq_len(Entry(c.sq.nxt, flags, data))
  <2>1. "SYN" \notin flags /\ "FIN" \notin flags
    OBVIOUS
  <2>2. Entry(c.sq.nxt, flags, data).flags = flags /\ Entry(c.sq.nxt, flags, data).data = data
    BY DEF Entry
  <2> HIDE DEF flags
  <2>3. seq_len(Entry(c.sq.nxt, flags, data)) = l + 0 + 0
    BY <2>1, <2>2 DEF seq_len
  <2> QED BY <1>2, <2>3
<1>6. Ahead(c.sq) + l <= most
  BY <1>2, <1>3, <1>4
<1> HIDE DEF d, flags
<1>7. /\ RetxAdd(c.retx, c.sq.nxt, flags, data) # << >>
      /\ SendOK([c.sq EXCEPT !.nxt = seq_add(c.sq.nxt, l)],
                RetxAdd(c.retx, c.sq.nxt, flags, data), most)
  <2> HIDE DEF l
  <2>1. SendOK(c.sq, c.retx, most)
    BY DEF Sender
  <2> QED BY <1>2, <1>3, <1>5, <1>6, <2>1, SendKeeps DEF l
<1> QED BY <1>1, <1>7 DEF Sender, d

\* One turn of _flush's loop.
FlushTurn(c) == IF NextPayload(c) = << >> THEN c ELSE SendNew(c, NextPayload(c))

LEMMA FlushTurnIs ==
    ASSUME NEW c \in ConnectionType
    PROVE  /\ FlushTurn(c) \in ConnectionType
           /\ FlushTurn(c).state = c.state /\ FlushTurn(c).iss = c.iss
           /\ FlushTurn(c).persist <=> c.persist
           /\ FlushTurn(c).sq.buf = c.sq.buf
           /\ \A most \in Mosts : Sender(c, most) =>
                 /\ Sender(FlushTurn(c), most)
                 /\ c.sq.buf # << >> => FlushTurn(c).retx # << >>
<1> DEFINE p == NextPayload(c)
           d == SendNew(c, p)
<1>1. p \in Seq(Nat)
  BY NextPayloadIs
<1> HIDE DEF p
<1>2. /\ d \in ConnectionType /\ d.state = c.state /\ d.iss = c.iss
      /\ d.persist <=> c.persist
      /\ d.sq = [c.sq EXCEPT !.nxt = seq_add(c.sq.nxt, Len(p))]
  BY <1>1, SendNewIs
<1>3. d.sq.buf = c.sq.buf
  <2>1. c.sq \in SendQueueType
    BY ConnFields
  <2> QED BY <1>2, <2>1 DEF SendQueueType
<1>4. ASSUME NEW most \in Mosts, Sender(c, most), p # << >>
      PROVE  Sender(d, most) /\ d.retx # << >>
  <2>1. most \in Int /\ SendOK(c.sq, c.retx, most)
    BY <1>4, Limits DEF Mosts, Sender
  <2>2. /\ Len(p) <= LongestPayload
        /\ Ahead(c.sq) + Len(p) <= Len(c.sq.buf)
        /\ Ahead(c.sq) + Len(p) <= MostInFlight
        /\ \A j \in 1 .. Len(p) : p[j] = c.sq.buf[Ahead(c.sq) + j]
    BY <1>4, <2>1, NextPayloadIs DEF p
  <2> QED BY <1>1, <1>4, <2>2, SendNewKeeps
<1>5. ASSUME NEW most \in Mosts, Sender(c, most), p = << >>, c.sq.buf # << >>
      PROVE  c.retx # << >>
  <2>1. most \in Int /\ SendOK(c.sq, c.retx, most)
    BY <1>5, Limits DEF Mosts, Sender
  <2> QED BY <1>5, <2>1, NextPayloadIs DEF p
<1>6. FlushTurn(c) = IF p = << >> THEN c ELSE d
  BY DEF FlushTurn, p
<1> HIDE DEF d
<1>7. CASE p = << >>
  <2>1. FlushTurn(c) = c
    BY <1>6, <1>7
  <2> QED BY <1>5, <1>7, <2>1
<1>8. CASE p # << >>
  <2>1. FlushTurn(c) = d
    BY <1>6, <1>8
  <2> QED BY <1>2, <1>3, <1>4, <1>8, <2>1
<1> QED BY <1>7, <1>8

\* The whole loop.
LEMMA SendWhatFitsIs ==
    ASSUME NEW c \in ConnectionType
    PROVE  /\ SendWhatFits(c) \in ConnectionType
           /\ SendWhatFits(c).state = c.state /\ SendWhatFits(c).iss = c.iss
           /\ SendWhatFits(c).persist <=> c.persist
           /\ SendWhatFits(c).sq.buf = c.sq.buf
           /\ \A most \in Mosts : Sender(c, most) =>
                 /\ Sender(SendWhatFits(c), most)
                 /\ c.sq.buf # << >> => SendWhatFits(c).retx # << >>
<1> DEFINE n == Len(c.sq.buf)
           turn == [d \in ConnectionType |-> FlushTurn(d)]
           Runs(after) == after = [k \in 0 .. n |->
                             IF k = 0 THEN c
                             ELSE LET before == after[k - 1]
                                      payload == NextPayload(before)
                                  IN  IF payload = << >> THEN before
                                      ELSE SendNew(before, payload)]
           run == CHOOSE after : Runs(after)
<1>1. n \in Nat /\ (c.sq.buf # << >> => n # 0)
  BY ConnFields, SendFields, EmptySeq
<1>2. turn \in [ConnectionType -> ConnectionType]
  BY FlushTurnIs
<1>3. SendWhatFits(c) = run[n]
  BY DEF SendWhatFits
<1> HIDE DEF n
<1>4. \E after \in [0 .. n -> ConnectionType] : Runs(after)
  <2> HIDE DEF turn
  <2> DEFINE after == Turns(ConnectionType, turn, c, n)
  <2>1. /\ after \in [0 .. n -> ConnectionType]
        /\ after[0] = c /\ \A k \in 1 .. n : after[k] = turn[after[k - 1]]
    <3>1. after \in [0 .. n -> ConnectionType] /\ Follows(after, turn, c, n)
      BY <1>1, <1>2, LoopExists
    <3> HIDE DEF after
    <3> QED BY <3>1 DEF Follows
  <2> HIDE DEF after
  <2>2. \A k \in 0 .. n : k # 0 => k \in 1 .. n /\ k - 1 \in 0 .. n
    BY <1>1
  <2>3. \A k \in 0 .. n : k # 0 => after[k] =
           IF NextPayload(after[k - 1]) = << >> THEN after[k - 1]
           ELSE SendNew(after[k - 1], NextPayload(after[k - 1]))
    BY <2>1, <2>2 DEF turn, FlushTurn
  <2> QED BY <2>1, <2>3
<1>5. Runs(run)
  <2> HIDE DEF Runs
  <2> QED BY <1>4, Zenon
<1> HIDE DEF run, turn
<1>6. run[0] = c
  BY <1>1, <1>5
<1>7. ASSUME NEW k \in 1 .. n PROVE run[k] = FlushTurn(run[k - 1])
  BY <1>1, <1>5 DEF FlushTurn
<1> HIDE DEF Runs
<1> DEFINE Fine(d) == /\ d \in ConnectionType /\ d.state = c.state /\ d.iss = c.iss
                      /\ d.persist <=> c.persist
                      /\ d.sq.buf = c.sq.buf
           fine == {k \in 0 .. n : Fine(run[k])}
<1>8. n \in fine
  <2>1. 0 \in fine
    BY <1>1, <1>6
  <2>2. \A k \in 1 .. n : k - 1 \in fine => k \in fine
    <3> SUFFICES ASSUME NEW k \in 1 .. n, Fine(run[k - 1]) PROVE Fine(run[k])
      BY <1>1
    <3> QED BY <1>7, FlushTurnIs
  <2>3. fine \in SUBSET (0 .. n)
    OBVIOUS
  <2> HIDE DEF fine
  <2> QED BY <1>1, <2>1, <2>2, <2>3, LoopKeeps
<1>9. ASSUME NEW most \in Mosts, Sender(c, most)
      PROVE  Sender(run[n], most) /\ (c.sq.buf # << >> => run[n].retx # << >>)
  <2> DEFINE Good(d, k) == /\ d \in ConnectionType /\ d.sq.buf = c.sq.buf
                           /\ Sender(d, most)
                           /\ k # 0 /\ c.sq.buf # << >> => d.retx # << >>
             good == {k \in 0 .. n : Good(run[k], k)}
  <2>1. 0 \in good
    BY <1>1, <1>6, <1>9
  <2>2. \A k \in 1 .. n : k - 1 \in good => k \in good
    <3> SUFFICES ASSUME NEW k \in 1 .. n, Good(run[k - 1], k - 1) PROVE Good(run[k], k)
      BY <1>1
    <3> QED BY <1>7, FlushTurnIs
  <2>3. good \in SUBSET (0 .. n)
    OBVIOUS
  <2>4. n \in good
    <3> HIDE DEF good
    <3> QED BY <1>1, <2>1, <2>2, <2>3, LoopKeeps
  <2> QED BY <1>1, <2>4
<1> QED BY <1>3, <1>8, <1>9

\* _flush: in a synchronised state it leaves no byte without a timer.
LEMMA FlushIs ==
    ASSUME NEW c \in ConnectionType
    PROVE  /\ _flush(c) \in ConnectionType
           /\ _flush(c).state = c.state /\ _flush(c).iss = c.iss
           /\ ~is_synchronised(c) => _flush(c) = c
           /\ \A most \in Mosts : Sender(c, most) =>
                 /\ Sender(_flush(c), most)
                 /\ is_synchronised(c) => Fed(_flush(c))
<1>1. CASE ~is_synchronised(c)
  <2>1. _flush(c) = c
    BY <1>1 DEF _flush
  <2> QED BY <1>1, <2>1
<1>2. CASE is_synchronised(c) /\ c.peer_window <= 0
  <2> DEFINE persist == Unsent(c.sq) > 0 \/ InFlight(c.sq) > 0
             d == [c EXCEPT !.persist = persist]
  <2>1. _flush(c) = d
    BY <1>2 DEF _flush, _arm_persist_timer
  <2>2. persist \in BOOLEAN
    OBVIOUS
  <2>3. c.sq.buf # << >> => persist
    <3> DEFINE f == InFlight(c.sq)
               x == seq_diff(c.sq.nxt, c.sq.una)
               b == Len(c.sq.buf)
    <3>1. x \in Int /\ f = Most(x, 0) /\ b \in Nat /\ Unsent(c.sq) = Most(b - f, 0)
          /\ (c.sq.buf # << >> => b # 0)
      BY ConnFields, SendFields, DiffIs, Halves, EmptySeq DEF InFlight, Unsent
    <3> HIDE DEF x, b, f
    <3>2. b # 0 => (Unsent(c.sq) > 0 \/ f > 0)
      BY <3>1 DEF Most
    <3> QED BY <3>1, <3>2 DEF f
  <2> HIDE DEF persist
  <2>4. /\ d \in ConnectionType /\ d.state = c.state /\ d.iss = c.iss /\ d.sq = c.sq
        /\ d.retx = c.retx
        /\ d.rtx <=> c.rtx
        /\ d.persist <=> persist
    BY <2>2 DEF ConnectionType
  <2> HIDE DEF d
  <2> QED BY <1>2, <2>1, <2>3, <2>4 DEF Sender, Fed
<1>3. CASE is_synchronised(c) /\ ~(c.peer_window <= 0)
  <2> DEFINE d == [c EXCEPT !.persist = FALSE]
  <2>1. _flush(c) = SendWhatFits(d)
    BY <1>3 DEF _flush
  <2>2. /\ d \in ConnectionType /\ d.state = c.state /\ d.iss = c.iss /\ d.sq = c.sq
        /\ d.retx = c.retx
        /\ d.rtx <=> c.rtx
    BY DEF ConnectionType
  <2> HIDE DEF d
  <2>3. \A most \in Mosts : Sender(c, most) => Sender(d, most)
    BY <2>2 DEF Sender
  <2> QED BY <1>3, <2>1, <2>2, <2>3, SendWhatFitsIs DEF Fed
<1> QED BY <1>1, <1>2, <1>3

-----------------------------------------------------------------------------
(* Retransmission and acknowledgements                                     *)

\* Resending the oldest outstanding segment.
LEMMA ResendIs ==
    ASSUME NEW c \in ConnectionType, c.retx # << >>
    PROVE  /\ ResendOldest(c) \in ConnectionType
           /\ ResendOldest(c).state = c.state /\ ResendOldest(c).iss = c.iss
           /\ ResendOldest(c).sq = c.sq
           /\ ResendOldest(c).persist <=> c.persist
           /\ ResendOldest(c).rtx <=> c.rtx
           /\ ResendOldest(c).retx # << >>
           /\ \A most : SendOK(c.sq, c.retx, most) => SendOK(c.sq, ResendOldest(c).retx, most)
<1> DEFINE old == c.retx[1]
           e == Emit(c, old.seq, old.flags, old.data, FALSE)
           retx == MarkOldestRetransmitted(e.retx)
           d == ResendOldest(c)
<1>1. old \in EntryType /\ MarkOldestRetransmitted(c.retx) \in Seq(EntryType)
      /\ MarkOldestRetransmitted(c.retx) # << >>
      /\ \A most : SendOK(c.sq, c.retx, most)
                      => SendOK(c.sq, MarkOldestRetransmitted(c.retx), most)
  BY ConnFields, MarkKeeps
<1>2. old.seq \in SeqNum /\ old.flags \in SUBSET Flag /\ old.data \in Seq(Nat)
      /\ FALSE \in BOOLEAN
  BY <1>1 DEF EntryType
<1>3. d = [e EXCEPT !.retx = retx]
  BY DEF ResendOldest
<1> HIDE DEF old
<1>4. e \in ConnectionType /\ SameSender(e, c)
  BY <1>2, EmitIs
<1> HIDE DEF e
<1>5. retx = MarkOldestRetransmitted(c.retx)
  BY <1>4 DEF SameSender
<1> HIDE DEF retx, d
<1>6. /\ d \in ConnectionType /\ d.retx = retx /\ d.state = e.state /\ d.iss = e.iss
      /\ d.sq = e.sq
      /\ d.persist <=> e.persist
      /\ d.rtx <=> e.rtx
  BY <1>1, <1>3, <1>4, <1>5 DEF ConnectionType
<1> QED BY <1>1, <1>4, <1>5, <1>6 DEF SameSender, d

LEMMA RetransmitIs ==
    ASSUME NEW c \in ConnectionType, NEW fast \in BOOLEAN
    PROVE  /\ _retransmit_oldest(c, fast) \in ConnectionType
           /\ _retransmit_oldest(c, fast).state = c.state
           /\ _retransmit_oldest(c, fast).iss = c.iss
           /\ _retransmit_oldest(c, fast).sq = c.sq
           /\ _retransmit_oldest(c, fast).persist <=> c.persist
           /\ c.retx # << >> => _retransmit_oldest(c, fast).retx # << >>
           /\ \A most : Sender(c, most) => Sender(_retransmit_oldest(c, fast), most)
<1> DEFINE e == ResendOldest(c)
           d == [e EXCEPT !.rtx = TRUE]
<1>1. CASE c.retx = << >>
  BY <1>1 DEF _retransmit_oldest
<1>2. CASE c.retx # << >>
  <2>1. _retransmit_oldest(c, fast) = IF fast THEN e ELSE d
    BY <1>2 DEF _retransmit_oldest
  <2>2. /\ e \in ConnectionType /\ e.state = c.state /\ e.iss = c.iss /\ e.sq = c.sq
        /\ e.persist <=> c.persist
        /\ e.rtx <=> c.rtx
        /\ e.retx # << >>
        /\ \A most : SendOK(c.sq, c.retx, most) => SendOK(c.sq, e.retx, most)
    BY <1>2, ResendIs
  <2> HIDE DEF e
  <2>3. /\ d \in ConnectionType /\ d.state = e.state /\ d.iss = e.iss /\ d.sq = e.sq
        /\ d.retx = e.retx
        /\ d.persist <=> e.persist
        /\ d.rtx <=> TRUE
    BY <2>2 DEF ConnectionType
  <2> HIDE DEF d
  <2>4. \A most : Sender(c, most) => Sender(e, most) /\ Sender(d, most)
    BY <1>2, <2>2, <2>3 DEF Sender
  <2>5. CASE fast
    <3>1. _retransmit_oldest(c, fast) = e
      BY <2>1, <2>5
    <3> QED BY <2>2, <2>4, <3>1
  <2>6. CASE ~fast
    <3>1. _retransmit_oldest(c, fast) = d
      BY <2>1, <2>6
    <3> QED BY <2>2, <2>3, <2>4, <3>1
  <2> QED BY <2>5, <2>6
<1> QED BY <1>1, <1>2

\* The fields of a segment.
LEMMA SegmentFields ==
    ASSUME NEW seg \in SegmentType
    PROVE  /\ seg.seq \in SeqNum /\ seg.ack \in SeqNum /\ seg.flags \in SUBSET Flag
           /\ seg.seq \in Int
           /\ seg.win \in 0 .. MAX_WINDOW_FIELD /\ seg.data \in Seq(Nat)
           /\ Len(seg.data) \in Nat /\ seg.opt \in BOOLEAN
<1>1. /\ seg.seq \in SeqNum /\ seg.ack \in SeqNum /\ seg.flags \in SUBSET Flag
      /\ seg.win \in 0 .. MAX_WINDOW_FIELD /\ seg.data \in Seq(Nat) /\ seg.opt \in BOOLEAN
  BY DEF SegmentType
<1>2. seg.seq \in Int
  BY <1>1, Halves DEF SeqNum
<1> QED BY <1>1, <1>2, LenProperties

\* The peer's window, scaled or not, and its options.
LEMMA PeerWindowIs ==
    ASSUME NEW win \in 0 .. MAX_WINDOW_FIELD
    PROVE  win \in PeerWindow /\ \A s \in {0, WScale} : win * 2^s \in PeerWindow
<1> DEFINE factor == 2^WScale
<1>1. factor \in Nat /\ factor >= 1 /\ MAX_WINDOW_FIELD \in Nat /\ win \in Nat
      /\ win <= MAX_WINDOW_FIELD
  BY ConnectionAssumption
<1>2. PeerWindow = 0 .. MAX_WINDOW_FIELD * factor
  BY DEF PeerWindow
<1>3. 2^0 = 1
  OBVIOUS
<1> HIDE DEF factor
<1>4. ASSUME NEW m \in Nat, NEW v \in Nat, NEW f \in Nat, v <= m, f >= 1
      PROVE  v * f \in 0 .. m * f /\ v \in 0 .. m * f
  <2>1. v * f \in Nat /\ m * f \in Nat /\ v <= v * f
    BY <1>4
  <2>2. PICK k \in Nat : m = v + k
    <3>1. m - v \in Nat /\ m = v + (m - v)
      BY <1>4
    <3> QED BY <3>1
  <2>3. m * f = v * f + k * f /\ k * f \in Nat
    BY <1>4, <2>2
  <2> DEFINE x == v * f
             y == m * f
             z == k * f
  <2>4. x \in Nat /\ y \in Nat /\ z \in Nat /\ y = x + z /\ v <= x
    BY <2>1, <2>3
  <2> HIDE DEF x, y, z
  <2>5. x \in 0 .. y /\ v \in 0 .. y
    BY <2>4
  <2> QED BY <2>5 DEF x, y
<1>5. win * factor \in PeerWindow /\ win \in PeerWindow
  BY <1>1, <1>2, <1>4
<1>6. win * 2^0 = win
  BY <1>1, <1>3
<1> QED BY <1>5, <1>6 DEF factor

LEMMA UpdateWindowIs ==
    ASSUME NEW c \in ConnectionType, NEW seg \in SegmentType
    PROVE  /\ _update_peer_window(c, seg) \in ConnectionType
           /\ SameSender(_update_peer_window(c, seg), c)
           /\ _update_peer_window(c, seg).rq = c.rq
           /\ _update_peer_window(c, seg).reno = c.reno
<1> DEFINE w == seg.win * 2^c.snd_wscale
<1>1. w \in PeerWindow
  BY ConnFields, SegmentFields, PeerWindowIs
<1>2. _update_peer_window(c, seg) = [c EXCEPT !.peer_window = w]
  BY DEF _update_peer_window
<1> HIDE DEF w
<1> QED BY <1>1, <1>2 DEF ConnectionType, SameSender

LEMMA ApplyOptionsIs ==
    ASSUME NEW c \in ConnectionType, NEW opt \in BOOLEAN
    PROVE  /\ _apply_peer_options(c, opt) \in ConnectionType
           /\ SameSender(_apply_peer_options(c, opt), c)
           /\ _apply_peer_options(c, opt).rq = c.rq
<1> DEFINE mss == Most(MSS, MIN_PEER_MSS)
           scale == IF WScale # 0 THEN Least(WScale, 14) ELSE c.snd_wscale
           d == [c EXCEPT !.peer_mss = mss, !.snd_wscale = scale]
<1>1. mss \in PeerMSS
  <2>1. /\ MSS \in Nat \ {0} /\ MIN_PEER_MSS \in Nat \ {0} /\ MSS <= LongestPayload
        /\ MIN_PEER_MSS <= LongestPayload /\ LongestPayload \in Nat
    BY Sizes
  <2> QED BY <2>1 DEF PeerMSS, Most
<1>2. scale \in {0, WScale}
  <2>1. WScale \in Nat /\ WScale <= 14
    BY ConnectionAssumption
  <2> QED BY <2>1, ConnFields DEF Least
<1>3. _apply_peer_options(c, opt) = IF ~opt THEN c ELSE d
  BY DEF _apply_peer_options
<1> HIDE DEF mss, scale
<1>4. d \in ConnectionType /\ SameSender(d, c) /\ d.rq = c.rq
  BY <1>1, <1>2 DEF ConnectionType, SameSender
<1> HIDE DEF d
<1> QED BY <1>3, <1>4 DEF SameSender

\* What processing an acknowledgement leaves: the same state, a sender that is
\* still in order, no byte without a timer once synchronised, and before that
\* no bytes at all.
AckResult(d, c) ==
    /\ d \in ConnectionType /\ d.state = c.state /\ d.iss = c.iss
    /\ \A most \in Mosts : Sender(c, most) =>
          /\ Sender(d, most)
          /\ is_synchronised(c) => Fed(d)
    /\ ~is_synchronised(c) /\ c.sq.buf = << >> => d.sq.buf = << >>

LEMMA NewAckIs ==
    ASSUME NEW c \in ConnectionType, NEW seg \in SegmentType, seq_gt(seg.ack, c.sq.una)
    PROVE  AckResult(NewAck(c, seg), c)
<1> DEFINE acked == seq_diff(seg.ack, c.sq.una)
           sq == Acknowledge(c.sq, seg.ack)
           retx == RetxAcknowledge(c.retx, seg.ack)
           reno == on_ack(c.reno, acked, seg.ack)
           c1 == [c EXCEPT !.sq = sq, !.retx = retx, !.reno = reno]
           c2 == _update_peer_window(c1, seg)
           c3 == _arm_retransmit_timer(c2)
           c4 == _flush(c3)
<1>1. seg.ack \in SeqNum /\ c.sq \in SendQueueType /\ c.retx \in Seq(EntryType)
      /\ c.reno \in RenoType
  BY SegmentFields, ConnFields
<1>2. /\ acked \in Int /\ sq \in SendQueueType
      /\ c.sq.buf = << >> => sq.buf = << >>
  BY <1>1, AcknowledgeIs, Halves
<1>3. retx \in Seq(EntryType)
  BY <1>1, RetxAcknowledgeType
<1>4. reno \in RenoType
  <2> HIDE DEF acked
  <2> QED BY <1>1, <1>2, OnAckType
<1>5. ASSUME NEW most \in Mosts, Sender(c, most) PROVE SendOK(sq, retx, most)
  <2>1. most \in Int
    BY Limits DEF Mosts
  <2> QED BY <1>1, <1>5, <2>1, AckKeeps DEF Sender
<1>6. NewAck(c, seg) = c4
  BY DEF NewAck
<1> HIDE DEF acked, sq, retx, reno
<1>7. /\ c1 \in ConnectionType /\ c1.sq = sq /\ c1.retx = retx /\ c1.state = c.state
      /\ c1.iss = c.iss
  BY <1>2, <1>3, <1>4 DEF ConnectionType
<1> HIDE DEF c1
<1>8. c2 \in ConnectionType /\ SameSender(c2, c1)
  BY <1>7, UpdateWindowIs
<1> HIDE DEF c2
<1>9. /\ c3 \in ConnectionType /\ c3.sq = c2.sq /\ c3.retx = c2.retx /\ c3.state = c2.state
      /\ c3.iss = c2.iss
      /\ c3.rtx <=> c3.retx # << >>
  BY <1>8 DEF ConnectionType, _arm_retransmit_timer
<1> HIDE DEF c3
<1>10. /\ c3.state = c.state /\ c3.iss = c.iss /\ c3.sq = sq /\ c3.retx = retx
  BY <1>7, <1>8, <1>9 DEF SameSender
<1>11. \A most \in Mosts : Sender(c, most) => Sender(c3, most)
  BY <1>5, <1>9, <1>10 DEF Sender
<1>12. is_synchronised(c3) <=> is_synchronised(c)
  BY <1>10 DEF is_synchronised
<1>13. /\ c4 \in ConnectionType /\ c4.state = c3.state /\ c4.iss = c3.iss
       /\ ~is_synchronised(c3) => c4 = c3
       /\ \A most \in Mosts : Sender(c3, most) =>
            Sender(c4, most) /\ (is_synchronised(c3) => Fed(c4))
  BY <1>9, FlushIs
<1> HIDE DEF c4
<1> QED BY <1>2, <1>6, <1>10, <1>11, <1>12, <1>13 DEF AckResult

LEMMA OldAckIs ==
    ASSUME NEW c \in ConnectionType, NEW seg \in SegmentType
    PROVE  AckResult(OldAck(c, seg), c)
<1> DEFINE c1 == _update_peer_window(c, seg)
           reopened == c.peer_window <= 0 /\ c1.peer_window > 0
           duplicate == seg.ack = c.sq.una /\ InFlight(c.sq) > 0
           fast == duplicate /\ IsThirdDuplicate(c.reno)
           reno == on_duplicate_ack(c1.reno, seg.ack)
           e == [c1 EXCEPT !.reno = reno]
           c2 == IF duplicate THEN e ELSE c1
           c3 == IF fast THEN _retransmit_oldest(c2, TRUE)
                 ELSE IF reopened THEN _retransmit_oldest(c2, FALSE)
                 ELSE c2
           c4 == _flush(c3)
<1>1. OldAck(c, seg) = c4
  BY DEF OldAck
<1>2. c1 \in ConnectionType /\ SameSender(c1, c)
  BY UpdateWindowIs
<1>3. reno \in RenoType
  BY <1>2, SegmentFields, ConnFields, OnDuplicateType
<1> HIDE DEF c1, reno, reopened, duplicate, fast
<1>4. e \in ConnectionType /\ SameSender(e, c1)
  BY <1>2, <1>3 DEF ConnectionType, SameSender
<1> HIDE DEF e
<1>5. /\ c2 \in ConnectionType /\ c2.state = c.state /\ c2.iss = c.iss /\ c2.sq = c.sq
      /\ c2.retx = c.retx
      /\ c2.rtx <=> c.rtx
  BY <1>2, <1>4 DEF SameSender
<1>6. \A most \in Mosts : Sender(c, most) => Sender(c2, most)
  BY <1>5 DEF Sender
<1> HIDE DEF c2
<1>7. ASSUME NEW d \in {_retransmit_oldest(c2, TRUE), _retransmit_oldest(c2, FALSE), c2}
      PROVE  /\ d \in ConnectionType /\ d.state = c.state /\ d.iss = c.iss /\ d.sq = c.sq
             /\ \A most \in Mosts : Sender(c, most) => Sender(d, most)
  <2>1. TRUE \in BOOLEAN /\ FALSE \in BOOLEAN
    OBVIOUS
  <2>2. CASE d = c2
    BY <1>5, <1>6, <2>2
  <2>3. CASE d = _retransmit_oldest(c2, TRUE)
    BY <1>5, <1>6, <2>1, <2>3, RetransmitIs
  <2>4. CASE d = _retransmit_oldest(c2, FALSE)
    BY <1>5, <1>6, <2>1, <2>4, RetransmitIs
  <2> QED BY <2>2, <2>3, <2>4
<1>8. /\ c3 \in ConnectionType /\ c3.state = c.state /\ c3.iss = c.iss /\ c3.sq = c.sq
      /\ \A most \in Mosts : Sender(c, most) => Sender(c3, most)
  BY <1>7
<1> HIDE DEF c3
<1>9. is_synchronised(c3) <=> is_synchronised(c)
  BY <1>8 DEF is_synchronised
<1>10. /\ c4 \in ConnectionType /\ c4.state = c3.state /\ c4.iss = c3.iss
       /\ ~is_synchronised(c3) => c4 = c3
       /\ \A most \in Mosts : Sender(c3, most) =>
            Sender(c4, most) /\ (is_synchronised(c3) => Fed(c4))
  BY <1>8, FlushIs
<1> HIDE DEF c4
<1> QED BY <1>1, <1>8, <1>9, <1>10 DEF AckResult

LEMMA ProcessAckIs ==
    ASSUME NEW c \in ConnectionType, NEW seg \in SegmentType
    PROVE  AckResult(_process_ack(c, seg), c)
BY NewAckIs, OldAckIs DEF _process_ack

-----------------------------------------------------------------------------
(* The invariant of a connection, and one lemma per entry point            *)

\* A connection in its handshake has sent a SYN and nothing else.
Opening(c) ==
    c.sq.buf = << >> /\ c.sq.una = c.iss /\ c.sq.nxt = seq_add(c.iss, 1)

\* How much may be in flight: after close(), the FIN too.
InFlightMost(state) ==
    IF state \in {"SYN-SENT", "SYN-RECEIVED", "ESTABLISHED", "CLOSE-WAIT"}
    THEN MostInFlight ELSE MostInFlight + 1

Good(c) ==
    c.state \notin {"CLOSED", "TIME-WAIT"} =>
        /\ Sender(c, InFlightMost(c.state))
        /\ Fed(c)
        /\ c.state \in {"SYN-SENT", "SYN-RECEIVED"} => Opening(c)

\* A step that leaves the sender alone keeps it good.
LEMMA SameIsGood ==
    ASSUME NEW c, NEW d, SameSender(d, c), Good(c)
    PROVE  Good(d)
BY DEF SameSender, Good, Sender, Fed, Opening

\* The bound is one of two.
LEMMA MostIs ==
    ASSUME NEW state
    PROVE  InFlightMost(state) \in Mosts
BY DEF InFlightMost, Mosts

\* Teardown and TIME-WAIT, where nothing is promised any more.
LEMMA TeardownIs ==
    ASSUME NEW c \in ConnectionType
    PROVE  /\ _teardown(c) \in ConnectionType /\ _teardown(c).state = "CLOSED"
           /\ Good(_teardown(c))
           /\ _enter_time_wait(c) \in ConnectionType
           /\ _enter_time_wait(c).state = "TIME-WAIT" /\ Good(_enter_time_wait(c))
<1> DEFINE sq == ClearSend(c.sq)
           rq == ClearReceive(c.rq)
           none == << >>
           d == [c EXCEPT !.state = "CLOSED", !.retx = none, !.sq = sq, !.rq = rq,
                          !.rtx = FALSE, !.dack = FALSE, !.tw = FALSE]
           e == [c EXCEPT !.state = "TIME-WAIT", !.tw = TRUE, !.retx = none, !.rtx = FALSE]
<1>1. sq \in SendQueueType
  <2>1. c.sq \in SendQueueType /\ << >> \in Seq(Nat)
    BY ConnFields
  <2> QED BY <2>1 DEF ClearSend, SendQueueType
<1>2. rq \in RecvQueueType
  BY ConnFields, ClearRecvType
<1>3. none \in Seq(EntryType)
  OBVIOUS
<1>4. "CLOSED" \in ConnState /\ "TIME-WAIT" \in ConnState
  BY DEF ConnState, AllStates, Synchronised
<1>5. _teardown(c) = d /\ _enter_time_wait(c) = e
  BY DEF _teardown, _enter_time_wait
<1> HIDE DEF sq, rq, none
<1>6. d \in ConnectionType /\ d.state = "CLOSED"
  BY <1>1, <1>2, <1>3, <1>4 DEF ConnectionType
<1>7. e \in ConnectionType /\ e.state = "TIME-WAIT"
  BY <1>3, <1>4 DEF ConnectionType
<1> HIDE DEF d, e
<1> QED BY <1>5, <1>6, <1>7 DEF Good

\* _reject leaves the connection alone.
LEMMA RejectIs ==
    ASSUME NEW c \in ConnectionType, NEW seg
    PROVE  _reject(c, seg) \in ConnectionType /\ SameSender(_reject(c, seg), c)
BY EmitRstIs DEF _reject, SameSender

\* A connection not yet used.
LEMMA NewConnectionIs == NewConnection \in ConnectionType /\ NewConnection.state = "CLOSED"
                         /\ NewConnection.retx = << >> /\ Good(NewConnection)
<1>1. 0 \in SeqNum /\ 0 \in Int
  BY Halves DEF SeqNum
<1>2. NewSendQueue(0) \in SendQueueType
  BY <1>1 DEF NewSendQueue, SendQueueType
<1>3. NewReceiveQueue(0) \in RecvQueueType
  BY <1>1, NewRecvType
<1>4. MAX_WINDOW_FIELD \in PeerWindow
  <2>1. MAX_WINDOW_FIELD \in 0 .. MAX_WINDOW_FIELD
    BY ConnectionAssumption
  <2> QED BY <2>1, PeerWindowIs
<1>5. DEFAULT_PEER_MSS \in PeerMSS
  <2>1. DEFAULT_PEER_MSS \in Nat \ {0} /\ DEFAULT_PEER_MSS <= LongestPayload
        /\ LongestPayload \in Nat
    BY Sizes
  <2> QED BY <2>1 DEF PeerMSS
<1>6. "CLOSED" \in ConnState /\ NoFin \in FinSeq
  BY DEF ConnState, AllStates, Synchronised, FinSeq
<1>7. << >> \in Seq(EntryType) /\ << >> \in Seq(SegmentType)
  OBVIOUS
<1>8. 0 \in {0, WScale}
  OBVIOUS
<1>9. /\ NewConnection \in ConnectionType /\ NewConnection.state = "CLOSED"
      /\ NewConnection.retx = << >>
  BY <1>1, <1>2, <1>3, <1>4, <1>5, <1>6, <1>7, <1>8, NewRenoType
     DEF NewConnection, ConnectionType
<1> QED BY <1>9 DEF Good

\* The first segment of a handshake is kept until it is acknowledged.
LEMMA OpenIs ==
    ASSUME NEW c \in ConnectionType, NEW iss \in SeqNum,
           c.sq = NewSendQueue(iss), c.iss = iss, c.retx = << >>,
           NEW flags \in {{"SYN"}, {"SYN", "ACK"}},
           NEW state \in {"SYN-SENT", "SYN-RECEIVED"},
           NEW d, d = [EmitTracked(c, iss, flags, << >>, TRUE) EXCEPT
                          !.sq.nxt = seq_add(iss, 1), !.state = state]
    PROVE  d \in ConnectionType /\ Good(d)
<1> DEFINE e == EmitTracked(c, iss, flags, << >>, TRUE)
           nxt == seq_add(iss, 1)
           sq == [c.sq EXCEPT !.nxt = nxt]
           sq0 == c.sq
<1>1. flags \in SUBSET Flag /\ << >> \in Seq(Nat) /\ TRUE \in BOOLEAN
  BY DEF Flag
<1>2. state \in ConnState
  BY DEF ConnState, AllStates, Synchronised
<1>3. "SYN" \in flags /\ "FIN" \notin flags
  OBVIOUS
<1>4. /\ e \in ConnectionType /\ e.iss = iss /\ e.sq = c.sq
      /\ e.retx = RetxAdd(c.retx, iss, flags, << >>)
      /\ e.rtx <=> e.retx # << >>
  <2> DEFINE none == << >>
             opt == TRUE
  <2>1. none \in Seq(Nat) /\ e = EmitTracked(c, iss, flags, none, opt) /\ opt \in BOOLEAN
    OBVIOUS
  <2> HIDE DEF none, e, opt
  <2>2. /\ e \in ConnectionType /\ e.iss = c.iss /\ e.sq = c.sq
        /\ e.retx = RetxAdd(c.retx, iss, flags, none)
        /\ e.rtx <=> e.retx # << >>
    BY <1>1, <2>1, EmitTrackedIs
  <2> QED BY <2>2 DEF none
<1>5. iss \in Int /\ nxt \in SeqNum
  BY AddIsSeqNum, Halves DEF SeqNum
<1>6. /\ sq0 \in SendQueueType /\ sq0.nxt = iss /\ sq0.una = iss /\ sq0.buf = << >>
  BY ConnFields DEF NewSendQueue
<1>7. d = [e EXCEPT !.sq = sq, !.state = state]
  BY <1>4 DEF ConnectionType
<1> HIDE DEF e, nxt
<1>8. sq \in SendQueueType /\ sq.una = iss /\ sq.nxt = nxt /\ sq.buf = << >>
  BY <1>5, <1>6 DEF SendQueueType
<1> HIDE DEF sq
<1>9. /\ d \in ConnectionType /\ d.sq = sq /\ d.state = state /\ d.iss = e.iss
      /\ d.retx = e.retx
      /\ d.rtx <=> e.rtx
  BY <1>2, <1>4, <1>7, <1>8 DEF ConnectionType
<1>10. Ahead(sq0) = 0
  <2>1. seq_diff(iss, iss) = 0
    <3>1. iss - iss = 0 /\ 0 % SEQ_MOD = 0
      BY <1>5, SmallRemainder, Halves
    <3> QED BY <3>1, Halves DEF seq_diff
  <2> QED BY <1>6, <2>1 DEF Ahead
<1>11. SendOK(sq0, << >>, MostInFlight)
  <2>1. Len(<< >>) = 0 /\ 1 .. 0 = {} /\ 0 .. 0 - 1 = {}
    BY EmptySeq
  <2>2. 0 \in 0 .. MostInFlight /\ 0 <= SendCapacity
    BY Limits
  <2> QED BY <1>6, <1>10, <2>1, <2>2 DEF SendOK
<1>12. seq_len(Entry(iss, flags, << >>)) = 1
  <2>1. Entry(iss, flags, << >>).flags = flags /\ Entry(iss, flags, << >>).data = << >>
    BY DEF Entry
  <2>2. Len(<< >>) = 0
    BY EmptySeq
  <2>3. seq_len(Entry(iss, flags, << >>)) = 0 + 1 + 0
    BY <1>3, <2>1, <2>2 DEF seq_len
  <2> QED BY <2>3
<1>13. SendOK(sq, RetxAdd(<< >>, iss, flags, << >>), MostInFlight)
  <2> DEFINE none == << >>
             one == 1
  <2>1. /\ none \in Seq(Nat) /\ none \in Seq(EntryType) /\ one \in Nat /\ Len(none) = 0
        /\ one = seq_len(Entry(sq0.nxt, flags, none))
        /\ MostInFlight \in Int /\ 0 + one <= MostInFlight /\ MostInFlight <= MostInFlight + 1
        /\ 0 + Len(none) <= MostInFlight
    BY <1>6, <1>12, EmptySeq, Limits
  <2>2. sq = [sq0 EXCEPT !.nxt = seq_add(sq0.nxt, one)]
    BY <1>6 DEF sq, nxt
  <2>3. SendOK([sq0 EXCEPT !.nxt = seq_add(sq0.nxt, one)],
               RetxAdd(none, sq0.nxt, flags, none), MostInFlight)
    <3>1. none = << >> /\ one = 1 /\ SendOK(sq0, none, MostInFlight)
      BY <1>11
    <3> HIDE DEF none, one, sq0
    <3> QED BY <1>1, <1>6, <1>10, <2>1, <3>1, SendKeeps
  <2> QED BY <1>6, <2>2, <2>3
<1>14. InFlightMost(d.state) = MostInFlight
  BY <1>9 DEF InFlightMost
<1>15. Sender(d, MostInFlight)
  BY <1>4, <1>9, <1>13 DEF Sender
<1>16. Opening(d) /\ Fed(d)
  BY <1>4, <1>8, <1>9 DEF Opening, Fed, nxt
<1> QED BY <1>9, <1>14, <1>15, <1>16 DEF Good

\* connect(), and the child that a listener makes of a SYN.
LEMMA ConnectIs ==
    ASSUME NEW iss \in SeqNum
    PROVE  connect(NewConnection, iss) \in ConnectionType /\ Good(connect(NewConnection, iss))
<1> DEFINE c == NewConnection
           sq == NewSendQueue(iss)
           rq == NewReceiveQueue(0)
           reno == NewReno
           c1 == [c EXCEPT !.iss = iss, !.sq = sq, !.rq = rq, !.reno = reno]
           flags == {"SYN"}
           state == "SYN-SENT"
<1>1. c \in ConnectionType /\ c.retx = << >>
  BY NewConnectionIs
<1>2. sq \in SendQueueType /\ rq \in RecvQueueType /\ reno \in RenoType
  BY NewRecvType, NewRenoType DEF NewSendQueue, SendQueueType
<1>3. connect(c, iss) = [EmitTracked(c1, iss, flags, << >>, TRUE) EXCEPT
                            !.sq.nxt = seq_add(iss, 1), !.state = state]
  BY DEF connect
<1>4. flags \in {{"SYN"}, {"SYN", "ACK"}} /\ state \in {"SYN-SENT", "SYN-RECEIVED"}
  OBVIOUS
<1> HIDE DEF c, rq, reno
<1>5. c1 \in ConnectionType /\ c1.sq = sq /\ c1.iss = iss /\ c1.retx = << >>
  <2> HIDE DEF sq
  <2> QED BY <1>1, <1>2 DEF ConnectionType
<1> HIDE DEF c1, flags, state
<1> QED BY <1>3, <1>4, <1>5, OpenIs DEF c

LEMMA PassiveOpenIs ==
    ASSUME NEW seg \in SegmentType, NEW iss \in SeqNum
    PROVE  /\ _begin_passive_open(NewConnection, seg, iss) \in ConnectionType
           /\ Good(_begin_passive_open(NewConnection, seg, iss))
<1> DEFINE c == NewConnection
           sq == NewSendQueue(iss)
           rq == NewReceiveQueue(seg.seq)
           reno == NewReno
           win == seg.win
           c1 == [c EXCEPT !.iss = iss, !.sq = sq, !.rq = rq, !.reno = reno,
                           !.peer_window = win]
           c2 == _apply_peer_options(c1, seg.opt)
           flags == {"SYN", "ACK"}
           state == "SYN-RECEIVED"
<1>1. c \in ConnectionType /\ c.retx = << >>
  BY NewConnectionIs
<1>2. sq \in SendQueueType /\ rq \in RecvQueueType /\ reno \in RenoType /\ win \in PeerWindow
  BY SegmentFields, PeerWindowIs, NewRecvType, NewRenoType DEF NewSendQueue, SendQueueType
<1>3. _begin_passive_open(c, seg, iss)
         = [EmitTracked(c2, iss, flags, << >>, TRUE) EXCEPT
                            !.sq.nxt = seq_add(iss, 1), !.state = state]
  BY DEF _begin_passive_open
<1>4. flags \in {{"SYN"}, {"SYN", "ACK"}} /\ state \in {"SYN-SENT", "SYN-RECEIVED"}
  OBVIOUS
<1> HIDE DEF c, rq, reno, win
<1>5. c1 \in ConnectionType /\ c1.sq = sq /\ c1.iss = iss /\ c1.retx = << >>
  <2> HIDE DEF sq
  <2> QED BY <1>1, <1>2 DEF ConnectionType
<1> HIDE DEF c1
<1>6. c2 \in ConnectionType /\ c2.sq = sq /\ c2.iss = iss /\ c2.retx = << >>
  BY <1>5, SegmentFields, ApplyOptionsIs DEF SameSender
<1> HIDE DEF c2, flags, state
<1> QED BY <1>3, <1>4, <1>6, OpenIs DEF c

\* Both sides opened at once: the SYN+ACK is kept beside the SYN, and both
\* stand for the same sequence number.
LEMMA SimultaneousIs ==
    ASSUME NEW c \in ConnectionType, Good(c), c.state = "SYN-SENT", NEW seg \in SegmentType
    PROVE  /\ _handle_simultaneous_open(c, seg) \in ConnectionType
           /\ Good(_handle_simultaneous_open(c, seg))
<1> DEFINE rq == NewReceiveQueue(seg.seq)
           win == seg.win
           none == << >>
           flags == {"SYN", "ACK"}
           opt == TRUE
           state == "SYN-RECEIVED"
           c0 == [c EXCEPT !.rq = rq]
           c1 == _apply_peer_options(c0, seg.opt)
           c2 == [c1 EXCEPT !.peer_window = win]
           e == EmitTracked(c2, c.iss, flags, none, opt)
           d == [e EXCEPT !.state = state]
           item == Entry(c.iss, flags, none)
           sq == c.sq
           retx == RetxAdd(c.retx, c.iss, flags, none)
<1>1. /\ rq \in RecvQueueType /\ win \in PeerWindow /\ none \in Seq(Nat)
      /\ flags \in SUBSET Flag /\ opt \in BOOLEAN /\ Len(none) = 0
  BY SegmentFields, NewRecvType, PeerWindowIs, EmptySeq DEF Flag
<1>2. state \in ConnState /\ InFlightMost(state) = MostInFlight
  BY DEF ConnState, AllStates, Synchronised, InFlightMost
<1>3. "SYN" \in flags /\ "FIN" \notin flags
  OBVIOUS
<1>4. Sender(c, MostInFlight) /\ Opening(c)
  BY DEF Good, InFlightMost
<1>5. _handle_simultaneous_open(c, seg) = d
  BY DEF _handle_simultaneous_open
<1>6. none = << >>
  OBVIOUS
<1> HIDE DEF rq, win, none, flags, opt
<1>7. c0 \in ConnectionType /\ SameSender(c0, c)
  BY <1>1 DEF ConnectionType, SameSender
<1> HIDE DEF c0
<1>8. c1 \in ConnectionType /\ SameSender(c1, c0)
  BY <1>7, SegmentFields, ApplyOptionsIs
<1> HIDE DEF c1
<1>9. c2 \in ConnectionType /\ SameSender(c2, c1)
  BY <1>1, <1>8 DEF ConnectionType, SameSender
<1> HIDE DEF c2
<1>10. c2.sq = sq /\ c2.retx = c.retx /\ c2.iss = c.iss
  BY <1>7, <1>8, <1>9 DEF SameSender
<1>11. /\ e \in ConnectionType /\ e.iss = c.iss /\ e.sq = sq /\ e.retx = retx
       /\ e.rtx <=> e.retx # << >>
  <2> DEFINE iss == c.iss
  <2>1. iss \in SeqNum /\ e = EmitTracked(c2, iss, flags, none, opt)
    BY ConnFields
  <2>2. flags \in SUBSET Flag /\ none \in Seq(Nat) /\ opt \in BOOLEAN /\ c2 \in ConnectionType
    BY <1>1, <1>9
  <2> HIDE DEF e, iss
  <2>3. /\ e \in ConnectionType /\ e.iss = c2.iss /\ e.sq = c2.sq
        /\ e.retx = RetxAdd(c2.retx, iss, flags, none)
        /\ e.rtx <=> e.retx # << >>
    BY <2>1, <2>2, EmitTrackedIs
  <2> QED BY <1>10, <2>3 DEF iss
<1> HIDE DEF e
<1>12. /\ d \in ConnectionType /\ d.iss = c.iss /\ d.sq = sq /\ d.retx = retx /\ d.state = state
       /\ d.rtx <=> e.rtx
  <2> HIDE DEF state, sq, retx
  <2> QED BY <1>2, <1>11 DEF ConnectionType
<1>13. SendOK(sq, retx, MostInFlight)
  <2>1. /\ sq \in SendQueueType /\ c.retx \in Seq(EntryType) /\ c.iss \in SeqNum
        /\ SendOK(sq, c.retx, MostInFlight) /\ sq.una = c.iss /\ sq.nxt = seq_add(c.iss, 1)
    BY <1>4, ConnFields DEF Sender, Opening
  <2>2. item \in EntryType /\ item.seq = c.iss /\ item.data = none /\ item.flags = flags
    BY <1>1, <2>1, RetxAddType DEF Entry
  <2>3. retx = c.retx \/ retx = Append(c.retx, item)
    BY DEF RetxAdd, Entry
  <2> HIDE DEF item, retx
  <2>4. seq_len(item) = 1
    <3>1. seq_len(item) = 0 + 1 + 0
      BY <1>1, <1>3, <2>2 DEF seq_len
    <3> QED BY <3>1
  <2>5. Place(item, sq) = 0 /\ Ahead(sq) = 1
    <3>1. /\ seq_diff(seq_add(sq.una, 1), seq_add(sq.una, 0)) = 1 - 0
          /\ seq_diff(seq_add(sq.una, 0), seq_add(sq.una, 0)) = 0 - 0
      <4>1. /\ -SEQ_HALF < 1 - 0 /\ 1 - 0 < SEQ_HALF
            /\ -SEQ_HALF < 0 - 0 /\ 0 - 0 < SEQ_HALF
        BY Limits, Halves
      <4>2. sq.una \in SeqNum /\ 0 \in Int /\ 1 \in Int
        BY <2>1, SendFields
      <4> QED BY <4>1, <4>2, FromBase
    <3>2. seq_add(sq.una, 0) = sq.una
      BY <2>1, SendFields, DiffIs
    <3> QED BY <2>1, <2>2, <3>1, <3>2 DEF Place, Ahead
  <2>6. EntryOK(item, sq)
    <3>1. 1 \in 1 .. LongestPayload /\ 0 + 1 \in 1 .. 1 /\ 1 .. 0 = {}
      BY Limits
    <3> QED BY <1>1, <1>6, <2>2, <2>4, <2>5, <3>1 DEF EntryOK
  <2>7. SendOK(sq, Append(c.retx, item), MostInFlight)
    <3>1. sq.nxt \in SeqNum /\ sq = [sq EXCEPT !.nxt = sq.nxt]
      BY <2>1 DEF SendQueueType
    <3>2. /\ MostInFlight \in Int /\ Ahead(sq) <= MostInFlight /\ Ahead(sq) <= Ahead(sq)
          /\ \A k \in Ahead(sq) .. Ahead(sq) - 1 :
                Place(item, sq) <= k /\ k < Place(item, sq) + seq_len(item)
          /\ item.data # << >> => Place(item, sq) >= Ahead(sq)
      BY <1>6, <2>2, <2>5, Limits
    <3> HIDE DEF sq
    <3> QED BY <2>1, <2>2, <2>6, <3>1, <3>2, AppendKeeps
  <2> QED BY <2>1, <2>3, <2>7
<1> HIDE DEF d
<1>14. Sender(d, MostInFlight)
  BY <1>11, <1>12, <1>13 DEF Sender
<1>15. Opening(d) /\ Fed(d)
  BY <1>4, <1>12 DEF Opening, Fed
<1> QED BY <1>2, <1>5, <1>12, <1>14, <1>15 DEF Good

\* The handshake is over: what is left of it in flight stays covered.
LEMMA EstablishedIs ==
    ASSUME NEW c \in ConnectionType, c.state \in {"SYN-SENT", "SYN-RECEIVED"},
           Sender(c, MostInFlight), c.sq.buf = << >>,
           NEW r, AckResult(r, c), NEW d \in ConnectionType, SameSender(d, r)
    PROVE  /\ [d EXCEPT !.state = "ESTABLISHED"] \in ConnectionType
           /\ Good([d EXCEPT !.state = "ESTABLISHED"])
<1> DEFINE f == [d EXCEPT !.state = "ESTABLISHED"]
<1>1. ~is_synchronised(c)
  BY DEF is_synchronised, Synchronised
<1>2. "ESTABLISHED" \in ConnState /\ InFlightMost("ESTABLISHED") = MostInFlight
  BY DEF ConnState, AllStates, Synchronised, InFlightMost
<1>3. Sender(r, MostInFlight) /\ r.sq.buf = << >>
  BY <1>1 DEF AckResult, Mosts
<1>4. /\ f \in ConnectionType /\ f.state = "ESTABLISHED" /\ f.sq = d.sq /\ f.retx = d.retx
      /\ f.rtx <=> d.rtx
  BY <1>2 DEF ConnectionType
<1> HIDE DEF f
<1>5. Sender(f, MostInFlight) /\ Fed(f)
  BY <1>3, <1>4 DEF SameSender, Sender, Fed
<1>6. Good(f)
  BY <1>2, <1>4, <1>5 DEF Good
<1> QED BY <1>4, <1>6 DEF f

LEMMA SynAckIs ==
    ASSUME NEW c \in ConnectionType, Good(c), c.state = "SYN-SENT", NEW seg \in SegmentType
    PROVE  _handle_syn_ack(c, seg) \in ConnectionType /\ Good(_handle_syn_ack(c, seg))
<1> DEFINE rq == NewReceiveQueue(seg.seq)
           c0 == [c EXCEPT !.rq = rq]
           c1 == _apply_peer_options(c0, seg.opt)
           c2 == _update_peer_window(c1, seg)
           r == _process_ack(c2, seg)
           d == _send_ack(r)
<1>1. CASE ~AcksOurSyn(c, seg)
  BY <1>1, RejectIs, SameIsGood DEF _handle_syn_ack
<1>2. CASE AcksOurSyn(c, seg)
  <2>1. _handle_syn_ack(c, seg) = [d EXCEPT !.state = "ESTABLISHED"]
    BY <1>2 DEF _handle_syn_ack
  <2>2. rq \in RecvQueueType
    BY SegmentFields, NewRecvType
  <2> HIDE DEF rq
  <2>3. c0 \in ConnectionType /\ SameSender(c0, c)
    BY <2>2 DEF ConnectionType, SameSender
  <2> HIDE DEF c0
  <2>4. c1 \in ConnectionType /\ SameSender(c1, c0)
    BY <2>3, SegmentFields, ApplyOptionsIs
  <2> HIDE DEF c1
  <2>5. c2 \in ConnectionType /\ SameSender(c2, c1)
    BY <2>4, UpdateWindowIs
  <2> HIDE DEF c2
  <2>6. /\ c2.state = "SYN-SENT" /\ c2.sq = c.sq /\ c2.retx = c.retx
        /\ c2.rtx <=> c.rtx
    BY <2>3, <2>4, <2>5 DEF SameSender
  <2>7. Sender(c, MostInFlight) /\ c.sq.buf = << >>
    BY DEF Good, InFlightMost, Opening
  <2>8. Sender(c2, MostInFlight) /\ c2.sq.buf = << >>
    BY <2>6, <2>7 DEF Sender
  <2>9. AckResult(r, c2)
    BY <2>5, ProcessAckIs
  <2>10. r \in ConnectionType
    BY <2>9 DEF AckResult
  <2> HIDE DEF r
  <2>11. d \in ConnectionType /\ SameSender(d, r)
    BY <2>10, SendAckIs
  <2> HIDE DEF d
  <2> QED BY <2>1, <2>5, <2>6, <2>8, <2>9, <2>11, EstablishedIs
<1> QED BY <1>1, <1>2

LEMMA FinalAckIs ==
    ASSUME NEW c \in ConnectionType, Good(c), c.state = "SYN-RECEIVED", NEW seg \in SegmentType
    PROVE  /\ _handle_final_ack_of_handshake(c, seg) \in ConnectionType
           /\ Good(_handle_final_ack_of_handshake(c, seg))
<1> DEFINE r == _process_ack(c, seg)
<1>1. CASE ~AcksOurSyn(c, seg)
  BY <1>1 DEF _handle_final_ack_of_handshake
<1>2. CASE AcksOurSyn(c, seg)
  <2>1. _handle_final_ack_of_handshake(c, seg) = [r EXCEPT !.state = "ESTABLISHED"]
    BY <1>2 DEF _handle_final_ack_of_handshake
  <2>2. Sender(c, MostInFlight) /\ c.sq.buf = << >>
    BY DEF Good, InFlightMost, Opening
  <2>3. AckResult(r, c)
    BY ProcessAckIs
  <2> HIDE DEF r
  <2>4. r \in ConnectionType /\ SameSender(r, r)
    BY <2>3 DEF AckResult, SameSender
  <2> QED BY <2>1, <2>2, <2>3, <2>4, EstablishedIs
<1> QED BY <1>1, <1>2

\* An acknowledgement in a synchronised state.
LEMMA AckGood ==
    ASSUME NEW c \in ConnectionType, Good(c), is_synchronised(c), NEW seg \in SegmentType
    PROVE  /\ _process_ack(c, seg) \in ConnectionType /\ Good(_process_ack(c, seg))
           /\ _process_ack(c, seg).state = c.state
<1> DEFINE d == _process_ack(c, seg)
<1>1. AckResult(d, c)
  BY ProcessAckIs
<1> HIDE DEF d
<1>2. d \in ConnectionType /\ d.state = c.state
  BY <1>1 DEF AckResult
<1>3. c.state \notin {"SYN-SENT", "SYN-RECEIVED"}
  BY DEF is_synchronised, Synchronised
<1>4. ASSUME Sender(c, InFlightMost(c.state)) PROVE Sender(d, InFlightMost(c.state)) /\ Fed(d)
  BY <1>1, <1>4, MostIs DEF AckResult
<1>5. Good(d)
  BY <1>2, <1>3, <1>4 DEF Good
<1> QED BY <1>2, <1>5 DEF d

\* A new state with the same bound.
LEMMA MoveIs ==
    ASSUME NEW c \in ConnectionType, Good(c), NEW d \in ConnectionType, NEW state \in ConnState,
           c.state \notin {"CLOSED", "TIME-WAIT"}, state \notin {"SYN-SENT", "SYN-RECEIVED"},
           InFlightMost(state) = InFlightMost(c.state), SameSender(d, c)
    PROVE  /\ [d EXCEPT !.state = state] \in ConnectionType
           /\ Good([d EXCEPT !.state = state])
           /\ [d EXCEPT !.state = state].state = state
<1> DEFINE f == [d EXCEPT !.state = state]
<1>1. /\ f \in ConnectionType /\ f.state = state /\ f.sq = d.sq /\ f.retx = d.retx
      /\ f.rtx <=> d.rtx
      /\ f.persist <=> d.persist
  BY DEF ConnectionType
<1> HIDE DEF f
<1>2. Sender(c, InFlightMost(c.state)) /\ Fed(c)
  BY DEF Good
<1>3. Sender(f, InFlightMost(c.state)) /\ Fed(f)
  BY <1>1, <1>2 DEF SameSender, Sender, Fed
<1>4. Good(f)
  BY <1>1, <1>3 DEF Good
<1> QED BY <1>1, <1>4 DEF f

\* An acknowledgement of our FIN.
LEMMA AdvanceIs ==
    ASSUME NEW c \in ConnectionType, Good(c), NEW seg
    PROVE  /\ _maybe_advance_after_ack(c, seg) \in ConnectionType
           /\ Good(_maybe_advance_after_ack(c, seg))
<1> DEFINE d == _maybe_advance_after_ack(c, seg)
           state == "FIN-WAIT-2"
           f == [c EXCEPT !.state = state]
<1>1. \/ d = c
      \/ c.state = "FIN-WAIT-1" /\ d = f
      \/ d = _enter_time_wait(c)
      \/ d = _teardown(c)
  BY DEF _maybe_advance_after_ack
<1>2. CASE c.state = "FIN-WAIT-1" /\ d = f
  <2>1. /\ state \in ConnState /\ state \notin {"SYN-SENT", "SYN-RECEIVED"}
        /\ c.state \notin {"CLOSED", "TIME-WAIT"}
        /\ InFlightMost(state) = InFlightMost(c.state)
    BY <1>2 DEF ConnState, AllStates, Synchronised, InFlightMost
  <2>2. SameSender(c, c)
    BY DEF SameSender
  <2> HIDE DEF state
  <2> QED BY <1>2, <2>1, <2>2, MoveIs
<1> HIDE DEF d
<1> QED BY <1>1, <1>2, TeardownIs DEF d

\* Data, which only the receive queue takes.
LEMMA DataIs ==
    ASSUME NEW c \in ConnectionType, Good(c), NEW seg \in SegmentType
    PROVE  _handle_data(c, seg) \in ConnectionType /\ Good(_handle_data(c, seg))
<1> DEFINE rq == Insert(c.rq, seg.seq, seg.data)
           c1 == [c EXCEPT !.rq = rq]
           d == [c1 EXCEPT !.dack = TRUE]
<1>1. rq \in RecvQueueType
  BY ConnFields, SegmentFields, InsertType
<1>2. _handle_data(c, seg) = d \/ _handle_data(c, seg) = _send_ack(c1)
  BY DEF _handle_data
<1> HIDE DEF rq
<1>3. c1 \in ConnectionType /\ SameSender(c1, c)
  BY <1>1 DEF ConnectionType, SameSender
<1> HIDE DEF c1
<1>4. d \in ConnectionType /\ SameSender(d, c1)
  BY <1>3 DEF ConnectionType, SameSender
<1> HIDE DEF d
<1>5. _send_ack(c1) \in ConnectionType /\ SameSender(_send_ack(c1), c1)
  BY <1>3, SendAckIs
<1>6. Good(c1)
  BY <1>3, SameIsGood
<1>7. Good(d) /\ Good(_send_ack(c1))
  BY <1>4, <1>5, <1>6, SameIsGood
<1> QED BY <1>2, <1>4, <1>5, <1>7

\* The peer's FIN.
LEMMA FinIs ==
    ASSUME NEW c \in ConnectionType, Good(c), NEW seg \in SegmentType
    PROVE  _handle_fin(c, seg) \in ConnectionType /\ Good(_handle_fin(c, seg))
<1> DEFINE rq == [c.rq EXCEPT !.nxt = seq_add(c.rq.nxt, 1)]
           c0 == [c EXCEPT !.rq = rq]
           c1 == _send_ack(c0)
           wait == "CLOSE-WAIT"
           closing == "CLOSING"
           d == ConsumeFin(c)
<1>1. rq \in RecvQueueType
  BY ConnFields, ReadType
<1>2. c0 = [c EXCEPT !.rq.nxt = seq_add(@, 1)]
  BY DEF ConnectionType
<1>3. \/ c.state = "ESTABLISHED" /\ d = [c1 EXCEPT !.state = wait]
      \/ c.state = "FIN-WAIT-1" /\ d = [c1 EXCEPT !.state = closing]
      \/ d = _enter_time_wait(c1)
      \/ d = c1
  <2> HIDE DEF c0
  <2> QED BY <1>2 DEF ConsumeFin
<1> HIDE DEF rq, d
<1>4. c0 \in ConnectionType /\ SameSender(c0, c)
  BY <1>1 DEF ConnectionType, SameSender
<1> HIDE DEF c0
<1>5. c1 \in ConnectionType /\ SameSender(c1, c0)
  BY <1>4, SendAckIs
<1> HIDE DEF c1
<1>6. SameSender(c1, c)
  BY <1>4, <1>5 DEF SameSender
<1>7. Good(c1)
  BY <1>6, SameIsGood
<1>8. ASSUME c.state = "ESTABLISHED", d = [c1 EXCEPT !.state = wait]
      PROVE  d \in ConnectionType /\ Good(d)
  <2>1. /\ wait \in ConnState /\ wait \notin {"SYN-SENT", "SYN-RECEIVED"}
        /\ c.state \notin {"CLOSED", "TIME-WAIT"}
        /\ InFlightMost(wait) = InFlightMost(c.state)
    BY <1>8 DEF ConnState, AllStates, Synchronised, InFlightMost
  <2> HIDE DEF wait
  <2> QED BY <1>5, <1>6, <1>8, <2>1, MoveIs
<1>9. ASSUME c.state = "FIN-WAIT-1", d = [c1 EXCEPT !.state = closing]
      PROVE  d \in ConnectionType /\ Good(d)
  <2>1. /\ closing \in ConnState /\ closing \notin {"SYN-SENT", "SYN-RECEIVED"}
        /\ c.state \notin {"CLOSED", "TIME-WAIT"}
        /\ InFlightMost(closing) = InFlightMost(c.state)
    BY <1>9 DEF ConnState, AllStates, Synchronised, InFlightMost
  <2> HIDE DEF closing
  <2> QED BY <1>5, <1>6, <1>9, <2>1, MoveIs
<1>10. d \in ConnectionType /\ Good(d)
  BY <1>3, <1>5, <1>7, <1>8, <1>9, TeardownIs
<1>11. _send_ack(c) \in ConnectionType /\ Good(_send_ack(c))
  BY SendAckIs, SameIsGood
<1>12. _handle_fin(c, seg) = d \/ _handle_fin(c, seg) = _send_ack(c)
  BY DEF _handle_fin, d
<1> QED BY <1>10, <1>11, <1>12

\* on_segment, whole.
LEMMA SynchronisedIs ==
    ASSUME NEW c \in ConnectionType, Good(c), is_synchronised(c), NEW seg \in SegmentType
    PROVE  OnSynchronised(c, seg) \in ConnectionType /\ Good(OnSynchronised(c, seg))
<1> DEFINE c1 == IF "ACK" \in seg.flags THEN _process_ack(c, seg) ELSE c
           c2 == _maybe_advance_after_ack(c1, seg)
           c3 == IF seg.data # << >> THEN _handle_data(c2, seg) ELSE c2
           c4 == IF "FIN" \in seg.flags THEN _handle_fin(c3, seg) ELSE c3
<1>1. OnSynchronised(c, seg) = IF ~_acceptable(c, seg) THEN _send_ack(c) ELSE c4
  BY DEF OnSynchronised
<1>2. _send_ack(c) \in ConnectionType /\ Good(_send_ack(c))
  BY SendAckIs, SameIsGood
<1>3. c1 \in ConnectionType /\ Good(c1)
  BY AckGood
<1> HIDE DEF c1
<1>4. c2 \in ConnectionType /\ Good(c2)
  BY <1>3, AdvanceIs
<1> HIDE DEF c2
<1>5. c3 \in ConnectionType /\ Good(c3)
  BY <1>4, DataIs
<1> HIDE DEF c3
<1>6. c4 \in ConnectionType /\ Good(c4)
  BY <1>5, FinIs
<1> HIDE DEF c4
<1> QED BY <1>1, <1>2, <1>6

LEMMA SynIs ==
    ASSUME NEW c \in ConnectionType, Good(c), NEW seg \in SegmentType
    PROVE  OnSyn(c, seg) \in ConnectionType /\ Good(OnSyn(c, seg))
<1>1. CASE c.state = "SYN-SENT" /\ "ACK" \in seg.flags
  BY <1>1, SynAckIs DEF OnSyn
<1>2. CASE c.state = "SYN-SENT" /\ "ACK" \notin seg.flags
  BY <1>2, SimultaneousIs DEF OnSyn
<1>3. CASE c.state = "SYN-RECEIVED"
  <2> DEFINE d == _retransmit_oldest(c, FALSE)
  <2>1. OnSyn(c, seg) = d
    BY <1>3 DEF OnSyn
  <2>2. FALSE \in BOOLEAN
    OBVIOUS
  <2>3. /\ d \in ConnectionType /\ d.state = c.state /\ d.iss = c.iss /\ d.sq = c.sq
        /\ \A most : Sender(c, most) => Sender(d, most)
    BY <2>2, RetransmitIs
  <2> HIDE DEF d
  <2>4. Sender(c, InFlightMost(c.state)) /\ Opening(c)
    BY <1>3 DEF Good
  <2>5. Good(d)
    BY <2>3, <2>4 DEF Good, Opening, Fed
  <2> QED BY <2>1, <2>3, <2>5
<1>4. CASE c.state \notin {"SYN-SENT", "SYN-RECEIVED"}
  BY <1>4, RejectIs, SameIsGood DEF OnSyn
<1> QED BY <1>1, <1>2, <1>3, <1>4

LEMMA OnSegmentIs ==
    ASSUME NEW c \in ConnectionType, Good(c), NEW seg \in SegmentType
    PROVE  on_segment(c, seg) \in ConnectionType /\ Good(on_segment(c, seg))
<1>1. CASE c.state = "CLOSED"
  BY <1>1, RejectIs, SameIsGood DEF on_segment
<1>2. CASE c.state # "CLOSED" /\ "RST" \in seg.flags
  BY <1>2, TeardownIs DEF on_segment, _handle_rst
<1>3. CASE c.state # "CLOSED" /\ "RST" \notin seg.flags /\ "SYN" \in seg.flags
  BY <1>3, SynIs DEF on_segment
<1>4. CASE c.state # "CLOSED" /\ "RST" \notin seg.flags /\ "SYN" \notin seg.flags
  <2>1. CASE c.state = "SYN-SENT"
    BY <1>4, <2>1 DEF on_segment
  <2>2. CASE c.state = "SYN-RECEIVED"
    BY <1>4, <2>2, FinalAckIs DEF on_segment
  <2>3. CASE c.state \notin {"SYN-SENT", "SYN-RECEIVED"}
    <3>1. is_synchronised(c)
      BY <1>4, <2>3, ConnFields DEF is_synchronised, ConnState, AllStates
    <3> QED BY <1>4, <2>3, <3>1, SynchronisedIs DEF on_segment
  <2> QED BY <2>1, <2>2, <2>3
<1> QED BY <1>1, <1>2, <1>3, <1>4

-----------------------------------------------------------------------------
(* The application's calls                                                 *)

\* send(), which can_send guards.
LEMMA SendIs ==
    ASSUME NEW c \in ConnectionType, Good(c), can_send(c), NEW data \in Seq(Nat)
    PROVE  send(c, data) \in ConnectionType /\ Good(send(c, data))
<1> DEFINE sq == Write(c.sq, data)
           c1 == [c EXCEPT !.sq = sq]
           d == _flush(c1)
<1>1. send(c, data) = d
  BY DEF send, ConnectionType
<1>2. c.sq \in SendQueueType /\ c.retx \in Seq(EntryType)
  BY ConnFields
<1>3. /\ sq \in SendQueueType
      /\ \A most : SendOK(c.sq, c.retx, most) => SendOK(sq, c.retx, most)
  BY <1>2, WriteKeeps
<1> HIDE DEF sq
<1>4. /\ c1 \in ConnectionType /\ c1.state = c.state /\ c1.sq = sq /\ c1.retx = c.retx
      /\ c1.rtx <=> c.rtx
  BY <1>3 DEF ConnectionType
<1> HIDE DEF c1
<1>5. is_synchronised(c1) /\ c.state \notin {"CLOSED", "TIME-WAIT", "SYN-SENT", "SYN-RECEIVED"}
  BY <1>4 DEF can_send, is_synchronised, Synchronised
<1>6. Sender(c, InFlightMost(c.state))
  BY <1>5 DEF Good
<1>7. Sender(c1, InFlightMost(c.state))
  BY <1>3, <1>4, <1>6 DEF Sender
<1>8. d \in ConnectionType /\ d.state = c.state /\ Sender(d, InFlightMost(c.state)) /\ Fed(d)
  BY <1>4, <1>5, <1>7, MostIs, FlushIs
<1> HIDE DEF d
<1>9. Good(d)
  BY <1>5, <1>8 DEF Good
<1> QED BY <1>1, <1>8, <1>9

\* recv() of all that is ready.
LEMMA RecvIs ==
    ASSUME NEW c \in ConnectionType, Good(c)
    PROVE  recv(c, Len(c.rq.buf)) \in ConnectionType /\ Good(recv(c, Len(c.rq.buf)))
<1> DEFINE rq == AfterRead(c.rq, Len(c.rq.buf))
           c1 == [c EXCEPT !.rq = rq]
           d == recv(c, Len(c.rq.buf))
<1>1. rq \in RecvQueueType
  BY ConnFields, ReadType
<1>2. d = c1 \/ d = _send_ack(c1)
  BY DEF recv
<1> HIDE DEF rq, d
<1>3. c1 \in ConnectionType /\ SameSender(c1, c)
  BY <1>1 DEF ConnectionType, SameSender
<1> HIDE DEF c1
<1>4. _send_ack(c1) \in ConnectionType /\ SameSender(_send_ack(c1), c1)
  BY <1>3, SendAckIs
<1>5. Good(c1)
  BY <1>3, SameIsGood
<1>6. Good(_send_ack(c1))
  BY <1>4, <1>5, SameIsGood
<1>7. d \in ConnectionType /\ Good(d)
  BY <1>2, <1>3, <1>4, <1>5, <1>6
<1> QED BY <1>7 DEF d

LEMMA AbortIs ==
    ASSUME NEW c \in ConnectionType
    PROVE  abort(c) \in ConnectionType /\ Good(abort(c))
<1> DEFINE d == IF c.state \in {"CLOSED", "LISTEN"} THEN c ELSE EmitRst(c)
<1>1. d \in ConnectionType
  BY EmitRstIs
<1>2. abort(c) = _teardown(d)
  BY DEF abort
<1> HIDE DEF d
<1> QED BY <1>1, <1>2, TeardownIs

\* The FIN that close() sends, and the state it leaves the connection in.
LEMMA FinSentIs ==
    ASSUME NEW c \in ConnectionType, Good(c), can_send(c),
           NEW state \in {"FIN-WAIT-1", "LAST-ACK"}
    PROVE  /\ [_send_fin(c) EXCEPT !.state = state] \in ConnectionType
           /\ Good([_send_fin(c) EXCEPT !.state = state])
<1> DEFINE d == _send_fin(c)
           f == [d EXCEPT !.state = state]
           flags == {"ACK", "FIN"}
           data == << >>
           l == 1
           most == MostInFlight
           most1 == MostInFlight + 1
<1>1. /\ d \in ConnectionType
      /\ d.sq = [c.sq EXCEPT !.nxt = seq_add(c.sq.nxt, l)]
      /\ d.retx = RetxAdd(c.retx, c.sq.nxt, flags, data)
      /\ d.rtx <=> d.retx # << >>
  BY SendFinIs
<1>2. c.sq \in SendQueueType /\ c.retx \in Seq(EntryType) /\ flags \in SUBSET Flag
      /\ data \in Seq(Nat) /\ l \in Nat /\ Len(data) = 0 /\ l = 1
  BY ConnFields DEF Flag
<1>3. most \in Int /\ most1 \in Int /\ most1 = most + 1 /\ most1 <= MostInFlight + 1
  BY Limits
<1>4. SendOK(c.sq, c.retx, most)
  BY DEF can_send, Good, Sender, InFlightMost
<1>5. Ahead(c.sq) \in Nat /\ Ahead(c.sq) <= most
  BY <1>2, <1>3, <1>4, InFlightIs
<1>6. l = seq_len(Entry(c.sq.nxt, flags, data))
  <2>1. "SYN" \notin flags /\ "FIN" \in flags
    OBVIOUS
  <2>2. Entry(c.sq.nxt, flags, data).flags = flags /\ Entry(c.sq.nxt, flags, data).data = data
    BY DEF Entry
  <2> HIDE DEF flags, data
  <2>3. seq_len(Entry(c.sq.nxt, flags, data)) = 0 + 0 + 1
    BY <1>2, <2>1, <2>2 DEF seq_len
  <2> QED BY <1>2, <2>3
<1>7. Ahead(c.sq) + l <= most1 /\ Ahead(c.sq) + Len(data) <= MostInFlight
  BY <1>2, <1>3, <1>5
<1>8. data = << >> /\ l = 1
  OBVIOUS
<1>9. state \in ConnState /\ state \notin {"CLOSED", "TIME-WAIT", "SYN-SENT", "SYN-RECEIVED"}
      /\ InFlightMost(state) = most1
  BY DEF ConnState, AllStates, Synchronised, InFlightMost
<1> HIDE DEF d, flags, data, l, most, most1
<1>10. /\ RetxAdd(c.retx, c.sq.nxt, flags, data) # << >>
       /\ SendOK([c.sq EXCEPT !.nxt = seq_add(c.sq.nxt, l)],
                 RetxAdd(c.retx, c.sq.nxt, flags, data), most1)
  BY <1>2, <1>3, <1>4, <1>6, <1>7, <1>8, SendKeeps
<1>11. /\ f \in ConnectionType /\ f.state = state /\ f.sq = d.sq /\ f.retx = d.retx
       /\ f.rtx <=> d.rtx
  BY <1>1, <1>9 DEF ConnectionType
<1> HIDE DEF f
<1>12. Sender(f, most1) /\ Fed(f)
  BY <1>1, <1>10, <1>11 DEF Sender, Fed
<1>13. Good(f)
  BY <1>9, <1>11, <1>12 DEF Good
<1> QED BY <1>11, <1>13 DEF f, d

LEMMA CloseIs ==
    ASSUME NEW c \in ConnectionType, Good(c)
    PROVE  close(c) \in ConnectionType /\ Good(close(c))
<1> DEFINE closed == "CLOSED"
           f == [c EXCEPT !.state = closed]
<1>1. CASE c.state = "ESTABLISHED"
  <2> DEFINE state == "FIN-WAIT-1"
  <2>1. close(c) = [_send_fin(c) EXCEPT !.state = state]
    BY <1>1 DEF close
  <2>2. state \in {"FIN-WAIT-1", "LAST-ACK"} /\ can_send(c)
    BY <1>1 DEF can_send
  <2> HIDE DEF state
  <2> QED BY <2>1, <2>2, FinSentIs
<1>2. CASE c.state = "CLOSE-WAIT"
  <2> DEFINE state == "LAST-ACK"
  <2>1. close(c) = [_send_fin(c) EXCEPT !.state = state]
    BY <1>2 DEF close
  <2>2. state \in {"FIN-WAIT-1", "LAST-ACK"} /\ can_send(c)
    BY <1>2 DEF can_send
  <2> HIDE DEF state
  <2> QED BY <2>1, <2>2, FinSentIs
<1>3. CASE c.state \in {"SYN-SENT", "SYN-RECEIVED"}
  BY <1>3, AbortIs DEF close
<1>4. CASE c.state \in {"FIN-WAIT-1", "FIN-WAIT-2", "CLOSING", "LAST-ACK", "TIME-WAIT"}
  BY <1>4 DEF close
<1>5. CASE c.state = "CLOSED"
  <2>1. close(c) = f
    BY <1>5 DEF close
  <2>2. closed \in ConnState /\ closed = "CLOSED"
    BY DEF ConnState, AllStates
  <2> HIDE DEF closed
  <2>3. f \in ConnectionType /\ f.state = closed
    BY <2>2 DEF ConnectionType
  <2> HIDE DEF f
  <2>4. Good(f)
    BY <2>2, <2>3 DEF Good
  <2> QED BY <2>1, <2>3, <2>4
<1> QED
  BY <1>1, <1>2, <1>3, <1>4, <1>5, ConnFields DEF ConnState, AllStates, Synchronised

-----------------------------------------------------------------------------
(* The timers                                                              *)

\* The retransmission timer.
LEMMA RetransmitTimeoutIs ==
    ASSUME NEW c \in ConnectionType, Good(c)
    PROVE  /\ _on_retransmit_timeout(c) \in ConnectionType
           /\ Good(_on_retransmit_timeout(c))
<1> DEFINE d == _on_retransmit_timeout(c)
           yes == TRUE
           no == FALSE
<1>1. CASE c.retx = << >>
  <2> DEFINE f == [c EXCEPT !.rtx = no]
  <2>1. d = f
    BY <1>1 DEF _on_retransmit_timeout
  <2>2. no \in BOOLEAN /\ ~no
    OBVIOUS
  <2> HIDE DEF no
  <2>3. /\ f \in ConnectionType /\ f.state = c.state /\ f.iss = c.iss /\ f.sq = c.sq
        /\ f.retx = c.retx
        /\ f.persist <=> c.persist
        /\ ~f.rtx
    BY <2>2 DEF ConnectionType
  <2> HIDE DEF f
  <2>4. Good(f)
    BY <1>1, <2>3 DEF Good, Sender, Fed, Opening
  <2> HIDE DEF d
  <2> QED BY <2>1, <2>3, <2>4 DEF d
<1>2. CASE c.retx # << >> /\ d = _teardown(c)
  <2> HIDE DEF d
  <2> QED BY <1>2, TeardownIs DEF d
<1>3. CASE c.retx # << >> /\ d # _teardown(c)
  <2> DEFINE c1 == ResendOldest(c)
             reno == on_timeout(c1.reno)
             f == [c1 EXCEPT !.reno = reno, !.rtx = yes]
  <2>1. d = f
    BY <1>3 DEF _on_retransmit_timeout
  <2>2. /\ c1 \in ConnectionType /\ c1.state = c.state /\ c1.iss = c.iss /\ c1.sq = c.sq
        /\ c1.retx # << >>
        /\ \A most : SendOK(c.sq, c.retx, most) => SendOK(c.sq, c1.retx, most)
    BY <1>3, ResendIs
  <2> HIDE DEF c1
  <2>3. reno \in RenoType
    <3>1. c1.reno \in RenoType /\ c.iss \in SeqNum
      BY <2>2, ConnFields
    <3> QED BY <3>1, OnDuplicateType
  <2>4. yes \in BOOLEAN /\ yes
    OBVIOUS
  <2> HIDE DEF reno, yes
  <2>5. /\ f \in ConnectionType /\ f.state = c1.state /\ f.iss = c1.iss /\ f.sq = c1.sq
        /\ f.retx = c1.retx
        /\ f.rtx
    BY <2>2, <2>3, <2>4 DEF ConnectionType
  <2> HIDE DEF f
  <2>6. Good(f)
    BY <2>2, <2>5 DEF Good, Sender, Fed, Opening
  <2> HIDE DEF d
  <2> QED BY <2>1, <2>5, <2>6 DEF d
<1> HIDE DEF d
<1> QED BY <1>1, <1>2, <1>3

\* The probe of a closed window.
LEMMA ProbeIs ==
    ASSUME NEW c \in ConnectionType, NEW most \in Mosts
    PROVE  /\ Probe(c) \in ConnectionType /\ Probe(c).state = c.state
           /\ Sender(c, most) => Sender(Probe(c), most)
<1>1. CASE c.retx # << >>
  <2> DEFINE d == ResendOldest(c)
  <2>1. Probe(c) = d
    BY <1>1 DEF Probe
  <2>2. /\ d \in ConnectionType /\ d.state = c.state /\ d.sq = c.sq /\ d.retx # << >>
        /\ d.rtx <=> c.rtx
        /\ SendOK(c.sq, c.retx, most) => SendOK(c.sq, d.retx, most)
    BY <1>1, ResendIs
  <2> HIDE DEF d
  <2> QED BY <1>1, <2>1, <2>2 DEF Sender
<1>2. CASE c.retx = << >>
  <2> DEFINE one == 1
             data == Peek(c.sq, c.sq.nxt, one)
  <2>1. Probe(c) = IF data = << >> THEN c ELSE SendNew(c, data)
    BY <1>2 DEF Probe
  <2>2. c.sq \in SendQueueType /\ one \in Int /\ one = 1
    BY ConnFields
  <2> HIDE DEF one
  <2>3. /\ data \in Seq(Nat) /\ Len(data) \in Nat
        /\ data # << >> => /\ Len(data) <= one
                           /\ Ahead(c.sq) + Len(data) <= Len(c.sq.buf)
                           /\ \A j \in 1 .. Len(data) : data[j] = c.sq.buf[Ahead(c.sq) + j]
    BY <2>2, PeekIs
  <2> HIDE DEF data
  <2>4. CASE data = << >>
    BY <2>1, <2>4
  <2>5. CASE data # << >>
    <3>1. SendNew(c, data) \in ConnectionType /\ SendNew(c, data).state = c.state
      BY <2>3, SendNewIs
    <3>2. ASSUME Sender(c, most) PROVE Sender(SendNew(c, data), most)
      <4>1. most \in Int
        BY Limits DEF Mosts
      <4>2. Ahead(c.sq) = 0
        BY <1>2, <2>2, <3>2, <4>1, InFlightIs DEF Sender
      <4>3. Len(data) <= LongestPayload /\ Ahead(c.sq) + Len(data) <= MostInFlight
        BY <2>2, <2>3, <2>5, <4>2, Limits
      <4> QED BY <2>3, <2>5, <3>2, <4>3, SendNewKeeps
    <3> QED BY <2>1, <2>5, <3>1, <3>2
  <2> QED BY <2>4, <2>5
<1> QED BY <1>1, <1>2

\* The persist timer.
LEMMA PersistTimeoutIs ==
    ASSUME NEW c \in ConnectionType, Good(c)
    PROVE  _on_persist_timeout(c) \in ConnectionType /\ Good(_on_persist_timeout(c))
<1> DEFINE d == _on_persist_timeout(c)
           no == FALSE
           yes == TRUE
           c1 == [c EXCEPT !.persist = no]
           probed == Probe(c)
           c2 == [probed EXCEPT !.persist = yes]
<1>1. \/ d = _flush(c1)
      \/ ~is_synchronised(c) /\ d = c1
      \/ is_synchronised(c) /\ d = c2
  BY DEF _on_persist_timeout
<1>2. no \in BOOLEAN /\ yes \in BOOLEAN /\ yes
  OBVIOUS
<1> HIDE DEF no, yes, d
<1>3. /\ c1 \in ConnectionType /\ c1.state = c.state /\ c1.iss = c.iss /\ c1.sq = c.sq
      /\ c1.retx = c.retx
      /\ c1.rtx <=> c.rtx
  BY <1>2 DEF ConnectionType
<1> HIDE DEF c1
<1>4. /\ probed \in ConnectionType /\ probed.state = c.state
      /\ Sender(c, InFlightMost(c.state)) => Sender(probed, InFlightMost(c.state))
  BY MostIs, ProbeIs
<1> HIDE DEF probed
<1>5. /\ c2 \in ConnectionType /\ c2.state = probed.state /\ c2.sq = probed.sq
      /\ c2.retx = probed.retx
      /\ c2.rtx <=> probed.rtx
      /\ c2.persist
  BY <1>2, <1>4 DEF ConnectionType
<1> HIDE DEF c2
<1>6. Sender(c, InFlightMost(c.state)) => Sender(c1, InFlightMost(c.state))
  BY <1>3 DEF Sender
<1>7. ASSUME ~is_synchronised(c) PROVE Good(c1)
  <2>1. c.state \in {"CLOSED", "SYN-SENT", "SYN-RECEIVED"}
    BY <1>7, ConnFields DEF is_synchronised, ConnState, AllStates
  <2> QED BY <1>3, <1>6, <2>1 DEF Good, Opening, Fed
<1>8. ASSUME is_synchronised(c) PROVE Good(_flush(c1))
  <2>1. is_synchronised(c1) /\ c.state \notin {"SYN-SENT", "SYN-RECEIVED"}
    BY <1>3, <1>8 DEF is_synchronised, Synchronised
  <2>2. _flush(c1).state = c.state
    BY <1>3, FlushIs
  <2>3. Sender(c1, InFlightMost(c.state))
           => Sender(_flush(c1), InFlightMost(c.state)) /\ Fed(_flush(c1))
    BY <1>3, <2>1, MostIs, FlushIs
  <2> QED BY <1>6, <2>1, <2>2, <2>3 DEF Good
<1>9. ASSUME is_synchronised(c) PROVE Good(c2)
  <2>1. c.state \notin {"SYN-SENT", "SYN-RECEIVED"}
    BY <1>9 DEF is_synchronised, Synchronised
  <2>2. Sender(c, InFlightMost(c.state)) => Sender(c2, InFlightMost(c.state)) /\ Fed(c2)
    BY <1>4, <1>5 DEF Sender, Fed
  <2> QED BY <1>4, <1>5, <2>1, <2>2 DEF Good
<1>10. _flush(c1) \in ConnectionType /\ Good(_flush(c1))
  <2>1. ~is_synchronised(c) => _flush(c1) = c1
    BY <1>3, FlushIs DEF is_synchronised
  <2> QED BY <1>3, <1>7, <1>8, <2>1, FlushIs
<1>11. d \in ConnectionType /\ Good(d)
  BY <1>1, <1>3, <1>5, <1>7, <1>9, <1>10
<1> QED BY <1>11 DEF d

LEMMA OnTickIs ==
    ASSUME NEW c \in ConnectionType, Good(c), NEW due
    PROVE  on_tick(c, due) \in ConnectionType /\ Good(on_tick(c, due))
<1> DEFINE c1 == IF "dack" \in due /\ c.dack THEN _send_ack(c) ELSE c
           c2 == IF "rtx" \in due /\ c1.rtx THEN _on_retransmit_timeout(c1) ELSE c1
           c3 == IF "persist" \in due /\ c2.persist THEN _on_persist_timeout(c2) ELSE c2
           c4 == IF "tw" \in due /\ c3.tw /\ c3.state = "TIME-WAIT" THEN _teardown(c3) ELSE c3
<1>1. on_tick(c, due) = c4
  BY DEF on_tick
<1>2. c1 \in ConnectionType /\ Good(c1)
  BY SendAckIs, SameIsGood
<1> HIDE DEF c1
<1>3. c2 \in ConnectionType /\ Good(c2)
  BY <1>2, RetransmitTimeoutIs
<1> HIDE DEF c2
<1>4. c3 \in ConnectionType /\ Good(c3)
  BY <1>3, PersistTimeoutIs
<1> HIDE DEF c3
<1>5. c4 \in ConnectionType /\ Good(c4)
  BY <1>4, TeardownIs
<1> HIDE DEF c4
<1> QED BY <1>1, <1>5

-----------------------------------------------------------------------------
(* The pair of connections                                                 *)

\* The inductive invariant.
Connections(f) == f \in [End -> ConnectionType] /\ \A p \in End : Good(f[p])
Segments(w) == w \in [End -> Seq(SegmentType)]
Inv ==
    /\ Connections(conn)
    /\ Segments(wire)
    /\ wrote \in [End -> Nat]

\* What Store leaves, whose out is empty again.
LEMMA StoredIs ==
    ASSUME NEW f, Connections(f), NEW p \in End, NEW c \in ConnectionType, Good(c)
    PROVE  Connections([f EXCEPT ![p] = [c EXCEPT !.out = << >>]])
<1> DEFINE none == << >>
           d == [c EXCEPT !.out = none]
<1>1. none \in Seq(SegmentType)
  OBVIOUS
<1> HIDE DEF none
<1>2. d \in ConnectionType /\ SameSender(d, c)
  BY <1>1 DEF ConnectionType, SameSender
<1> HIDE DEF d
<1>3. Good(d)
  BY <1>2, SameIsGood
<1>4. Connections([f EXCEPT ![p] = d])
  BY <1>2, <1>3 DEF Connections
<1> QED BY <1>4 DEF d, none

\* What Sending and Replying leave on the wire.
LEMMA SentIs ==
    ASSUME NEW w, Segments(w), NEW p \in End, NEW rest \in Seq(SegmentType),
           NEW segs \in Seq(SegmentType)
    PROVE  /\ Segments([w EXCEPT ![Other(p)] = @ \o segs])
           /\ Segments([w EXCEPT ![p] = rest, ![Other(p)] = @ \o segs])
<1>1. Other(p) \in End /\ w \in [End -> Seq(SegmentType)]
  BY DEF Other, End, Segments
<1>2. w[Other(p)] \in Seq(SegmentType)
  BY <1>1
<1>3. w[Other(p)] \o segs \in Seq(SegmentType)
  BY <1>2, ConcatProperties
<1> DEFINE v == [w EXCEPT ![p] = rest]
<1>4. Other(p) # p
  BY PairAssumption DEF Other, End
<1>5. v \in [End -> Seq(SegmentType)] /\ v[Other(p)] = w[Other(p)]
  BY <1>1, <1>4
<1>6. [w EXCEPT ![p] = rest, ![Other(p)] = @ \o segs]
         = [v EXCEPT ![Other(p)] = v[Other(p)] \o segs]
  BY <1>1, <1>4
<1> HIDE DEF v
<1> QED BY <1>1, <1>3, <1>5, <1>6 DEF Segments

\* Initially.
LEMMA InitInv == Init => Inv
<1> SUFFICES ASSUME Init PROVE Inv
  OBVIOUS
<1>1. Connections(conn)
  <2> DEFINE c == NewConnection
  <2>1. c \in ConnectionType /\ Good(c) /\ conn = [p \in End |-> c]
    BY NewConnectionIs DEF Init
  <2> HIDE DEF c
  <2> QED BY <2>1 DEF Connections
<1>2. Segments(wire)
  <2> DEFINE none == << >>
  <2>1. none \in Seq(SegmentType) /\ wire = [p \in End |-> none]
    BY DEF Init
  <2> HIDE DEF none
  <2> QED BY <2>1 DEF Segments
<1>3. wrote \in [End -> Nat]
  BY DEF Init
<1> QED BY <1>1, <1>2, <1>3 DEF Inv

\* A call on the connection of p that leaves it as c.
LEMMA CallKeeps ==
    ASSUME Inv, NEW p \in End, NEW c \in ConnectionType, Good(c), Store(p, c),
           \/ Sending(p, c.out)
           \/ \E rest \in Seq(SegmentType) : Replying(p, rest, c.out)
    PROVE  Connections(conn') /\ Segments(wire')
<1>1. Connections(conn')
  <2> DEFINE f == conn
  <2>1. Connections(f)
    BY DEF Inv
  <2> HIDE DEF f
  <2>2. Connections([f EXCEPT ![p] = [c EXCEPT !.out = << >>]])
    BY <2>1, StoredIs
  <2> QED BY <2>2 DEF Store, f
<1>2. Segments(wire')
  <2> DEFINE w == wire
             segs == c.out
  <2>1. Segments(w) /\ segs \in Seq(SegmentType)
    BY ConnFields DEF Inv
  <2>2. CASE Sending(p, c.out)
    <3>1. wire' = [w EXCEPT ![Other(p)] = @ \o segs]
      BY <2>2 DEF Sending
    <3> HIDE DEF w, segs
    <3>2. Segments([w EXCEPT ![Other(p)] = @ \o segs])
      BY <2>1, SentIs
    <3> QED BY <3>1, <3>2
  <2>3. CASE \E rest \in Seq(SegmentType) : Replying(p, rest, c.out)
    <3>1. PICK rest \in Seq(SegmentType) : Replying(p, rest, c.out)
      BY <2>3
    <3>2. wire' = [w EXCEPT ![p] = rest, ![Other(p)] = @ \o segs]
      BY <3>1 DEF Replying
    <3> HIDE DEF w, segs
    <3>3. Segments([w EXCEPT ![p] = rest, ![Other(p)] = @ \o segs])
      BY <2>1, SentIs
    <3> QED BY <3>2, <3>3
  <2> QED BY <2>2, <2>3
<1> QED BY <1>1, <1>2

\* The connection of p.
LEMMA OwnIs ==
    ASSUME Inv, NEW p \in End
    PROVE  conn[p] \in ConnectionType /\ Good(conn[p]) /\ wrote[p] \in Nat
           /\ wire[p] \in Seq(SegmentType)
BY DEF Inv, Connections, Segments

\* The application's actions.
LEMMA ConnectKeeps ==
    ASSUME Inv, NEW p \in End, Connect(p) \/ ConnectTimeout(p)
    PROVE  Inv'
<1>1. CASE Connect(p)
  <2> DEFINE c == connect(conn[p], ISS[p])
  <2>1. Store(p, c) /\ Sending(p, c.out) /\ conn[p] = NewConnection /\ wrote' = wrote
    BY <1>1 DEF Connect
  <2>2. ISS[p] \in SeqNum
    BY PairAssumption
  <2>3. c \in ConnectionType /\ Good(c)
    BY <2>1, <2>2, ConnectIs
  <2> HIDE DEF c
  <2>4. Connections(conn') /\ Segments(wire')
    BY <2>1, <2>3, CallKeeps
  <2> QED BY <2>1, <2>4 DEF Inv
<1>2. CASE ConnectTimeout(p)
  <2> DEFINE c == abort(conn[p])
  <2>1. Store(p, c) /\ Sending(p, c.out) /\ wrote' = wrote
    BY <1>2 DEF ConnectTimeout
  <2>2. c \in ConnectionType /\ Good(c)
    BY OwnIs, AbortIs
  <2> HIDE DEF c
  <2>3. Connections(conn') /\ Segments(wire')
    BY <2>1, <2>2, CallKeeps
  <2> QED BY <2>1, <2>3 DEF Inv
<1> QED BY <1>1, <1>2

LEMMA SendActionKeeps ==
    ASSUME Inv, NEW p \in End, Send(p)
    PROVE  Inv'
<1>1. PICK n \in 1 .. ToSend[p] - wrote[p] :
         LET data == [i \in 1 .. n |-> wrote[p] + i]
         IN  /\ Call(p, send(conn[p], data))
             /\ wrote' = [wrote EXCEPT ![p] = @ + Least(n, Room(conn[p].sq))]
  BY DEF Send
<1> DEFINE data == [i \in 1 .. n |-> wrote[p] + i]
           c == send(conn[p], data)
           more == Least(n, Room(conn[p].sq))
<1>2. conn[p] \in ConnectionType /\ Good(conn[p]) /\ wrote[p] \in Nat /\ ToSend[p] \in Nat
  BY OwnIs, PairAssumption
<1>3. n \in Nat /\ data \in Seq(Nat)
  BY <1>2
<1>4. can_send(conn[p])
  BY DEF Send, CanSend, WantsToSend
<1>5. Store(p, c) /\ Sending(p, c.out) /\ wrote' = [wrote EXCEPT ![p] = @ + more]
  BY <1>1 DEF Call
<1>6. more \in Nat
  <2> DEFINE b == Len(conn[p].sq.buf)
  <2>1. b \in Nat /\ SendCapacity \in Nat
    BY <1>2, ConnFields, SendFields, Limits
  <2>2. more = Least(n, Most(SendCapacity - b, 0))
    BY DEF Room
  <2> HIDE DEF b, more
  <2> QED BY <1>3, <2>1, <2>2 DEF Least, Most
<1> HIDE DEF data, more
<1>7. c \in ConnectionType /\ Good(c)
  BY <1>2, <1>3, <1>4, SendIs
<1> HIDE DEF c
<1>8. Connections(conn') /\ Segments(wire')
  BY <1>5, <1>7, CallKeeps
<1>9. wrote' \in [End -> Nat]
  <2>1. wrote \in [End -> Nat] /\ wrote[p] + more \in Nat
    BY <1>2, <1>6 DEF Inv
  <2> QED BY <1>5, <2>1
<1> QED BY <1>8, <1>9 DEF Inv

LEMMA OtherCallsKeep ==
    ASSUME Inv, NEW p \in End, Recv(p) \/ Close(p) \/ Abort(p) \/ Tick(p)
    PROVE  Inv'
<1> DEFINE c0 == conn[p]
<1>1. c0 \in ConnectionType /\ Good(c0)
  BY OwnIs
<1>2. \/ Call(p, recv(c0, Len(c0.rq.buf)))
      \/ Call(p, close(c0))
      \/ Call(p, abort(c0))
      \/ \E due \in SUBSET Armed(c0) : Call(p, on_tick(c0, due))
  BY DEF Recv, Close, Abort, Tick
<1>3. wrote' = wrote
  BY DEF Recv, Close, Abort, Tick
<1> HIDE DEF c0
<1>4. PICK c : c \in ConnectionType /\ Good(c) /\ Call(p, c)
  BY <1>1, <1>2, RecvIs, CloseIs, AbortIs, OnTickIs
<1>5. Store(p, c) /\ Sending(p, c.out)
  BY <1>4 DEF Call
<1>6. Connections(conn') /\ Segments(wire')
  BY <1>4, <1>5, CallKeeps
<1> QED BY <1>3, <1>6 DEF Inv

\* Arrival: whoever the segment is for, it is a segment and so is what stays.
LEMMA DispatchKeeps ==
    ASSUME Inv, NEW p \in End, NEW seg \in SegmentType, NEW rest \in Seq(SegmentType),
           Dispatch(p, seg, rest)
    PROVE  Inv'
<1>1. wrote' = wrote
  BY DEF Dispatch
<1>2. ASSUME Connections(conn') /\ Segments(wire') PROVE Inv'
  BY <1>1, <1>2 DEF Inv
<1>3. conn[p] \in ConnectionType /\ Good(conn[p]) /\ ISS[p] \in SeqNum
  BY OwnIs, PairAssumption
<1>4. ASSUME conn' = conn, NEW segs \in Seq(SegmentType), Replying(p, rest, segs)
      PROVE  Connections(conn') /\ Segments(wire')
  <2> DEFINE w == wire
  <2>1. Segments(w)
    BY DEF Inv
  <2>2. wire' = [w EXCEPT ![p] = rest, ![Other(p)] = @ \o segs]
    BY <1>4 DEF Replying
  <2> HIDE DEF w
  <2>3. Segments([w EXCEPT ![p] = rest, ![Other(p)] = @ \o segs])
    BY <2>1, SentIs
  <2>4. Connections(conn)
    BY DEF Inv
  <2> QED BY <1>4, <2>2, <2>3, <2>4
<1>5. CASE ToConnection(p, seg, rest)
  <2> DEFINE c == on_segment(conn[p], seg)
  <2>1. Store(p, c) /\ Replying(p, rest, c.out)
    BY <1>5 DEF ToConnection
  <2>2. c \in ConnectionType /\ Good(c)
    BY <1>3, OnSegmentIs
  <2> HIDE DEF c
  <2>3. Connections(conn') /\ Segments(wire')
    BY <2>1, <2>2, CallKeeps
  <2> QED BY <1>2, <2>3
<1>6. CASE ToListener(p, seg, rest) /\ conn' # conn
  <2> DEFINE c == _begin_passive_open(NewConnection, seg, ISS[p])
  <2>1. Store(p, c) /\ Replying(p, rest, c.out)
    BY <1>6 DEF ToListener
  <2>2. c \in ConnectionType /\ Good(c)
    BY <1>3, PassiveOpenIs
  <2> HIDE DEF c
  <2>3. Connections(conn') /\ Segments(wire')
    BY <2>1, <2>2, CallKeeps
  <2> QED BY <1>2, <2>3
<1>7. CASE ToListener(p, seg, rest) /\ conn' = conn
  <2> DEFINE c == _begin_passive_open(NewConnection, seg, ISS[p])
             none == << >>
  <2>1. \/ Store(p, c) /\ Replying(p, rest, c.out)
        \/ Replying(p, rest, none)
    BY <1>7 DEF ToListener
  <2>2. c \in ConnectionType /\ Good(c) /\ none \in Seq(SegmentType)
    BY <1>3, PassiveOpenIs
  <2> HIDE DEF c, none
  <2>3. c.out \in Seq(SegmentType)
    BY <2>2, ConnFields
  <2>4. Connections(conn') /\ Segments(wire')
    BY <1>4, <1>7, <2>1, <2>2, <2>3
  <2> QED BY <1>2, <2>4
<1>8. CASE ToNobody(p, seg, rest)
  <2> DEFINE segs == IF "RST" \in seg.flags THEN << >> ELSE <<RstSegment>>
  <2>1. conn' = conn /\ Replying(p, rest, segs)
    BY <1>8 DEF ToNobody
  <2>2. segs \in Seq(SegmentType)
    <3> DEFINE rst == RstSegment
    <3>1. rst \in SegmentType
      BY RstIs
    <3> HIDE DEF rst
    <3>2. <<rst>> \in Seq(SegmentType) /\ << >> \in Seq(SegmentType)
      BY <3>1
    <3> QED BY <3>2 DEF rst
  <2> HIDE DEF segs
  <2>3. Connections(conn') /\ Segments(wire')
    BY <1>4, <2>1, <2>2
  <2> QED BY <1>2, <2>3
<1> QED BY <1>5, <1>6, <1>7, <1>8 DEF Dispatch

\* The wire's actions.
LEMMA WireKeeps ==
    ASSUME Inv, NEW p \in End, Deliver(p) \/ Lose(p) \/ Duplicate(p) \/ Overtake(p)
    PROVE  Inv'
<1> DEFINE w == wire[p]
<1>1. w \in Seq(SegmentType)
  BY OwnIs
<1>2. w # << >> => Head(w) \in SegmentType /\ Tail(w) \in Seq(SegmentType)
  <2> HIDE DEF w
  <2> QED BY <1>1, HeadTailProperties
<1>3. CASE Deliver(p)
  <2>1. w # << >> /\ Dispatch(p, Head(w), Tail(w))
    BY <1>3 DEF Deliver
  <2> HIDE DEF w
  <2> QED BY <1>2, <2>1, DispatchKeeps
<1>4. CASE Lose(p)
  <2>1. w # << >> /\ wire' = [wire EXCEPT ![p] = Tail(w)] /\ conn' = conn /\ wrote' = wrote
    BY <1>4 DEF Lose, Inv, Segments
  <2> HIDE DEF w
  <2>2. wire \in [End -> Seq(SegmentType)]
    BY DEF Inv, Segments
  <2>3. Segments(wire')
    BY <1>2, <2>1, <2>2 DEF Segments
  <2> QED BY <2>1, <2>3 DEF Inv
<1>5. CASE Duplicate(p)
  <2>1. w # << >> /\ Dispatch(p, Head(w), w)
    BY <1>5 DEF Duplicate
  <2> HIDE DEF w
  <2> QED BY <1>1, <1>2, <2>1, DispatchKeeps
<1>6. CASE Overtake(p)
  <2> DEFINE seg == w[2]
             head == <<Head(w)>>
             tail == SubSeq(w, 3, Len(w))
             rest == head \o tail
  <2>1. Len(w) >= 2 /\ Dispatch(p, seg, rest)
    BY <1>6 DEF Overtake
  <2>2. seg \in SegmentType /\ head \in Seq(SegmentType) /\ tail \in Seq(SegmentType)
    <3> HIDE DEF w
    <3>1. w # << >> /\ Len(w) \in Nat /\ 2 \in 1 .. Len(w)
      BY <1>1, <2>1, EmptySeq, LenProperties
    <3>2. seg \in SegmentType
      BY <1>1, <3>1, ElementOfSeq
    <3>3. head \in Seq(SegmentType)
      BY <1>2, <3>1
    <3>4. tail \in Seq(SegmentType)
      <4>1. \A i \in 3 .. Len(w) : w[i] \in SegmentType
        BY <1>1, <3>1, ElementOfSeq
      <4> QED BY <1>1, <3>1, <4>1, SubSeqProperties
    <3> QED BY <3>2, <3>3, <3>4
  <2> HIDE DEF seg, head, tail
  <2>3. rest \in Seq(SegmentType)
    BY <2>2, ConcatProperties
  <2> HIDE DEF w, rest
  <2> QED BY <2>1, <2>2, <2>3, DispatchKeeps
<1> QED BY <1>3, <1>4, <1>5, <1>6

LEMMA NextInv == Inv /\ [Next]_vars => Inv'
<1> SUFFICES ASSUME Inv, [Next]_vars PROVE Inv'
  OBVIOUS
<1>1. CASE UNCHANGED vars
  BY <1>1 DEF vars, Inv
<1>2. CASE Next
  <2>1. PICK p \in End :
          \/ Connect(p) \/ ConnectTimeout(p)
          \/ ConnectReturns(p)
          \/ Send(p)
          \/ Recv(p) \/ Close(p) \/ Abort(p) \/ Tick(p)
          \/ Deliver(p) \/ Lose(p) \/ Duplicate(p) \/ Overtake(p)
    BY <1>2 DEF Next
  <2>2. CASE ConnectReturns(p)
    BY <2>2 DEF ConnectReturns, Inv
  <2> QED
    BY <2>1, <2>2, ConnectKeeps, SendActionKeeps, OtherCallsKeep, WireKeeps
<1> QED BY <1>1, <1>2

\* The inductive invariant holds in every behaviour.
LEMMA InvHolds == Spec => []Inv
BY InitInv, NextInv, PTL DEF Spec

-----------------------------------------------------------------------------
(* The theorems                                                            *)

\* An outstanding entry that reaches over a place covers it, with the byte the
\* send queue holds there.
LEMMA EntryCovers ==
    ASSUME NEW sq \in SendQueueType, NEW e \in EntryType, EntryOK(e, sq), NEW k \in Nat,
           Place(e, sq) <= k, k < Place(e, sq) + seq_len(e)
    PROVE  Covers(e, sq, k)
<1> DEFINE at == Place(e, sq)
           l == seq_len(e)
           u == sq.una
           seq == seq_add(u, k)
           i == seq_diff(seq, e.seq) + 1
<1>1. /\ at \in Int /\ l \in Nat /\ u \in SeqNum /\ k \in Int
      /\ e.seq = seq_add(u, at) /\ seq_end(e) = seq_add(u, at + l)
  BY EntryFields, SendFields
<1>2. l <= LongestPayload /\ LongestPayload < SEQ_HALF /\ SEQ_HALF \in Nat /\ LongestPayload \in Nat
  BY <1>1, Limits, Halves DEF EntryOK
<1>3. at <= k /\ k < at + l
  OBVIOUS
<1> HIDE DEF at, l, u
<1>4. /\ at + l \in Int
      /\ -SEQ_HALF < at - k /\ at - k < SEQ_HALF
      /\ -SEQ_HALF < k - at /\ k - at < SEQ_HALF
      /\ -SEQ_HALF < (at + l) - k /\ (at + l) - k < SEQ_HALF
  BY <1>1, <1>2, <1>3
<1>5. seq_le(e.seq, seq)
  BY <1>1, <1>3, <1>4, FromBase
<1>6. seq_gt(seq_end(e), seq)
  <2> DEFINE end == at + l
  <2>1. end \in Int /\ -SEQ_HALF < end - k /\ end - k < SEQ_HALF /\ end > k
    BY <1>1, <1>3, <1>4
  <2>2. seq_end(e) = seq_add(u, end)
    BY <1>1
  <2> HIDE DEF end
  <2> QED BY <1>1, <2>1, <2>2, FromBase
<1>7. seq_diff(seq, e.seq) = k - at
  BY <1>1, <1>4, FromBase
<1>8. seq_between(seq, e.seq, seq_end(e))
  <2> HIDE DEF seq
  <2> QED BY <1>5, <1>6 DEF seq_between, seq_le, seq_ge, seq_gt
<1>9. ASSUME i \in 1 .. Len(e.data) PROVE k < Len(sq.buf) /\ e.data[i] = sq.buf[k + 1]
  <2>1. at + i = k + 1 /\ at + i > 0
    BY <1>1, <1>7
  <2> HIDE DEF i
  <2>2. at + i <= Len(sq.buf) /\ e.data[i] = sq.buf[at + i]
    BY <1>9, <2>1 DEF EntryOK, at
  <2>3. Len(sq.buf) \in Nat
    BY SendFields
  <2> QED BY <1>1, <2>1, <2>2, <2>3
<1> HIDE DEF i
<1> QED BY <1>8, <1>9 DEF Covers, i, seq, u

\* A good connection can retransmit all it has in flight and has a timer behind
\* what it has buffered.
LEMMA GoodIsCovered ==
    ASSUME NEW c \in ConnectionType, Good(c), c.state \notin {"CLOSED", "TIME-WAIT"}
    PROVE  /\ seq_le(c.sq.una, c.sq.nxt)
           /\ \A k \in 0 .. InFlight(c.sq) - 1 :
                 \E i \in 1 .. Len(c.retx) : Covers(c.retx[i], c.sq, k)
           /\ c.rtx = (c.retx # << >>)
           /\ c.sq.buf # << >> => c.rtx \/ c.persist
<1> DEFINE most == InFlightMost(c.state)
           sq == c.sq
           retx == c.retx
<1>1. Sender(c, most) /\ Fed(c)
  BY DEF Good
<1>2. /\ sq \in SendQueueType /\ retx \in Seq(EntryType) /\ c.rtx \in BOOLEAN
      /\ SendOK(sq, retx, most)
  BY <1>1, ConnFields DEF Sender
<1>3. most \in Int
  BY MostIs, Limits DEF Mosts
<1>4. Ahead(sq) \in Nat /\ Ahead(sq) <= most /\ InFlight(sq) = Ahead(sq)
  BY <1>2, <1>3, InFlightIs
<1>5. most <= MostInFlight + 1 /\ MostInFlight \in Nat /\ SEQ_HALF \in Nat
      /\ MostInFlight + 1 < SEQ_HALF
  BY MostIs, Limits, Halves DEF Mosts
<1>6. c.rtx = (retx # << >>)
  BY <1>1, <1>2, Zenon DEF Sender
<1>7. c.sq.buf # << >> => c.rtx \/ c.persist
  BY <1>1 DEF Sender, Fed
<1> HIDE DEF sq, retx, most
<1>8. seq_le(sq.una, sq.nxt)
  <2> DEFINE zero == 0
             a == Ahead(sq)
             u == sq.una
  <2>1. u \in SeqNum /\ u \in Int /\ sq.nxt \in SeqNum
    BY <1>2, SendFields
  <2>2. u = seq_add(u, zero)
    BY <2>1, Halves DEF seq_add, SeqNum
  <2>3. sq.nxt = seq_add(u, a)
    <3> DEFINE e == Entry(sq.nxt, {}, << >>)
    <3>1. e \in EntryType
      BY <2>1 DEF Entry, EntryType
    <3> QED BY <1>2, <3>1, EntryFields
  <2>4. a \in Int /\ zero \in Int /\ -SEQ_HALF < zero - a /\ zero - a < SEQ_HALF /\ zero <= a
    BY <1>3, <1>4, <1>5
  <2> HIDE DEF zero, a, u
  <2>5. seq_le(seq_add(u, zero), seq_add(u, a))
    BY <2>1, <2>4, FromBase
  <2> QED BY <2>2, <2>3, <2>5 DEF u
<1>9. ASSUME NEW k \in 0 .. InFlight(sq) - 1
      PROVE  \E i \in 1 .. Len(retx) : Covers(retx[i], sq, k)
  <2>1. k \in Nat /\ k \in 0 .. Ahead(sq) - 1
    BY <1>4
  <2>2. PICK i \in 1 .. Len(retx) :
           Place(retx[i], sq) <= k /\ k < Place(retx[i], sq) + seq_len(retx[i])
    BY <1>2, <2>1 DEF SendOK
  <2>3. retx[i] \in EntryType
    BY <1>2, ElementOfSeq
  <2>4. EntryOK(retx[i], sq)
    BY <1>2 DEF SendOK
  <2>5. Covers(retx[i], sq, k)
    BY <1>2, <2>1, <2>2, <2>3, <2>4, EntryCovers
  <2> QED BY <2>5
<1> QED BY <1>6, <1>7, <1>8, <1>9 DEF sq, retx

\* Everything in flight can be retransmitted: in every behaviour of the two
\* stacks, whatever the wire loses, duplicates and reorders and whichever timers
\* expire, snd_nxt is not behind snd_una, RetransmitQueue holds the bytes between
\* them as SendQueue does, and its timer runs exactly while it holds something.
THEOREM RetransmittableCorrect == Spec => []OutstandingCovered
<1>1. Inv => OutstandingCovered
  <2> SUFFICES ASSUME Inv, NEW p \in End, conn[p].state \notin {"CLOSED", "TIME-WAIT"}
               PROVE  /\ seq_le(conn[p].sq.una, conn[p].sq.nxt)
                      /\ \A k \in 0 .. InFlight(conn[p].sq) - 1 :
                            \E i \in 1 .. Len(conn[p].retx) :
                               Covers(conn[p].retx[i], conn[p].sq, k)
                      /\ conn[p].rtx = (conn[p].retx # << >>)
    BY Zenon DEF OutstandingCovered
  <2> DEFINE c == conn[p]
  <2>1. c \in ConnectionType /\ Good(c) /\ c.state \notin {"CLOSED", "TIME-WAIT"}
    BY OwnIs
  <2> HIDE DEF c
  <2>2. /\ seq_le(c.sq.una, c.sq.nxt)
        /\ \A k \in 0 .. InFlight(c.sq) - 1 :
              \E i \in 1 .. Len(c.retx) : Covers(c.retx[i], c.sq, k)
        /\ c.rtx = (c.retx # << >>)
    BY <2>1, GoodIsCovered, Zenon
  <2> QED BY <2>2, Zenon DEF c
<1> QED BY <1>1, InvHolds, PTL

\* A connection with bytes to send or to have acknowledged always has the
\* retransmission or the persist timer running, so that no lost acknowledgement
\* and no lost window update can stop it.
THEOREM TimerBehindData == Spec => []NeverStuck
<1>1. Inv => NeverStuck
  <2> SUFFICES ASSUME Inv, NEW p \in End, conn[p].state \notin {"CLOSED", "TIME-WAIT"},
                      conn[p].sq.buf # << >>
               PROVE  conn[p].rtx \/ conn[p].persist
    BY Zenon DEF NeverStuck
  <2> DEFINE c == conn[p]
  <2>1. c \in ConnectionType /\ Good(c) /\ c.state \notin {"CLOSED", "TIME-WAIT"}
    BY OwnIs
  <2> HIDE DEF c
  <2>2. c.sq.buf # << >> => c.rtx \/ c.persist
    BY <2>1, GoodIsCovered, Zenon
  <2> QED BY <2>2 DEF c
<1> QED BY <1>1, InvHolds, PTL

=============================================================================
