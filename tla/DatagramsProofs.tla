-------------------------- MODULE DatagramsProofs --------------------------
(***************************************************************************)
(* Reassembly and the datagram sockets for every number of datagrams,      *)
(* sizes, MTUs, fragment sets, sockets and receiving threads.              *)
(*                                                                         *)
(* RebuiltIsOriginal is not inductive: Unmixed says what a set is before   *)
(* it is complete, pieces of one datagram each at its place.  That a       *)
(* complete set leaves no byte out is Covered, and needs no induction: the *)
(* first piece at or after a byte has one before it that reaches it.       *)
(*                                                                         *)
(* Three theorems have a hypothesis the code does not enforce, and an      *)
(* instance that breaks it refutes the property: DistinctIds (a set is     *)
(* found by the identification, 16 bits wide, alone), OneReader (recvfrom  *)
(* pops what it saw without a lock) and DistinctPorts (udp_bind replaces   *)
(* the handler of another socket).                                         *)
(***************************************************************************)
EXTENDS Datagrams, ListProofs

\* A byte of a datagram.
Byte == Datagrams \X Nat

\* What data holds are bytes of datagram d, from byte o on.
SliceOf(data, d, o) ==
    /\ data \in Seq(Byte)
    /\ o + Len(data) <= Size[d]
    /\ \A j \in 1 .. Len(data) : data[j] = <<d, o + j - 1>>

\* A fragment that is a piece of datagram d, and says where d ends if it is the
\* last.
PieceOf(f, d) ==
    /\ f.id = _allocate_id(d)
    /\ f.offset \in Nat
    /\ SliceOf(f.data, d, f.offset * Unit)
    /\ ~f.more => f.offset * Unit + Len(f.data) = Size[d]

-----------------------------------------------------------------------------
(* fragment()                                                              *)

\* An identification is never 0 and fits the field.
LEMMA IdRange ==
    ASSUME NEW d \in Datagrams
    PROVE  _allocate_id(d) \in 1 .. ID_MOD - 1
<1> DEFINE m == ID_MOD - 1
<1>1. m \in Nat /\ m > 0 /\ d - 1 \in Int
  BY ReassemblyAssumption
<1> HIDE DEF m
<1>2. (d - 1) % m \in 0 .. m - 1
  BY <1>1
<1> QED BY <1>1, <1>2 DEF _allocate_id, m

\* A multiple of u, divided by u and multiplied again.
LEMMA DivExact ==
    ASSUME NEW a \in Nat, NEW u \in Nat, u > 0
    PROVE  (a * u) \div u = a
<1> DEFINE q == (a * u) \div u
<1>1. a * u \in Nat
  OBVIOUS
<1>2. q \in Int /\ u * q <= a * u /\ a * u < u * (q + 1)
  <2> DEFINE x == a * u
  <2>1. x \in Int
    BY <1>1
  <2> HIDE DEF x
  <2>2. x \div u \in Int /\ u * (x \div u) <= x /\ x < u * ((x \div u) + 1)
    BY <2>1
  <2> QED BY <2>2 DEF x
<1> HIDE DEF q
<1>3. ~(q < a)
  <2> SUFFICES ASSUME q + 1 <= a PROVE FALSE
    BY <1>2
  <2>1. u * (q + 1) <= u * a
    BY <1>2
  <2> QED BY <1>2, <2>1
<1>4. ~(q > a)
  <2> SUFFICES ASSUME a + 1 <= q PROVE FALSE
    BY <1>2
  <2>1. u * (a + 1) <= u * q
    BY <1>2
  <2>2. u * (a + 1) = u * a + u
    OBVIOUS
  <2> QED BY <1>2, <2>1, <2>2
<1> QED BY <1>2, <1>3, <1>4 DEF q

\* A datagram's content, byte by byte.
LEMMA ContentBytes ==
    ASSUME NEW d \in Datagrams
    PROVE  /\ Size[d] \in Nat
           /\ Content(d) \in Seq(Byte) /\ Len(Content(d)) = Size[d]
           /\ \A i \in 1 .. Size[d] : Content(d)[i] = <<d, i - 1>>
<1>1. Size[d] \in Nat
  BY ReassemblyAssumption
<1>2. \A i \in 1 .. Size[d] : <<d, i - 1>> \in Byte
  BY <1>1 DEF Byte
<1> DEFINE c == Content(d)
<1>3. c = [i \in 1 .. Size[d] |-> <<d, i - 1>>]
  BY DEF Content
<1>4. c \in [1 .. Size[d] -> Byte]
  BY <1>2, <1>3
<1> HIDE DEF c
<1>5. c \in Seq(Byte) /\ Len(c) = Size[d]
  BY <1>1, <1>4
<1>6. \A i \in 1 .. Size[d] : c[i] = <<d, i - 1>>
  BY <1>3
<1> QED BY <1>1, <1>5, <1>6 DEF c

\* A slice of the datagram's content: Python's content[at:][:step].
LEMMA CutIsSlice ==
    ASSUME NEW d \in Datagrams, NEW at \in Nat, at < Size[d], NEW step \in Nat
    PROVE  SliceOf(FirstBytes(BytesFrom(Content(d), at), step), d, at)
<1> DEFINE whole == Content(d)
           rest == BytesFrom(whole, at)
           cut == FirstBytes(rest, step)
<1>0. Size[d] \in Nat
  BY ReassemblyAssumption
<1>1. whole \in Seq(Byte) /\ Len(whole) = Size[d] /\ \A i \in 1 .. Size[d] : whole[i] = <<d, i - 1>>
  BY ContentBytes
<1> HIDE DEF whole
<1>2. rest = SubSeq(whole, at + 1, Size[d])
  BY <1>1 DEF BytesFrom
<1>3. /\ rest \in Seq(Byte) /\ Len(rest) = Size[d] - at
      /\ \A j \in 1 .. Len(rest) : rest[j] = whole[at + j]
  BY <1>0, <1>1, <1>2
<1> HIDE DEF rest
<1> DEFINE n == Least(step, Len(rest))
<1>4. n \in 0 .. Len(rest) /\ cut = SubSeq(rest, 1, n)
  BY <1>0, <1>3 DEF Least, FirstBytes
<1> HIDE DEF n
<1>5. /\ cut \in Seq(Byte) /\ Len(cut) = n
      /\ \A j \in 1 .. n : cut[j] = rest[j]
  BY <1>3, <1>4
<1> HIDE DEF cut
<1>6. \A j \in 1 .. Len(cut) : cut[j] = <<d, at + j - 1>>
  <2> SUFFICES ASSUME NEW j \in 1 .. Len(cut) PROVE cut[j] = <<d, at + j - 1>>
    OBVIOUS
  <2>1. j \in 1 .. Len(rest) /\ at + j \in 1 .. Size[d]
    BY <1>0, <1>3, <1>4, <1>5
  <2>2. cut[j] = whole[at + j]
    BY <1>3, <1>4, <1>5, <2>1
  <2> QED BY <1>1, <2>1, <2>2
<1>7. at + Len(cut) <= Size[d]
  BY <1>0, <1>3, <1>4, <1>5
<1> QED BY <1>5, <1>6, <1>7 DEF SliceOf, cut, rest, whole

\* Every fragment is a piece of the datagram it was cut from.
LEMMA FragmentIsPiece ==
    ASSUME NEW f \in Fragments
    PROVE  \E d \in Datagrams : PieceOf(f, d)
<1>1. PICK d \in Datagrams : \E room \in Rooms : f \in Pieces(d, room)
  BY DEF Fragments
<1>2. PICK room \in Rooms : f \in Pieces(d, room)
  BY <1>1
<1>0. Size[d] \in Nat /\ Unit \in Nat /\ Unit > 0 /\ room \in Nat /\ room >= Unit
  BY ReassemblyAssumption
<1>3. CASE Size[d] <= room
  <2>1. f = [id |-> _allocate_id(d), offset |-> 0, more |-> FALSE, data |-> Content(d)]
    BY <1>2, <1>3 DEF Pieces
  <2>2. /\ Content(d) \in Seq(Byte) /\ Len(Content(d)) = Size[d]
        /\ \A i \in 1 .. Size[d] : Content(d)[i] = <<d, i - 1>>
    BY ContentBytes
  <2>3. f.offset * Unit = 0
    BY <1>0, <2>1
  <2>4. SliceOf(Content(d), d, 0)
    BY <1>0, <2>2 DEF SliceOf
  <2> QED BY <1>0, <2>1, <2>2, <2>3, <2>4 DEF PieceOf
<1>4. CASE ~(Size[d] <= room)
  <2> DEFINE step == MaxPayload(room)
             Piece(k) == FirstBytes(BytesFrom(Content(d), k * step), step)
  <2>1. PICK k \in {k \in 0 .. Size[d] : k * step < Size[d]} :
           f = [id     |-> _allocate_id(d),
                offset |-> (k * step) \div Unit,
                more   |-> k * step + Len(Piece(k)) < Size[d],
                data   |-> Piece(k)]
    BY <1>2, <1>4 DEF Pieces
  <2> DEFINE m == room \div Unit
             at == k * step
  <2>2. m \in Nat /\ k \in Nat
    BY <1>0
  <2>3. step = m * Unit
    BY DEF MaxPayload
  <2> HIDE DEF m, step
  <2>4. at = (k * m) * Unit /\ k * m \in Nat /\ step \in Nat
    BY <1>0, <2>2, <2>3
  <2>5. at \in Nat /\ at < Size[d]
    BY <1>0, <2>1, <2>2, <2>4
  <2>6. at \div Unit = k * m
    BY <1>0, <2>2, <2>4, DivExact
  <2>7. f.offset = k * m /\ f.id = _allocate_id(d) /\ f.data = Piece(k)
        /\ f.more = (at + Len(Piece(k)) < Size[d])
    BY <2>1, <2>6
  <2>8. SliceOf(Piece(k), d, at)
    BY <2>4, <2>5, CutIsSlice
  <2> HIDE DEF at, Piece
  <2>9. f.offset \in Nat /\ f.offset * Unit = at
    BY <2>4, <2>7 DEF at
  <2>10. ~f.more => at + Len(Piece(k)) = Size[d]
    <3>1. Len(Piece(k)) \in Nat /\ at + Len(Piece(k)) <= Size[d]
      BY <2>8 DEF SliceOf
    <3>2. ~f.more => ~(at + Len(Piece(k)) < Size[d])
      BY <2>7, Zenon
    <3> QED BY <1>0, <2>5, <3>1, <3>2
  <2> QED BY <2>7, <2>8, <2>9, <2>10 DEF PieceOf
<1> QED BY <1>3, <1>4

-----------------------------------------------------------------------------
(* The fragment sets                                                       *)

\* A fragment set that add() built, and one whose pieces are of datagram d.
EntryTyped(e) ==
    /\ e.total \in Nat \cup {NoTotal}
    /\ DOMAIN e.pieces \subseteq Nat /\ DOMAIN e.pieces # {}
    /\ \A o \in DOMAIN e.pieces : e.pieces[o] \in Seq(Byte)

EntryOf(e, d) ==
    /\ e.total \in {NoTotal, Size[d]}
    /\ \A o \in DOMAIN e.pieces : SliceOf(e.pieces[o], d, o)

\* A set of numbers below a bound has a greatest one.
LEMMA GreatestOf ==
    ASSUME NEW S, NEW b \in Nat, S \subseteq 0 .. b, S # {}
    PROVE  \E n \in S : \A m \in S : m <= n
<1> DEFINE T == {b - x : x \in S}
<1>0. \A x \in S : x \in Nat /\ b - x \in Nat
  OBVIOUS
<1>1. T \subseteq Nat /\ T # {}
  BY <1>0
<1> HIDE DEF T
<1>2. PICK t \in T : \A u \in T : t <= u
  BY <1>1, LeastOf
<1>3. PICK n \in S : t = b - n
  BY DEF T
<1>4. ASSUME NEW m \in S PROVE m <= n
  <2>1. b - m \in T
    BY DEF T
  <2>2. t <= b - m /\ m \in Nat /\ n \in Nat
    BY <1>2, <2>1
  <2> QED BY <1>3, <2>2
<1> QED BY <1>4

\* The places of the pieces of e that cover byte i.
Over(e, i) == {o \in DOMAIN e.pieces : o < i /\ i <= o + Len(e.pieces[o])}

\* _try_complete leaves no hole: the first piece that begins at or after byte i
\* begins no later than some earlier piece ends, and that one covers byte i.
LEMMA Covered ==
    ASSUME NEW e, EntryTyped(e), Complete(e), NEW i \in 1 .. e.total
    PROVE  Over(e, i) # {}
<1> DEFINE starts == DOMAIN e.pieces
           End(o) == o + Len(e.pieces[o])
           after == {o \in starts : i <= o}
<1>1. /\ e.total \in Nat /\ i \in Nat \ {0} /\ i <= e.total
      /\ starts \subseteq Nat /\ \A o \in starts : Len(e.pieces[o]) \in Nat
  BY DEF EntryTyped, Complete, NoTotal
<1>2. /\ \A o \in starts : o = 0 \/ \E q \in starts : q < o /\ o <= End(q)
      /\ \E o \in starts : e.total <= End(o)
  BY DEF Complete
<1> HIDE DEF starts
<1>3. PICK z \in starts : e.total <= End(z)
  BY <1>2
<1>4. CASE z < i
  <2>1. i <= End(z)
    BY <1>1, <1>3
  <2> QED BY <1>4, <2>1 DEF Over, starts
<1>5. CASE ~(z < i)
  <2>0. z \in Nat /\ i <= z
    BY <1>1, <1>5
  <2>1. z \in after /\ after \subseteq Nat
    BY <1>1, <2>0, Zenon
  <2>2. PICK o \in after : \A p \in after : o <= p
    <3> HIDE DEF after
    <3> QED BY <2>1, LeastOf
  <2>3. o \in starts /\ o \in Nat /\ i <= o /\ o # 0
    BY <1>1
  <2>4. PICK q \in starts : q < o /\ o <= End(q)
    BY <1>2, <2>3
  <2>5. q < i
    BY <1>1, <2>2, <2>3, <2>4
  <2>6. i <= End(q)
    BY <1>1, <2>3, <2>4
  <2> QED BY <2>5, <2>6 DEF Over, starts
<1> QED BY <1>4, <1>5

\* Byte i of the payload is the one that some piece over it has there.
LEMMA PayloadByte ==
    ASSUME NEW e, EntryTyped(e), Complete(e), NEW i \in 1 .. e.total
    PROVE  Payload(e)[i] \in {e.pieces[o][i - o] : o \in Over(e, i)}
<1> DEFINE over == Over(e, i)
           last == CHOOSE o \in over : \A q \in over : q <= o
<1>1. over # {}
  BY Covered
<1>2. Payload(e)[i] = IF over = {} THEN <<>> ELSE e.pieces[last][i - last]
  BY DEF Payload, Over
<1>3. i \in Nat /\ over \subseteq 0 .. i
  BY DEF EntryTyped, Complete, Over, NoTotal
<1> HIDE DEF over
<1>4. \E o \in over : \A q \in over : q <= o
  BY <1>1, <1>3, GreatestOf
<1>5. last \in over
  BY <1>4
<1> HIDE DEF last
<1> QED BY <1>1, <1>2, <1>5 DEF over

\* What is rebuilt is made of the bytes of datagrams.
LEMMA PayloadTyped ==
    ASSUME NEW e, EntryTyped(e), Complete(e)
    PROVE  Payload(e) \in Seq(Byte)
<1>1. e.total \in Nat
  BY DEF EntryTyped, Complete, NoTotal
<1>2. \A i \in 1 .. e.total : Payload(e)[i] \in Byte
  <2> SUFFICES ASSUME NEW i \in 1 .. e.total PROVE Payload(e)[i] \in Byte
    OBVIOUS
  <2>1. PICK o \in Over(e, i) : Payload(e)[i] = e.pieces[o][i - o]
    BY PayloadByte
  <2>2. e.pieces[o] \in Seq(Byte) /\ o \in Nat /\ o < i /\ i <= o + Len(e.pieces[o])
    BY DEF Over, EntryTyped
  <2>3. i - o \in 1 .. Len(e.pieces[o])
    BY <1>1, <2>2
  <2> QED BY <2>1, <2>2, <2>3
<1>3. DOMAIN Payload(e) = 1 .. e.total /\ Payload(e) = [i \in 1 .. e.total |-> Payload(e)[i]]
  BY DEF Payload
<1> DEFINE p == Payload(e)
<1> HIDE DEF p
<1>4. p \in [1 .. e.total -> Byte]
  BY <1>2, <1>3 DEF p
<1> QED BY <1>1, <1>4 DEF p

\* All pieces being of datagram d, so is the payload.
LEMMA PayloadIsContent ==
    ASSUME NEW e, EntryTyped(e), Complete(e), NEW d \in Datagrams, EntryOf(e, d)
    PROVE  Payload(e) = Content(d)
<1>1. e.total = Size[d] /\ e.total \in Nat
  BY DEF EntryTyped, EntryOf, Complete, NoTotal
<1>2. \A i \in 1 .. e.total : Payload(e)[i] = <<d, i - 1>>
  <2> SUFFICES ASSUME NEW i \in 1 .. e.total PROVE Payload(e)[i] = <<d, i - 1>>
    OBVIOUS
  <2>1. PICK o \in Over(e, i) : Payload(e)[i] = e.pieces[o][i - o]
    BY PayloadByte
  <2>2. e.pieces[o] \in Seq(Byte) /\ o \in Nat /\ o < i /\ i <= o + Len(e.pieces[o])
    BY DEF Over, EntryTyped
  <2>3. i - o \in 1 .. Len(e.pieces[o]) /\ o + (i - o) - 1 = i - 1
    BY <1>1, <2>2
  <2>4. \A j \in 1 .. Len(e.pieces[o]) : e.pieces[o][j] = <<d, o + j - 1>>
    BY DEF EntryOf, SliceOf, Over
  <2> QED BY <2>1, <2>3, <2>4
<1>3. Payload(e) = [i \in 1 .. e.total |-> Payload(e)[i]]
  BY DEF Payload
<1> DEFINE p == Payload(e)
<1>4. p = [i \in 1 .. e.total |-> p[i]] /\ \A i \in 1 .. e.total : p[i] = <<d, i - 1>>
  BY <1>2, <1>3
<1> HIDE DEF p
<1>5. p = [i \in 1 .. Size[d] |-> <<d, i - 1>>]
  BY <1>1, <1>4
<1> QED BY <1>5 DEF p, Content

\* The pieces of a set that is given f are those it had and f's.
LEMMA ExtendedPieces ==
    ASSUME NEW old, NEW id, NEW f
    PROVE  LET e == Extended(old, id, f)
               had == IF id \in DOMAIN old THEN old[id]
                      ELSE [total |-> NoTotal, pieces |-> << >>]
               at == f.offset * Unit
           IN  /\ DOMAIN e.pieces = DOMAIN had.pieces \cup {at}
               /\ e.pieces[at] = f.data
               /\ \A o \in DOMAIN had.pieces : o # at => e.pieces[o] = had.pieces[o]
               /\ e.total = IF f.more THEN had.total ELSE at + Len(f.data)
<1> DEFINE had == IF id \in DOMAIN old THEN old[id]
                  ELSE [total |-> NoTotal, pieces |-> << >>]
           at == f.offset * Unit
<1>1. Extended(old, id, f) =
         [total  |-> IF f.more THEN had.total ELSE at + Len(f.data),
          pieces |-> With(had.pieces, at, f.data)]
  BY DEF Extended
<1> HIDE DEF had, at
<1>2. /\ DOMAIN Extended(old, id, f).pieces = DOMAIN had.pieces \cup {at}
      /\ Extended(old, id, f).pieces[at] = f.data
      /\ \A o \in DOMAIN had.pieces :
            o # at => Extended(old, id, f).pieces[o] = had.pieces[o]
      /\ Extended(old, id, f).total = IF f.more THEN had.total ELSE at + Len(f.data)
  BY <1>1 DEF With
<1> QED BY <1>2 DEF had, at

\* Given a fragment, a set stays one that add() built ...
LEMMA ExtendedTyped ==
    ASSUME NEW old, NEW id, NEW f, NEW d \in Datagrams, PieceOf(f, d),
           id \in DOMAIN old => EntryTyped(old[id])
    PROVE  EntryTyped(Extended(old, id, f))
<1> DEFINE e == Extended(old, id, f)
           had == IF id \in DOMAIN old THEN old[id]
                  ELSE [total |-> NoTotal, pieces |-> << >>]
           at == f.offset * Unit
<1>1. /\ DOMAIN e.pieces = DOMAIN had.pieces \cup {at}
      /\ e.pieces[at] = f.data
      /\ \A o \in DOMAIN had.pieces : o # at => e.pieces[o] = had.pieces[o]
      /\ e.total = IF f.more THEN had.total ELSE at + Len(f.data)
  BY ExtendedPieces
<1>2. at \in Nat /\ f.data \in Seq(Byte) /\ at + Len(f.data) \in Nat
  BY ReassemblyAssumption DEF PieceOf, SliceOf
<1>3. /\ had.total \in Nat \cup {NoTotal} /\ DOMAIN had.pieces \subseteq Nat
      /\ \A o \in DOMAIN had.pieces : had.pieces[o] \in Seq(Byte)
  <2>1. CASE id \in DOMAIN old
    BY <2>1 DEF EntryTyped
  <2>2. CASE id \notin DOMAIN old
    BY <2>2
  <2> QED BY <2>1, <2>2
<1> HIDE DEF e, had, at
<1>4. e.total \in Nat \cup {NoTotal}
  BY <1>1, <1>2, <1>3
<1>5. \A o \in DOMAIN e.pieces : e.pieces[o] \in Seq(Byte)
  BY <1>1, <1>2, <1>3
<1>6. DOMAIN e.pieces \subseteq Nat /\ DOMAIN e.pieces # {}
  BY <1>1, <1>2, <1>3
<1>7. EntryTyped(e)
  BY <1>4, <1>5, <1>6 DEF EntryTyped
<1> QED BY <1>7 DEF e

\* ... and stays one of datagram d when the fragment is of d too.
LEMMA ExtendedOf ==
    ASSUME NEW old, NEW id, NEW f, NEW d \in Datagrams, PieceOf(f, d),
           id \in DOMAIN old => EntryOf(old[id], d)
    PROVE  EntryOf(Extended(old, id, f), d)
<1> DEFINE e == Extended(old, id, f)
           had == IF id \in DOMAIN old THEN old[id]
                  ELSE [total |-> NoTotal, pieces |-> << >>]
           at == f.offset * Unit
<1>1. /\ DOMAIN e.pieces = DOMAIN had.pieces \cup {at}
      /\ e.pieces[at] = f.data
      /\ \A o \in DOMAIN had.pieces : o # at => e.pieces[o] = had.pieces[o]
      /\ e.total = IF f.more THEN had.total ELSE at + Len(f.data)
  BY ExtendedPieces
<1>2. SliceOf(f.data, d, at) /\ (~f.more => at + Len(f.data) = Size[d])
  BY DEF PieceOf
<1>3. /\ had.total \in {NoTotal, Size[d]}
      /\ \A o \in DOMAIN had.pieces : SliceOf(had.pieces[o], d, o)
  <2>1. CASE id \in DOMAIN old
    BY <2>1 DEF EntryOf
  <2>2. CASE id \notin DOMAIN old
    BY <2>2
  <2> QED BY <2>1, <2>2
<1> HIDE DEF e, had, at
<1>4. e.total \in {NoTotal, Size[d]}
  BY <1>1, <1>2, <1>3
<1>5. \A o \in DOMAIN e.pieces : SliceOf(e.pieces[o], d, o)
  BY <1>1, <1>2, <1>3
<1>6. EntryOf(e, d)
  BY <1>4, <1>5 DEF EntryOf
<1> QED BY <1>6 DEF e

-----------------------------------------------------------------------------
(* The reassembler                                                         *)

\* The sets are what add() builds and no more than max_pending; what is handed
\* up is a string of bytes.
Typed ==
    /\ DOMAIN sets \subseteq 1 .. ID_MOD - 1 /\ DOMAIN seen = DOMAIN sets
    /\ stale \subseteq DOMAIN sets
    /\ \A id \in DOMAIN sets : EntryTyped(sets[id])
    /\ Cardinality(DOMAIN sets) <= MaxSets
    /\ up \in Seq(Byte)

\* A set holds pieces of one datagram, the one its key is the number of.
Unmixed ==
    \A id \in DOMAIN sets :
        \E d \in Datagrams : id = _allocate_id(d) /\ EntryOf(sets[id], d)

\* No two of the datagrams have the same identification.
DistinctIds ==
    \A d, e \in Datagrams : _allocate_id(d) = _allocate_id(e) => d = e

\* Fewer keys than max_pending leave room for one more.
LEMMA RoomForOne ==
    ASSUME NEW S, S \subseteq 1 .. ID_MOD - 1, NEW x \in 1 .. ID_MOD - 1,
           NEW T \in SUBSET S,
           Cardinality(S) <= MaxSets
    PROVE  /\ Cardinality(T) <= MaxSets
           /\ (x \in T \/ ~(Cardinality(T) >= MaxSets)) => Cardinality(T \cup {x}) <= MaxSets
           /\ Cardinality(T \ {x}) <= MaxSets
<1>1. MaxSets \in Nat /\ ID_MOD - 1 \in Nat
  BY ReassemblyAssumption
<1>2. IsFiniteSet(1 .. ID_MOD - 1)
  BY <1>1, FS_Interval
<1>3. IsFiniteSet(S) /\ Cardinality(S) \in Nat
  BY <1>2, FS_Subset, FS_CardinalityType
<1>4. IsFiniteSet(T) /\ Cardinality(T) \in Nat /\ Cardinality(T) <= Cardinality(S)
  BY <1>3, FS_Subset, FS_CardinalityType
<1>5. Cardinality(T \cup {x}) = IF x \in T THEN Cardinality(T) ELSE Cardinality(T) + 1
  BY <1>4, FS_AddElement
<1>6. Cardinality(T \ {x}) = IF x \in T THEN Cardinality(T) - 1 ELSE Cardinality(T)
  BY <1>4, FS_RemoveElement
<1> QED BY <1>1, <1>3, <1>4, <1>5, <1>6

\* What add() of a fragment does to the sets: nothing new, one fewer or one
\* replaced, after the stale ones are gone.
LEMMA AddEffect ==
    ASSUME NEW f, Add(f)
    PROVE  LET live == Without(sets, stale)
               entry == Extended(live, f.id, f)
           IN  /\ stale' = {}
               /\ \/ sets' = live /\ DOMAIN seen' = DOMAIN seen \ stale /\ up' = Nothing
                  \/ /\ Complete(entry)
                     /\ sets' = Without(live, {f.id})
                     /\ DOMAIN seen' = (DOMAIN seen \ stale) \ {f.id}
                     /\ up' = Payload(entry)
                  \/ /\ f.id \in DOMAIN live \/ ~Full(live)
                     /\ sets' = With(live, f.id, entry)
                     /\ DOMAIN seen' = (DOMAIN seen \ stale) \cup {f.id}
                     /\ up' = Nothing
<1> DEFINE live == Without(sets, stale)
           given == Without(seen, stale)
           entry == Extended(live, f.id, f)
           all == (IF f.id \in DOMAIN given THEN given[f.id] ELSE {}) \cup {f}
<1>1. /\ stale' = {}
      /\ IF f.id \notin DOMAIN live /\ Full(live)
         THEN sets' = live /\ seen' = given /\ up' = Nothing
         ELSE IF Complete(entry)
         THEN /\ sets' = Without(live, {f.id})
              /\ seen' = Without(given, {f.id})
              /\ up' = Payload(entry)
         ELSE /\ sets' = With(live, f.id, entry)
              /\ seen' = With(given, f.id, all)
              /\ up' = Nothing
  BY DEF Add
<1>2. DOMAIN given = DOMAIN seen \ stale
  BY DEF Without
<1> HIDE DEF live, given, entry, all
<1>3. DOMAIN Without(given, {f.id}) = (DOMAIN seen \ stale) \ {f.id}
  BY <1>2 DEF Without
<1>4. DOMAIN With(given, f.id, all) = (DOMAIN seen \ stale) \cup {f.id}
  BY <1>2 DEF With
<1>5. /\ stale' = {}
      /\ \/ sets' = live /\ DOMAIN seen' = DOMAIN seen \ stale /\ up' = Nothing
         \/ /\ Complete(entry)
            /\ sets' = Without(live, {f.id})
            /\ DOMAIN seen' = (DOMAIN seen \ stale) \ {f.id}
            /\ up' = Payload(entry)
         \/ /\ f.id \in DOMAIN live \/ ~Full(live)
            /\ sets' = With(live, f.id, entry)
            /\ DOMAIN seen' = (DOMAIN seen \ stale) \cup {f.id}
            /\ up' = Nothing
  BY <1>1, <1>2, <1>3, <1>4, Zenon
<1> QED BY <1>5 DEF live, entry

\* A packet received keeps the kinds and the limit on the sets ...
LEMMA ReceiveTyped ==
    ASSUME Typed, Receive
    PROVE  Typed'
<1>1. PICK f \in Fragments : Add(f) \/ AddWhole(f)
  BY DEF Receive
<1>2. PICK d \in Datagrams : PieceOf(f, d)
  BY FragmentIsPiece
<1>3. f.id \in 1 .. ID_MOD - 1
  BY <1>2, IdRange DEF PieceOf
<1>4. CASE AddWhole(f)
  <2>1. up' \in Seq(Byte) /\ UNCHANGED <<sets, stale, seen>>
    BY <1>2, <1>4 DEF AddWhole, PieceOf, SliceOf
  <2> QED BY <2>1 DEF Typed
<1>5. CASE Add(f)
  <2> DEFINE live == Without(sets, stale)
             entry == Extended(live, f.id, f)
             keys == DOMAIN sets \ stale
  <2>1. DOMAIN live = keys /\ \A id \in keys : live[id] = sets[id]
    BY DEF Without
  <2>2. keys \subseteq 1 .. ID_MOD - 1 /\ \A id \in keys : EntryTyped(live[id])
    BY <2>1 DEF Typed
  <2>3. EntryTyped(entry)
    <3> HIDE DEF live
    <3> QED BY <1>2, <2>1, <2>2, ExtendedTyped
  <2>4. /\ Cardinality(keys) <= MaxSets
        /\ (f.id \in keys \/ ~(Cardinality(keys) >= MaxSets))
              => Cardinality(keys \cup {f.id}) <= MaxSets
        /\ Cardinality(keys \ {f.id}) <= MaxSets
    BY <1>3, RoomForOne DEF Typed
  <2>5. DOMAIN seen = DOMAIN sets /\ Nothing \in Seq(Byte)
    BY DEF Typed, Nothing
  <2>6. /\ stale' = {}
        /\ \/ sets' = live /\ DOMAIN seen' = DOMAIN seen \ stale /\ up' = Nothing
           \/ /\ Complete(entry)
              /\ sets' = Without(live, {f.id})
              /\ DOMAIN seen' = (DOMAIN seen \ stale) \ {f.id}
              /\ up' = Payload(entry)
           \/ /\ f.id \in DOMAIN live \/ ~Full(live)
              /\ sets' = With(live, f.id, entry)
              /\ DOMAIN seen' = (DOMAIN seen \ stale) \cup {f.id}
              /\ up' = Nothing
    BY <1>5, AddEffect
  <2> HIDE DEF live, entry, keys
  <2>7. CASE sets' = live /\ DOMAIN seen' = DOMAIN seen \ stale /\ up' = Nothing
    <3>1. DOMAIN sets' = keys /\ DOMAIN seen' = keys
      BY <2>1, <2>5, <2>7 DEF keys
    <3> QED BY <2>1, <2>2, <2>4, <2>5, <2>6, <2>7, <3>1 DEF Typed
  <2>8. CASE /\ Complete(entry)
             /\ sets' = Without(live, {f.id})
             /\ DOMAIN seen' = (DOMAIN seen \ stale) \ {f.id}
             /\ up' = Payload(entry)
    <3>1. /\ DOMAIN sets' = keys \ {f.id} /\ DOMAIN seen' = keys \ {f.id}
          /\ \A id \in DOMAIN sets' : sets'[id] = live[id]
      BY <2>1, <2>5, <2>8 DEF keys, Without
    <3>2. up' \in Seq(Byte)
      BY <2>3, <2>8, PayloadTyped
    <3> QED BY <2>2, <2>4, <2>6, <3>1, <3>2 DEF Typed
  <2>9. CASE /\ f.id \in DOMAIN live \/ ~Full(live)
             /\ sets' = With(live, f.id, entry)
             /\ DOMAIN seen' = (DOMAIN seen \ stale) \cup {f.id}
             /\ up' = Nothing
    <3>1. /\ DOMAIN sets' = keys \cup {f.id} /\ DOMAIN seen' = keys \cup {f.id}
          /\ \A id \in DOMAIN sets' : sets'[id] = IF id = f.id THEN entry ELSE live[id]
      BY <2>1, <2>5, <2>9 DEF keys, With
    <3>2. Cardinality(keys \cup {f.id}) <= MaxSets
      BY <2>1, <2>4, <2>9 DEF Full
    <3>3. \A id \in DOMAIN sets' : EntryTyped(sets'[id])
      BY <2>2, <2>3, <3>1
    <3>4. DOMAIN sets' \subseteq 1 .. ID_MOD - 1
      BY <1>3, <2>2, <3>1
    <3> QED BY <2>5, <2>6, <2>9, <3>1, <3>2, <3>3, <3>4 DEF Typed
  <2> QED BY <2>6, <2>7, <2>8, <2>9
<1> QED BY <1>1, <1>4, <1>5

\* ... and mixes no two datagrams, their identifications being distinct.
LEMMA ReceiveUnmixed ==
    ASSUME DistinctIds, Typed, Unmixed, Receive
    PROVE  Unmixed' /\ RebuiltIsOriginal'
<1>1. PICK f \in Fragments : Add(f) \/ AddWhole(f)
  BY DEF Receive
<1>2. PICK d \in Datagrams : PieceOf(f, d)
  BY FragmentIsPiece
<1>3. f.id = _allocate_id(d)
  BY <1>2 DEF PieceOf
<1>4. CASE AddWhole(f)
  <2>1. UNCHANGED sets /\ up' = f.data /\ ~f.more /\ f.offset = 0
    BY <1>4 DEF AddWhole, Fragmented
  <2>2. f.offset * Unit = 0
    BY <2>1, ReassemblyAssumption
  <2>3. SliceOf(f.data, d, 0) /\ 0 + Len(f.data) = Size[d]
    BY <1>2, <2>1, <2>2 DEF PieceOf
  <2>4. f.data = Content(d)
    <3>1. Size[d] \in Nat /\ f.data \in Seq(Byte) /\ Len(f.data) = Size[d]
      BY <2>3, ReassemblyAssumption DEF SliceOf
    <3>2. \A j \in 1 .. Size[d] : f.data[j] = <<d, j - 1>>
      BY <2>3, <3>1 DEF SliceOf
    <3>3. f.data = [j \in 1 .. Size[d] |-> f.data[j]]
      BY <3>1
    <3> QED BY <3>2, <3>3 DEF Content
  <2>5. RebuiltIsOriginal'
    BY <2>1, <2>4 DEF RebuiltIsOriginal
  <2> QED BY <2>1, <2>5 DEF Unmixed
<1>5. CASE Add(f)
  <2> DEFINE live == Without(sets, stale)
             entry == Extended(live, f.id, f)
             keys == DOMAIN sets \ stale
  <2>1. DOMAIN live = keys /\ \A id \in keys : live[id] = sets[id]
    BY DEF Without
  <2>2. \A id \in keys : \E g \in Datagrams : id = _allocate_id(g) /\ EntryOf(live[id], g)
    BY <2>1 DEF Unmixed
  <2>3. f.id \in DOMAIN live => EntryTyped(live[f.id]) /\ EntryOf(live[f.id], d)
    <3> HIDE DEF live
    <3> SUFFICES ASSUME f.id \in DOMAIN live
                 PROVE  EntryTyped(live[f.id]) /\ EntryOf(live[f.id], d)
      OBVIOUS
    <3>1. EntryTyped(live[f.id])
      BY <2>1 DEF Typed
    <3>2. PICK g \in Datagrams : f.id = _allocate_id(g) /\ EntryOf(live[f.id], g)
      BY <2>1, <2>2
    <3>3. g = d
      BY <1>3, <3>2 DEF DistinctIds
    <3> QED BY <3>1, <3>2, <3>3
  <2>4. EntryTyped(entry) /\ EntryOf(entry, d)
    <3> HIDE DEF live
    <3> QED BY <1>2, <2>3, ExtendedTyped, ExtendedOf
  <2>5. /\ stale' = {}
        /\ \/ sets' = live /\ DOMAIN seen' = DOMAIN seen \ stale /\ up' = Nothing
           \/ /\ Complete(entry)
              /\ sets' = Without(live, {f.id})
              /\ DOMAIN seen' = (DOMAIN seen \ stale) \ {f.id}
              /\ up' = Payload(entry)
           \/ /\ f.id \in DOMAIN live \/ ~Full(live)
              /\ sets' = With(live, f.id, entry)
              /\ DOMAIN seen' = (DOMAIN seen \ stale) \cup {f.id}
              /\ up' = Nothing
    BY <1>5, AddEffect
  <2> HIDE DEF live, entry, keys
  <2>6. CASE sets' = live /\ up' = Nothing
    BY <2>1, <2>2, <2>6 DEF Unmixed, RebuiltIsOriginal
  <2>7. CASE Complete(entry) /\ sets' = Without(live, {f.id}) /\ up' = Payload(entry)
    <3>1. DOMAIN sets' \subseteq keys /\ \A id \in DOMAIN sets' : sets'[id] = live[id]
      BY <2>1, <2>7 DEF Without
    <3>2. up' = Content(d)
      BY <2>4, <2>7, PayloadIsContent
    <3>3. Unmixed'
      BY <2>2, <3>1 DEF Unmixed
    <3> QED BY <3>2, <3>3 DEF RebuiltIsOriginal
  <2>8. CASE sets' = With(live, f.id, entry) /\ up' = Nothing
    <3>1. /\ DOMAIN sets' = keys \cup {f.id}
          /\ \A id \in DOMAIN sets' : sets'[id] = IF id = f.id THEN entry ELSE live[id]
      BY <2>1, <2>8 DEF With
    <3>2. Unmixed'
      BY <1>3, <2>2, <2>4, <3>1 DEF Unmixed
    <3> QED BY <2>8, <3>2 DEF RebuiltIsOriginal
  <2> QED BY <2>5, <2>6, <2>7, <2>8
<1> QED BY <1>1, <1>4, <1>5

-----------------------------------------------------------------------------
(* The sockets                                                             *)

\* The kinds of the sockets' variables.  The reader thread has a packet from
\* the reassembler until it is back at receiving, and a socket once it has
\* looked one up.
SocketTyped ==
    /\ DOMAIN handlers \subseteq {PortOf[s] : s \in Sockets}
    /\ \A p \in DOMAIN handlers : handlers[p] \in Sockets
    /\ life \in [Sockets -> {"new", "bound", "closed"}]
    /\ event \in [Sockets -> BOOLEAN]
    /\ reader \in {"receiving", "lookup", "append", "set"}
    /\ pc \in [Receivers -> {"idle", "check", "wait", "clear", "pop", "IndexError"}]
    /\ queue \in [Sockets -> Seq(Datagrams)]
    /\ returned \in [Sockets -> Seq(Datagrams)]
    /\ arrived \in [Sockets -> Seq(Datagrams)]
    /\ reader # "receiving" => up # Nothing
    /\ reader \in {"append", "set"} => target \in Sockets

\* A datagram that goes through the queue comes out behind those before it.
LEMMA IntoTheQueue ==
    ASSUME NEW a \in Seq(Datagrams), NEW q \in Seq(Datagrams), NEW x \in Datagrams
    PROVE  Append(a \o q, x) = a \o Append(q, x)
OBVIOUS

\* What leaves at the head is what comes after what has left.
LEMMA OutOfTheQueue ==
    ASSUME NEW a \in Seq(Datagrams), NEW q \in Seq(Datagrams), q # << >>
    PROVE  /\ Head(q) \in Datagrams /\ Tail(q) \in Seq(Datagrams)
           /\ a \o q = Append(a, Head(q)) \o Tail(q)
OBVIOUS

\* A packet the reader has is of some datagram.
LEMMA UpDatagram ==
    ASSUME Typed, up # Nothing
    PROVE  up[1][1] \in Datagrams
<1>1. up \in Seq(Byte) /\ up # << >>
  BY DEF Typed, Nothing
<1>2. Len(up) \in Nat /\ Len(up) # 0
  BY <1>1, EmptySeq
<1>3. up[1] \in Byte
  BY <1>1, <1>2
<1> QED BY <1>3 DEF Byte

\* The steps of the socket's owner, the reader and the receivers keep the kinds.
LEMMA SocketNextTyped ==
    ASSUME Typed, SocketTyped, SocketNext, UNCHANGED reassembler
    PROVE  SocketTyped'
<1>0. UNCHANGED up
  BY DEF reassembler
<1>1. ASSUME NEW s \in Sockets, Bind(s) PROVE SocketTyped'
  <2>1. handlers' = With(handlers, PortOf[s], s)
    BY <1>1 DEF Bind
  <2>2. /\ DOMAIN handlers' = DOMAIN handlers \cup {PortOf[s]}
        /\ \A p \in DOMAIN handlers' : handlers'[p] = IF p = PortOf[s] THEN s ELSE handlers[p]
    BY <2>1 DEF With
  <2> QED BY <1>0, <1>1, <2>2 DEF Bind, SocketTyped
<1>2. ASSUME NEW s \in Sockets, Close(s) PROVE SocketTyped'
  <2>1. handlers' = Without(handlers, {PortOf[s]})
    BY <1>2 DEF Close, Unbound
  <2>2. /\ DOMAIN handlers' \subseteq DOMAIN handlers
        /\ \A p \in DOMAIN handlers' : handlers'[p] = handlers[p]
    BY <2>1 DEF Without
  <2> QED BY <1>0, <1>2, <2>2 DEF Close, SocketTyped
<1>3. CASE LookUp
  BY <1>0, <1>3 DEF LookUp, SocketTyped, OnUdpSteps
<1>4. CASE AppendDatagram
  <2>1. up[1][1] \in Datagrams /\ target \in Sockets
    BY <1>4, UpDatagram DEF AppendDatagram, SocketTyped
  <2>2. /\ queue' \in [Sockets -> Seq(Datagrams)]
        /\ arrived' \in [Sockets -> Seq(Datagrams)]
    BY <1>4, <2>1 DEF AppendDatagram, SocketTyped
  <2> QED BY <1>0, <1>4, <2>1, <2>2 DEF AppendDatagram, SocketTyped, Following, OnUdpSteps
<1>5. CASE SetEvent
  BY <1>0, <1>5 DEF SetEvent, SocketTyped, Following, OnUdpSteps
<1>6. ASSUME NEW r \in Receivers, RecvFrom(r) \/ Check(r) \/ Wake(r) \/ TimeOut(r)
      PROVE  SocketTyped'
  BY <1>0, <1>6 DEF RecvFrom, Check, Wake, TimeOut, Goto, SocketTyped
<1>7. ASSUME NEW r \in Receivers, Clear(r) PROVE SocketTyped'
  BY <1>0, <1>7 DEF Clear, Goto, AfterClear, SocketTyped
<1>8. ASSUME NEW r \in Receivers, Pop(r) PROVE SocketTyped'
  <2> DEFINE s == SocketOf[r]
  <2>1. s \in Sockets /\ queue[s] \in Seq(Datagrams) /\ returned[s] \in Seq(Datagrams)
    BY DatagramsAssumption DEF SocketTyped
  <2>2. CASE queue[s] = << >>
    BY <1>0, <1>8, <2>2 DEF Pop, Goto, SocketTyped
  <2>3. CASE queue[s] # << >>
    <3>1. Head(queue[s]) \in Datagrams /\ Tail(queue[s]) \in Seq(Datagrams)
      BY <2>1, <2>3, OutOfTheQueue
    <3>2. /\ queue' = [queue EXCEPT ![s] = Tail(queue[s])]
          /\ returned' = [returned EXCEPT ![s] = Append(returned[s], Head(queue[s]))]
      BY <1>8, <2>3 DEF Pop, Popped
    <3>3. Append(returned[s], Head(queue[s])) \in Seq(Datagrams)
      BY <2>1, <3>1
    <3>4. /\ queue' \in [Sockets -> Seq(Datagrams)]
          /\ returned' \in [Sockets -> Seq(Datagrams)]
      BY <2>1, <3>1, <3>2, <3>3 DEF SocketTyped
    <3> QED BY <1>0, <1>8, <2>3, <3>4 DEF Pop, Goto, SocketTyped
  <2> QED BY <2>2, <2>3
<1> QED BY <1>1, <1>2, <1>3, <1>4, <1>5, <1>6, <1>7, <1>8
        DEF SocketNext, ReaderStep, ReceiverStep

\* Every step keeps the kinds.
LEMMA TypedSteps ==
    ASSUME Typed, SocketTyped, [Next]_vars
    PROVE  Typed' /\ SocketTyped'
<1>1. CASE HandleFrame
  <2>1. Typed'
    BY <1>1, ReceiveTyped DEF HandleFrame
  <2>2. SocketTyped'
    BY <1>1 DEF HandleFrame, SocketTyped
  <2> QED BY <2>1, <2>2
<1>2. CASE Ageing /\ UNCHANGED socket
  <2>1. PICK id \in DOMAIN sets : Age(id)
    BY <1>2 DEF Ageing
  <2>2. Typed'
    BY <2>1 DEF Age, Typed
  <2>3. SocketTyped'
    BY <1>2, <2>1 DEF Age, socket, SocketTyped
  <2> QED BY <2>2, <2>3
<1>3. CASE SocketNext /\ UNCHANGED reassembler
  <2>1. Typed'
    BY <1>3 DEF reassembler, Typed
  <2> QED BY <1>3, <2>1, SocketNextTyped
<1>4. CASE UNCHANGED vars
  BY <1>4 DEF vars, reassembler, socket, Typed, SocketTyped
<1> QED BY <1>1, <1>2, <1>3, <1>4 DEF Next

\* The kinds hold at the start.
LEMMA TypedInit ==
    ASSUME Init
    PROVE  Typed /\ SocketTyped
<1>1. /\ sets = << >> /\ stale = {} /\ up = << >> /\ seen = << >>
  BY DEF Init, ReassemblerInit, Nothing
<1>2. DOMAIN sets = {} /\ DOMAIN seen = {} /\ up \in Seq(Byte)
  BY <1>1
<1>3. Cardinality(DOMAIN sets) = 0 /\ MaxSets \in Nat
  BY <1>2, FS_EmptySet, ReassemblyAssumption
<1>4. Typed
  BY <1>1, <1>2, <1>3 DEF Typed
<1>5. handlers = << >> /\ DOMAIN handlers = {}
  BY DEF Init, SocketInit
<1>6. SocketTyped
  BY <1>5 DEF Init, SocketInit, SocketTyped
<1> QED BY <1>4, <1>6

\* The kinds always hold.
LEMMA AlwaysTyped == Spec => [](Typed /\ SocketTyped)
<1>1. Init => Typed /\ SocketTyped
  BY TypedInit
<1>2. Typed /\ SocketTyped /\ [Next]_vars => (Typed /\ SocketTyped)'
  BY TypedSteps
<1> QED BY <1>1, <1>2, PTL DEF Spec

\* The fragment sets, the table of handlers and the threads keep their kinds,
\* and there are never more fragment sets than max_pending (Reassembler.add,
\* ipv4.py), whatever identifications the datagrams have.
THEOREM TypeCorrect == Spec => []TypeOK
<1>1. Typed /\ SocketTyped => TypeOK
  BY DEF Typed, SocketTyped, TypeOK, SetsOK, EntryTyped
<1> QED BY <1>1, AlwaysTyped, PTL

\* What the reassembler hands up is a datagram that was sent, whole, for every
\* number of datagrams, of MTUs and of sizes, as long as no two datagrams on
\* the way have the same identification (Reassembler._try_complete, ipv4.py).
THEOREM RebuiltCorrect == DistinctIds => (Spec => []RebuiltIsOriginal)
<1> SUFFICES ASSUME DistinctIds PROVE Spec => []RebuiltIsOriginal
  OBVIOUS
<1> DEFINE I == Unmixed /\ RebuiltIsOriginal
<1>1. Init => I
  <2> SUFFICES ASSUME Init PROVE I
    OBVIOUS
  <2>1. sets = << >> /\ up = Nothing
    BY DEF Init, ReassemblerInit
  <2>2. DOMAIN sets = {}
    BY <2>1
  <2> QED BY <2>1, <2>2 DEF Unmixed, RebuiltIsOriginal
<1>2. (Typed /\ SocketTyped) /\ I /\ [Next]_vars => I'
  <2> SUFFICES ASSUME Typed, I, [Next]_vars PROVE I'
    OBVIOUS
  <2>1. CASE HandleFrame
    BY <2>1, ReceiveUnmixed DEF HandleFrame
  <2>2. CASE Ageing
    BY <2>2 DEF Ageing, Age, Unmixed, RebuiltIsOriginal
  <2>3. CASE UNCHANGED reassembler
    BY <2>3 DEF reassembler, Unmixed, RebuiltIsOriginal
  <2>4. CASE UNCHANGED vars
    BY <2>4 DEF vars, reassembler, Unmixed, RebuiltIsOriginal
  <2> QED BY <2>1, <2>2, <2>3, <2>4 DEF Next
<1>3. I => RebuiltIsOriginal
  OBVIOUS
<1> HIDE DEF I
<1> QED BY <1>1, <1>2, <1>3, AlwaysTyped, PTL DEF Spec

\* recvfrom returns every datagram that was put on its socket's queue, once and
\* in order, for every number of sockets and of threads that read the same
\* socket (Socket._on_udp and Socket.recvfrom, socket.py).
THEOREM NothingLost == Spec => []NoneLost
<1>1. Init => NoneLost
  BY DEF Init, SocketInit, NoneLost
<1>2. (Typed /\ SocketTyped) /\ NoneLost /\ [Next]_vars => NoneLost'
  <2> SUFFICES ASSUME Typed, SocketTyped, NoneLost, [Next]_vars PROVE NoneLost'
    OBVIOUS
  <2>0. UNCHANGED <<queue, returned, arrived>> => NoneLost'
    BY DEF NoneLost
  <2>1. CASE AppendDatagram
    <3> DEFINE x == up[1][1]
    <3>1. x \in Datagrams /\ target \in Sockets
      BY <2>1, UpDatagram DEF AppendDatagram, SocketTyped
    <3>2. /\ queue' = [queue EXCEPT ![target] = Append(queue[target], x)]
          /\ arrived' = [arrived EXCEPT ![target] = Append(arrived[target], x)]
          /\ returned' = returned
      BY <2>1 DEF AppendDatagram
    <3> HIDE DEF x
    <3>3. ASSUME NEW s \in Sockets PROVE arrived'[s] = returned'[s] \o queue'[s]
      <4>1. /\ queue[s] \in Seq(Datagrams) /\ returned[s] \in Seq(Datagrams)
            /\ arrived[s] = returned[s] \o queue[s]
        BY DEF SocketTyped, NoneLost
      <4>2. CASE s = target
        <5>1. queue'[s] = Append(queue[s], x) /\ arrived'[s] = Append(arrived[s], x)
          BY <3>1, <3>2, <4>2 DEF SocketTyped
        <5>2. Append(returned[s] \o queue[s], x) = returned[s] \o Append(queue[s], x)
          BY <3>1, <4>1, IntoTheQueue, Zenon
        <5> QED BY <3>2, <4>1, <5>1, <5>2, Zenon
      <4>3. CASE s # target
        BY <3>1, <3>2, <4>1, <4>3 DEF SocketTyped
      <4> QED BY <4>2, <4>3
    <3> QED BY <3>3 DEF NoneLost
  <2>2. ASSUME NEW r \in Receivers, Pop(r) PROVE NoneLost'
    <3> DEFINE t == SocketOf[r]
    <3>1. t \in Sockets
      BY DatagramsAssumption
    <3>2. CASE queue[t] = << >>
      BY <2>0, <2>2, <3>2 DEF Pop
    <3>3. CASE queue[t] # << >>
      <4>1. /\ queue' = [queue EXCEPT ![t] = Tail(queue[t])]
            /\ returned' = [returned EXCEPT ![t] = Append(returned[t], Head(queue[t]))]
            /\ arrived' = arrived
        BY <2>2, <3>3 DEF Pop, Popped
      <4> HIDE DEF t
      <4>2. ASSUME NEW s \in Sockets PROVE arrived'[s] = returned'[s] \o queue'[s]
        <5>1. /\ queue[s] \in Seq(Datagrams) /\ returned[s] \in Seq(Datagrams)
              /\ arrived[s] = returned[s] \o queue[s]
          BY DEF SocketTyped, NoneLost
        <5>2. CASE s = t
          <6>1. queue'[s] = Tail(queue[s]) /\ returned'[s] = Append(returned[s], Head(queue[s]))
            BY <3>1, <4>1, <5>2 DEF SocketTyped
          <6>2. returned[s] \o queue[s] = Append(returned[s], Head(queue[s])) \o Tail(queue[s])
            BY <3>3, <5>1, <5>2, OutOfTheQueue, Zenon
          <6> QED BY <4>1, <5>1, <6>1, <6>2, Zenon
        <5>3. CASE s # t
          BY <3>1, <4>1, <5>1, <5>3 DEF SocketTyped
        <5> QED BY <5>2, <5>3
      <4> QED BY <4>2 DEF NoneLost
    <3> QED BY <3>2, <3>3
  <2>3. CASE HandleFrame \/ UNCHANGED socket \/ UNCHANGED vars
    BY <2>0, <2>3 DEF HandleFrame, socket, vars
  <2>4. CASE SocketNext
    <3>1. ASSUME NEW s \in Sockets, Bind(s) \/ Close(s) PROVE NoneLost'
      BY <2>0, <3>1 DEF Bind, Close
    <3>2. CASE LookUp \/ SetEvent
      BY <2>0, <3>2 DEF LookUp, SetEvent
    <3>3. ASSUME NEW r \in Receivers,
                 RecvFrom(r) \/ TimeOut(r) \/ Check(r) \/ Wake(r) \/ Clear(r)
          PROVE  NoneLost'
      BY <2>0, <3>3 DEF RecvFrom, TimeOut, Check, Wake, Clear
    <3> QED BY <2>1, <2>2, <2>4, <3>1, <3>2, <3>3 DEF SocketNext, ReaderStep, ReceiverStep
  <2> QED BY <2>3, <2>4 DEF Next
<1> QED BY <1>1, <1>2, AlwaysTyped, PTL DEF Spec

\* One thread at most reads a socket.
OneReader == \A q, r \in Receivers : SocketOf[q] = SocketOf[r] => q = r

\* A receiver about to pop found its queue filled, and nobody else empties it.
PopFinds == \A r \in Receivers : pc[r] = "pop" => queue[SocketOf[r]] # << >>

\* recvfrom raises nothing but TimeoutError, for every number of sockets, as
\* long as no two threads read the same one (Socket.recvfrom, socket.py).
THEOREM TimeoutsOnly == OneReader => (Spec => []OnlyTimeouts)
<1> SUFFICES ASSUME OneReader PROVE Spec => []OnlyTimeouts
  OBVIOUS
<1> DEFINE I == PopFinds /\ OnlyTimeouts
<1>1. Init => I
  BY DEF Init, SocketInit, PopFinds, OnlyTimeouts
<1>2. (Typed /\ SocketTyped) /\ I /\ [Next]_vars => I'
  <2> SUFFICES ASSUME Typed, SocketTyped, PopFinds, OnlyTimeouts, [Next]_vars
               PROVE  PopFinds' /\ OnlyTimeouts'
    OBVIOUS
  <2>0. UNCHANGED <<queue, pc>> => PopFinds' /\ OnlyTimeouts'
    BY DEF PopFinds, OnlyTimeouts
  <2>1. CASE AppendDatagram
    <3>1. up[1][1] \in Datagrams /\ target \in Sockets
      BY <2>1, UpDatagram DEF AppendDatagram, SocketTyped
    <3>2. UNCHANGED pc /\ queue' = [queue EXCEPT ![target] = Append(queue[target], up[1][1])]
      BY <2>1 DEF AppendDatagram
    <3>3. ASSUME NEW s \in Sockets, queue[s] # << >> PROVE queue'[s] # << >>
      <4>1. CASE s = target
        <5>1. queue'[s] = Append(queue[s], up[1][1]) /\ queue[s] \in Seq(Datagrams)
          BY <3>1, <3>2, <4>1 DEF SocketTyped
        <5> QED BY <3>1, <5>1
      <4>2. CASE s # target
        BY <3>1, <3>2, <3>3, <4>2 DEF SocketTyped
      <4> QED BY <4>1, <4>2
    <3> QED BY <3>2, <3>3, DatagramsAssumption DEF PopFinds, OnlyTimeouts
  <2>2. ASSUME NEW r \in Receivers, Pop(r) PROVE PopFinds' /\ OnlyTimeouts'
    <3> DEFINE t == SocketOf[r]
    <3>1. t \in Sockets /\ queue[t] # << >>
      BY <2>2, DatagramsAssumption DEF Pop, PopFinds
    <3>2. /\ queue' = [queue EXCEPT ![t] = Tail(queue[t])]
          /\ pc' = [pc EXCEPT ![r] = "idle"]
      BY <2>2, <3>1 DEF Pop, Popped, Goto
    <3>3. ASSUME NEW q \in Receivers, q # r
          PROVE  pc'[q] = pc[q] /\ queue'[SocketOf[q]] = queue[SocketOf[q]]
      <4>1. SocketOf[q] \in Sockets /\ SocketOf[q] # t
        BY <3>3, DatagramsAssumption DEF OneReader
      <4> QED BY <3>1, <3>2, <3>3, <4>1 DEF SocketTyped
    <3>4. pc'[r] = "idle"
      BY <3>2 DEF SocketTyped
    <3> HIDE DEF t
    <3> QED BY <3>3, <3>4 DEF PopFinds, OnlyTimeouts
  <2>3. CASE HandleFrame \/ UNCHANGED socket \/ UNCHANGED vars
    BY <2>0, <2>3 DEF HandleFrame, socket, vars
  <2>4. CASE SocketNext
    <3>1. ASSUME NEW s \in Sockets, Bind(s) \/ Close(s) PROVE PopFinds' /\ OnlyTimeouts'
      BY <2>0, <3>1 DEF Bind, Close
    <3>2. CASE LookUp \/ SetEvent
      BY <2>0, <3>2 DEF LookUp, SetEvent
    <3>3. ASSUME NEW r \in Receivers,
                 RecvFrom(r) \/ TimeOut(r) \/ Check(r) \/ Wake(r) \/ Clear(r)
          PROVE  PopFinds' /\ OnlyTimeouts'
      BY <3>3 DEF RecvFrom, TimeOut, Check, Wake, Clear, AfterClear, Goto,
                  PopFinds, OnlyTimeouts, SocketTyped
    <3> QED BY <2>1, <2>2, <2>4, <3>1, <3>2, <3>3 DEF SocketNext, ReaderStep, ReceiverStep
  <2> QED BY <2>3, <2>4 DEF Next
<1>3. I => OnlyTimeouts
  OBVIOUS
<1> HIDE DEF I
<1> QED BY <1>1, <1>2, <1>3, AlwaysTyped, PTL DEF Spec

\* No two sockets bind the same port.
DistinctPorts == \A s, t \in Sockets : PortOf[s] = PortOf[t] => s = t

\* A bound socket is the one its port's datagrams go to until it is closed, as
\* long as no other socket binds the port: udp_bind and udp_unbind (stack.py)
\* ask nobody.
THEOREM PortKept == DistinctPorts => (Spec => []PortClaimed)
<1> SUFFICES ASSUME DistinctPorts PROVE Spec => []PortClaimed
  OBVIOUS
<1>1. Init => PortClaimed
  BY DEF Init, SocketInit, PortClaimed
<1>2. (Typed /\ SocketTyped) /\ PortClaimed /\ [Next]_vars => PortClaimed'
  <2> SUFFICES ASSUME SocketTyped, PortClaimed, [Next]_vars PROVE PortClaimed'
    OBVIOUS
  <2>0. UNCHANGED <<life, handlers>> => PortClaimed'
    BY DEF PortClaimed
  <2>1. ASSUME NEW s \in Sockets, Bind(s) PROVE PortClaimed'
    <3>1. /\ handlers' = With(handlers, PortOf[s], s)
          /\ life' = [life EXCEPT ![s] = "bound"]
      BY <2>1 DEF Bind
    <3>2. /\ DOMAIN handlers' = DOMAIN handlers \cup {PortOf[s]}
          /\ \A p \in DOMAIN handlers' : handlers'[p] = IF p = PortOf[s] THEN s ELSE handlers[p]
      BY <3>1 DEF With
    <3> QED BY <3>1, <3>2 DEF PortClaimed, DistinctPorts, SocketTyped
  <2>2. ASSUME NEW s \in Sockets, Close(s) PROVE PortClaimed'
    <3>1. /\ handlers' = Without(handlers, {PortOf[s]})
          /\ life' = [life EXCEPT ![s] = "closed"]
      BY <2>2 DEF Close, Unbound
    <3>2. /\ DOMAIN handlers' = DOMAIN handlers \ {PortOf[s]}
          /\ \A p \in DOMAIN handlers' : handlers'[p] = handlers[p]
      BY <3>1 DEF Without
    <3> QED BY <3>1, <3>2 DEF PortClaimed, DistinctPorts, SocketTyped
  <2>3. CASE HandleFrame \/ UNCHANGED socket \/ UNCHANGED vars
    BY <2>0, <2>3 DEF HandleFrame, socket, vars
  <2>4. CASE SocketNext
    <3>1. CASE LookUp \/ AppendDatagram \/ SetEvent
      BY <2>0, <3>1 DEF LookUp, AppendDatagram, SetEvent
    <3>2. ASSUME NEW r \in Receivers,
                 RecvFrom(r) \/ TimeOut(r) \/ Check(r) \/ Wake(r) \/ Clear(r) \/ Pop(r)
          PROVE  PortClaimed'
      BY <2>0, <3>2 DEF RecvFrom, TimeOut, Check, Wake, Clear, Pop
    <3> QED BY <2>1, <2>2, <2>4, <3>1, <3>2 DEF SocketNext, ReaderStep, ReceiverStep
  <2> QED BY <2>3, <2>4 DEF Next
<1> QED BY <1>1, <1>2, AlwaysTyped, PTL DEF Spec
=============================================================================
