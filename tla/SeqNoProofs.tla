---------------------------- MODULE SeqNoProofs ----------------------------
(***************************************************************************)
(* The laws of SeqNoLaws for a sequence space of any even size, and the    *)
(* facts about seq_add that other proofs use.                              *)
(***************************************************************************)
EXTENDS SeqNoLaws, TLAPS

\* The space is two halves.
LEMMA TwoHalves == SEQ_MOD = 2 * SEQ_HALF /\ SEQ_HALF \in Nat \ {0}
BY SeqModAssumption DEF SEQ_HALF

\* The remainder is a sequence number, and differs by whole turns only.
LEMMA Remainder ==
    ASSUME NEW x \in Int
    PROVE  /\ x % SEQ_MOD \in SeqNum
           /\ 0 <= x /\ x < SEQ_MOD => x % SEQ_MOD = x
           /\ -SEQ_MOD <= x /\ x < 0 => x % SEQ_MOD = x + SEQ_MOD
           /\ SEQ_MOD <= x /\ x < 2 * SEQ_MOD => x % SEQ_MOD = x - SEQ_MOD
BY SeqModAssumption DEF SeqNum

\* The same for the difference of two sequence numbers.
LEMMA Difference ==
    ASSUME NEW x \in SeqNum, NEW y \in SeqNum
    PROVE  /\ (y - x) % SEQ_MOD \in SeqNum
           /\ x <= y => (y - x) % SEQ_MOD = y - x
           /\ y < x => (y - x) % SEQ_MOD = y - x + SEQ_MOD
<1> DEFINE d == y - x
<1>1. d \in Int /\ -SEQ_MOD < d /\ d < SEQ_MOD
  BY SeqModAssumption DEF SeqNum
<1>2. (x <= y) = (0 <= d) /\ (y < x) = (d < 0)
  BY SeqModAssumption DEF SeqNum
<1> HIDE DEF d
<1>3. /\ d % SEQ_MOD \in SeqNum
      /\ 0 <= d => d % SEQ_MOD = d
      /\ d < 0 => d % SEQ_MOD = d + SEQ_MOD
  BY <1>1, Remainder, SeqModAssumption
<1> QED BY <1>2, <1>3 DEF d

\* A step of less than one turn wraps at most once.
LEMMA Step ==
    ASSUME NEW x \in SeqNum, NEW k \in SeqNum
    PROVE  /\ seq_add(x, k) \in SeqNum
           /\ seq_add(x, k) \in {x + k, x + k - SEQ_MOD}
<1> DEFINE d == x + k
<1>1. d \in Int /\ 0 <= d /\ d < 2 * SEQ_MOD
  BY SeqModAssumption DEF SeqNum
<1> HIDE DEF d
<1>2. d % SEQ_MOD \in SeqNum /\ d % SEQ_MOD \in {d, d - SEQ_MOD}
  BY <1>1, Remainder, SeqModAssumption
<1>3. seq_add(x, k) = d % SEQ_MOD
  BY DEF d, seq_add
<1>4. seq_add(x, k) \in SeqNum /\ seq_add(x, k) \in {d, d - SEQ_MOD}
  BY <1>2, <1>3
<1> QED BY <1>4, SeqModAssumption DEF d, SeqNum

\* Sliding both numbers leaves their distance round the space alone.
LEMMA SlideDistance ==
    ASSUME NEW x \in SeqNum, NEW y \in SeqNum, NEW k \in SeqNum
    PROVE  (seq_add(y, k) - seq_add(x, k)) % SEQ_MOD = (y - x) % SEQ_MOD
<1> DEFINE p == seq_add(x, k)
           q == seq_add(y, k)
<1>1. /\ p \in SeqNum /\ q \in SeqNum
      /\ p \in {x + k, x + k - SEQ_MOD}
      /\ q \in {y + k, y + k - SEQ_MOD}
  BY Step
<1> HIDE DEF p, q
<1>2. /\ p <= q => (q - p) % SEQ_MOD = q - p
      /\ q < p => (q - p) % SEQ_MOD = q - p + SEQ_MOD
  BY <1>1, Difference
<1>3. /\ x <= y => (y - x) % SEQ_MOD = y - x
      /\ y < x => (y - x) % SEQ_MOD = y - x + SEQ_MOD
  BY Difference
<1>4. (q - p) % SEQ_MOD = (y - x) % SEQ_MOD
  BY <1>1, <1>2, <1>3, SeqModAssumption DEF SeqNum
<1> QED BY <1>4 DEF p, q

-----------------------------------------------------------------------------
\* The order laws of seq_lt, seq_le, seq_gt and seq_ge, for two fixed numbers.
LEMMA OrderedAlways == TypeOK => Ordered
<1> SUFFICES ASSUME TypeOK PROVE Ordered
  OBVIOUS
<1>1. /\ a <= b => (b - a) % SEQ_MOD = b - a
      /\ b < a => (b - a) % SEQ_MOD = b - a + SEQ_MOD
      /\ b <= a => (a - b) % SEQ_MOD = a - b
      /\ a < b => (a - b) % SEQ_MOD = a - b + SEQ_MOD
  BY Difference DEF TypeOK
<1> QED
  BY <1>1, TwoHalves, SeqModAssumption
  DEF TypeOK, SeqNum, Ordered, Opposite, seq_lt, seq_le, seq_gt, seq_ge

\* The laws of seq_diff, for two fixed numbers.
LEMMA DiffAlways == TypeOK => DiffIsDistance
<1> SUFFICES ASSUME TypeOK PROVE DiffIsDistance
  OBVIOUS
<1>1. /\ b <= a => (a - b) % SEQ_MOD = a - b
      /\ a < b => (a - b) % SEQ_MOD = a - b + SEQ_MOD
  BY Difference DEF TypeOK
<1>2. /\ seq_diff(a, b) \in -SEQ_HALF .. SEQ_HALF - 1
      /\ seq_diff(a, b) \in {a - b, a - b + SEQ_MOD, a - b - SEQ_MOD}
  BY <1>1, TwoHalves, SeqModAssumption DEF TypeOK, SeqNum, seq_diff
<1>3. seq_add(b, seq_diff(a, b)) = a
  <2>1. b + seq_diff(a, b) \in {a, a + SEQ_MOD, a - SEQ_MOD}
    BY <1>2, TwoHalves, SeqModAssumption DEF TypeOK, SeqNum
  <2>2. a % SEQ_MOD = a /\ (a + SEQ_MOD) % SEQ_MOD = a /\ (a - SEQ_MOD) % SEQ_MOD = a
    BY Remainder, SeqModAssumption DEF TypeOK, SeqNum
  <2> QED BY <2>1, <2>2 DEF seq_add
<1>4. (seq_diff(a, b) > 0) = seq_gt(a, b)
  BY <1>1, TwoHalves, SeqModAssumption
  DEF TypeOK, SeqNum, seq_diff, seq_gt, seq_lt
<1> QED BY <1>2, <1>3, <1>4 DEF DiffIsDistance

\* seq_between is membership of the interval it is given.
LEMMA WindowAlways == TypeOK => WindowIsInterval
<1> SUFFICES ASSUME TypeOK, NEW w \in 0 .. SEQ_HALF - 1
             PROVE  seq_between(b, a, seq_add(a, w)) = ((b - a) % SEQ_MOD < w)
  BY DEF WindowIsInterval
<1> DEFINE high == seq_add(a, w)
<1>1. w \in SeqNum /\ w < SEQ_HALF
  BY TwoHalves, SeqModAssumption DEF SeqNum
<1>2. high \in SeqNum /\ high \in {a + w, a + w - SEQ_MOD}
  BY <1>1, Step DEF TypeOK
<1> HIDE DEF high
<1>3. /\ a <= b => (b - a) % SEQ_MOD = b - a
      /\ b < a => (b - a) % SEQ_MOD = b - a + SEQ_MOD
      /\ b <= a => (a - b) % SEQ_MOD = a - b
      /\ a < b => (a - b) % SEQ_MOD = a - b + SEQ_MOD
      /\ b <= high => (high - b) % SEQ_MOD = high - b
      /\ high < b => (high - b) % SEQ_MOD = high - b + SEQ_MOD
  BY <1>2, Difference DEF TypeOK
<1>4. (seq_ge(b, a) /\ seq_lt(b, high)) = ((b - a) % SEQ_MOD < w)
  BY <1>1, <1>2, <1>3, TwoHalves, SeqModAssumption
  DEF TypeOK, SeqNum, seq_ge, seq_lt
<1> QED BY <1>4 DEF seq_between, high

\* The two numbers compared stay in the space as they slide round it.
LEMMA TypeCorrect == Spec => []TypeOK
<1>1. Init => TypeOK
  BY DEF Init, TypeOK
<1>2. TypeOK /\ [Next]_vars => TypeOK'
  <2> SUFFICES ASSUME TypeOK, NEW k \in 1 .. SEQ_MOD - 1, Advance(k) \/ Slide(k)
               PROVE  TypeOK'
    BY DEF TypeOK, Next, vars
  <2>1. k \in SeqNum
    BY SeqModAssumption DEF SeqNum
  <2> QED BY <2>1, Step DEF TypeOK, Advance, Slide
<1> QED BY <1>1, <1>2, PTL DEF Spec

\* The order, distance and window laws hold of any two sequence numbers of a
\* space of any even size, 2^32 included.
THEOREM SeqNoCorrect == Spec => [](Ordered /\ DiffIsDistance /\ WindowIsInterval)
<1>1. TypeOK => Ordered /\ DiffIsDistance /\ WindowIsInterval
  BY OrderedAlways, DiffAlways, WindowAlways
<1> QED BY <1>1, TypeCorrect, PTL

\* Comparisons and distances are the same before and after the space wraps.
THEOREM SlideCorrect == Spec => SlideKeepsOrder
<1>1. TypeOK /\ [Next]_vars
        => [(\E k \in 1 .. SEQ_MOD - 1 : Slide(k))
              => /\ seq_lt(a', b') = seq_lt(a, b)
                 /\ seq_diff(a', b') = seq_diff(a, b)]_vars
  <2> SUFFICES ASSUME TypeOK, NEW k \in 1 .. SEQ_MOD - 1, Slide(k)
               PROVE  /\ seq_lt(a', b') = seq_lt(a, b)
                      /\ seq_diff(a', b') = seq_diff(a, b)
    OBVIOUS
  <2>1. k \in SeqNum
    BY SeqModAssumption DEF SeqNum
  <2>2. (b' - a') % SEQ_MOD = (b - a) % SEQ_MOD
    BY <2>1, SlideDistance DEF Slide, TypeOK
  <2>3. (a' - b') % SEQ_MOD = (a - b) % SEQ_MOD
    BY <2>1, SlideDistance DEF Slide, TypeOK
  <2> QED BY <2>2, <2>3 DEF seq_lt, seq_diff
<1> QED BY <1>1, TypeCorrect, PTL DEF Spec, SlideKeepsOrder
=============================================================================
