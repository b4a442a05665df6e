----------------------------- MODULE ListProofs -----------------------------
(***************************************************************************)
(* Facts about numbers, lists and slices that the proofs about the queues  *)
(* share: least members, lists filtered by position (Picked), the bytes of *)
(* a slice, and loops that run a fixed number of turns.                    *)
(***************************************************************************)
EXTENDS Bytes, WellFoundedInduction, FiniteSetTheorems, SequenceTheorems, TLAPS

\* A set of numbers has a least one.
LEMMA LeastOf ==
    ASSUME NEW S, S \subseteq Nat, S # {}
    PROVE  \E n \in S : \A m \in S : n <= m
<1> DEFINE R == OpToRel(<, Nat)
<1>1. IsWellFoundedOn(R, Nat)
  BY NatLessThanWellFounded, Zenon
<1>2. \E x \in S : \A y \in S : ~ (<<y, x>> \in R)
  <2> HIDE DEF R
  <2> QED BY <1>1, WFMin, Zenon
<1>3. \A x, y \in Nat : (<<y, x>> \in R) <=> y < x
  BY DEF OpToRel
<1> HIDE DEF R
<1>4. PICK n \in S : \A m \in S : ~ (<<m, n>> \in R)
  BY <1>2
<1>5. ASSUME NEW m \in S PROVE n <= m
  <2>1. n \in Nat /\ m \in Nat
    OBVIOUS
  <2>2. ~ (m < n)
    BY <1>3, <1>4, <2>1
  <2> QED BY <2>1, <2>2
<1> QED BY <1>5

\* Among some of the places of a list there is a first, a second, and so on.
LEMMA NthExists ==
    ASSUME NEW n \in Nat, NEW P \in SUBSET (1 .. n), NEW k \in 1 .. Cardinality(P)
    PROVE  \E i \in P : Cardinality({j \in P : j <= i}) = k
<1> DEFINE Upto(m) == {j \in P : j <= m}
           M == {m \in 0 .. n : Cardinality(Upto(m)) >= k}
<1>0. P \subseteq Nat /\ \A j \in P : 1 <= j /\ j <= n
  OBVIOUS
<1>1. IsFiniteSet(P) /\ Cardinality(P) \in Nat
  <2>1. IsFiniteSet(1 .. n)
    BY FS_Interval
  <2> QED BY <2>1, FS_Subset, FS_CardinalityType
<1>2. \A m \in 0 .. n : IsFiniteSet(Upto(m)) /\ Cardinality(Upto(m)) \in Nat
  <2> SUFFICES ASSUME NEW m \in 0 .. n
               PROVE  IsFiniteSet(Upto(m)) /\ Cardinality(Upto(m)) \in Nat
    OBVIOUS
  <2>1. Upto(m) \subseteq P
    OBVIOUS
  <2> HIDE DEF Upto
  <2> QED BY <1>1, <2>1, FS_Subset, FS_CardinalityType
<1>3. n \in M
  <2>1. Upto(n) = P
    BY <1>0, Zenon
  <2>2. n \in 0 .. n /\ Cardinality(P) >= k
    BY <1>1
  <2> QED BY <2>1, <2>2, Zenon
<1>4. PICK m \in M : \A l \in M : m <= l
  <2>1. M \subseteq Nat /\ M # {}
    BY <1>3
  <2> HIDE DEF M
  <2> QED BY <2>1, LeastOf
<1>5. m \in 0 .. n /\ Cardinality(Upto(m)) >= k
  OBVIOUS
<1>6. m # 0
  <2>0. \A j \in P : ~(j <= 0)
    <3> HIDE DEF M
    <3> QED BY <1>0
  <2>1. Upto(0) = {}
    BY <2>0, Zenon
  <2>2. Cardinality(Upto(0)) = 0
    <3> HIDE DEF Upto
    <3> QED BY <2>1, FS_EmptySet
  <2> HIDE DEF Upto
  <2> QED BY <1>1, <1>5, <2>2
<1>7. m - 1 \in 0 .. n /\ ~(m - 1 \in M)
  <2>1. m \in Nat /\ m - 1 < m /\ m - 1 \in 0 .. n
    BY <1>5, <1>6
  <2>2. ASSUME m - 1 \in M PROVE FALSE
    <3>1. m <= m - 1
      BY <1>4, <2>2
    <3> QED BY <2>1, <3>1
  <2> QED BY <2>1, <2>2
<1>8. Cardinality(Upto(m - 1)) < k
  <2>1. ~(Cardinality(Upto(m - 1)) >= k)
    BY <1>7
  <2>2. Cardinality(Upto(m - 1)) \in Nat
    <3> HIDE DEF Upto, M
    <3> QED BY <1>2, <1>7
  <2>3. k \in Nat
    <3> HIDE DEF M
    <3> QED BY <1>1
  <2> HIDE DEF Upto
  <2> QED BY <2>1, <2>2, <2>3
<1>9. m \in P /\ Cardinality(Upto(m)) = Cardinality(Upto(m - 1)) + 1
  <2>1. CASE m \in P
    <3>1. Upto(m) = Upto(m - 1) \cup {m} /\ m \notin Upto(m - 1)
      <4>1. m \in Nat /\ ~(m <= m - 1) /\ \A j \in P : j <= m <=> (j <= m - 1 \/ j = m)
        BY <1>0, <1>5
      <4>2. m \notin Upto(m - 1)
        BY <4>1, Zenon
      <4>3. Upto(m) = Upto(m - 1) \cup {m}
        BY <2>1, <4>1, Zenon
      <4> QED BY <4>2, <4>3
    <3> HIDE DEF Upto
    <3> QED BY <1>2, <1>7, <2>1, <3>1, FS_AddElement
  <2>2. CASE m \notin P
    <3>1. Upto(m) = Upto(m - 1)
      <4>1. m \in Nat /\ \A j \in P : j <= m <=> (j <= m - 1 \/ j = m)
        BY <1>0, <1>5
      <4> HIDE DEF M
      <4> QED BY <2>2, <4>1
    <3> HIDE DEF Upto, M
    <3> QED BY <1>1, <1>2, <1>5, <1>7, <1>8, <3>1
  <2> QED BY <2>1, <2>2
<1>10. Cardinality(Upto(m)) = k
  <2> DEFINE a == Cardinality(Upto(m))
             b == Cardinality(Upto(m - 1))
  <2>0. k \in Nat
    BY <1>1
  <2>1. a \in Nat /\ b \in Nat /\ k \in Nat /\ a >= k /\ b < k /\ a = b + 1
    <3> HIDE DEF Upto, M
    <3> QED BY <1>2, <1>5, <1>7, <1>8, <1>9, <2>0
  <2> HIDE DEF a, b
  <2>2. a = k
    BY <2>1
  <2> QED BY <2>2 DEF a
<1> QED BY <1>9, <1>10

\* A list comprehension keeps as many items as it picks places.
LEMMA PickedIs ==
    ASSUME NEW S, NEW items \in Seq(S), NEW P, P \subseteq 1 .. Len(items)
    PROVE  /\ Picked(items, P) \in Seq(S)
           /\ Len(Picked(items, P)) = Cardinality(P) /\ IsFiniteSet(P)
<1> DEFINE n == Cardinality(P)
           Nth(k) == CHOOSE i \in P : Cardinality({j \in P : j <= i}) = k
<1>1. Len(items) \in Nat /\ DOMAIN items = 1 .. Len(items)
  BY LenProperties
<1>2. IsFiniteSet(P) /\ n \in Nat
  <2>1. IsFiniteSet(1 .. Len(items))
    BY <1>1, FS_Interval
  <2> QED BY <2>1, FS_Subset, FS_CardinalityType
<1>3. \A k \in 1 .. n : Nth(k) \in P
  <2> SUFFICES ASSUME NEW k \in 1 .. n PROVE Nth(k) \in P
    OBVIOUS
  <2>1. \E i \in P : Cardinality({j \in P : j <= i}) = k
    BY <1>1, NthExists
  <2> QED BY <2>1
<1>4. Picked(items, P) = [k \in 1 .. n |-> items[Nth(k)]]
  BY DEF Picked
<1> HIDE DEF Nth, n
<1>5. \A k \in 1 .. n : items[Nth(k)] \in S
  BY <1>1, <1>3, ElementOfSeq
<1>6. Picked(items, P) \in Seq(S) /\ Len(Picked(items, P)) = n
  BY <1>2, <1>4, <1>5
<1> QED BY <1>2, <1>6 DEF n

\* Each item picked is an item of the list.
LEMMA PickedFrom ==
    ASSUME NEW n \in Nat, NEW items, NEW P \in SUBSET (1 .. n), NEW k \in 1 .. Cardinality(P)
    PROVE  Picked(items, P)[k] \in {items[i] : i \in P}
<1> DEFINE Nth(m) == CHOOSE i \in P : Cardinality({j \in P : j <= i}) = m
<1>1. Nth(k) \in P
  <2>1. \E i \in P : Cardinality({j \in P : j <= i}) = k
    BY NthExists, Zenon
  <2> QED BY <2>1
<1>2. Picked(items, P) = [m \in 1 .. Cardinality(P) |-> items[Nth(m)]]
  BY DEF Picked
<1> HIDE DEF Nth
<1> QED BY <1>1, <1>2

\* What is picked and what is left make up the list.
LEMMA PickedRest ==
    ASSUME NEW S, NEW items \in Seq(S), NEW P, P \subseteq 1 .. Len(items)
    PROVE  Len(items) = Len(Picked(items, P)) + Len(Picked(items, (1 .. Len(items)) \ P))
<1> DEFINE A == 1 .. Len(items)
           Q == A \ P
<1>1. IsFiniteSet(A) /\ Cardinality(A) = Len(items) /\ Len(items) \in Nat
  <2> DEFINE n == Len(items)
  <2>1. n \in Nat
    BY LenProperties
  <2> HIDE DEF n
  <2>2. IsFiniteSet(1 .. n) /\ Cardinality(1 .. n) = n
    BY <2>1, FS_Interval
  <2> QED BY <2>1, <2>2 DEF n
<1>2. Q \subseteq A /\ P \cup Q = A /\ P \cap Q = {}
  OBVIOUS
<1>3. IsFiniteSet(P) /\ IsFiniteSet(Q) /\ Cardinality(P) \in Nat /\ Cardinality(Q) \in Nat
  BY <1>1, <1>2, FS_Subset, FS_CardinalityType
<1> HIDE DEF A, Q
<1>4. Cardinality(A) = Cardinality(P) + Cardinality(Q)
  <2>1. Cardinality(P \cup Q) = Cardinality(P) + Cardinality(Q) - Cardinality(P \cap Q)
    BY <1>3, FS_Union
  <2>2. Cardinality(P \cap Q) = 0
    BY <1>2, FS_EmptySet
  <2> DEFINE p == Cardinality(P)
             q == Cardinality(Q)
  <2>3. Cardinality(A) = p + q - 0 /\ p \in Nat /\ q \in Nat
    BY <1>2, <1>3, <2>1, <2>2
  <2> HIDE DEF p, q
  <2>4. Cardinality(A) = p + q
    BY <2>3
  <2> QED BY <2>4 DEF p, q
<1>5. Len(Picked(items, P)) = Cardinality(P) /\ Len(Picked(items, Q)) = Cardinality(Q)
  BY <1>2, PickedIs DEF A
<1> QED BY <1>1, <1>4, <1>5 DEF A, Q

\* The places in P, in their order.
InOrder(P) ==
    [k \in 1 .. Cardinality(P) |-> CHOOSE i \in P : Cardinality({j \in P : j <= i}) = k]

\* The items picked are those at the places picked.
LEMMA PickedAt ==
    ASSUME NEW items, NEW P
    PROVE  \A k \in 1 .. Cardinality(P) : Picked(items, P)[k] = items[InOrder(P)[k]]
BY DEF Picked, InOrder

\* The places in their order are all of them, and none twice.
LEMMA InOrderIs ==
    ASSUME NEW n \in Nat, NEW P \in SUBSET (1 .. n)
    PROVE  /\ \A k \in 1 .. Cardinality(P) : InOrder(P)[k] \in P
           /\ \A k, m \in 1 .. Cardinality(P) : InOrder(P)[k] = InOrder(P)[m] => k = m
           /\ \A i \in P : \E k \in 1 .. Cardinality(P) : InOrder(P)[k] = i
<1> DEFINE Upto(i) == {j \in P : j <= i}
           c == Cardinality(P)
           Nth(k) == CHOOSE i \in P : Cardinality({j \in P : j <= i}) = k
           at == [k \in 1 .. c |-> Nth(k)]
<1>0. InOrder(P) = at
  BY DEF InOrder
<1>1. IsFiniteSet(P) /\ c \in Nat
  <2>1. IsFiniteSet(1 .. n)
    BY FS_Interval
  <2> QED BY <2>1, FS_Subset, FS_CardinalityType
<1>2. ASSUME NEW k \in 1 .. c PROVE Nth(k) \in P /\ Cardinality(Upto(Nth(k))) = k
  <2>1. \E i \in P : Cardinality({j \in P : j <= i}) = k
    BY NthExists, Zenon
  <2> QED BY <2>1
<1>4. ASSUME NEW i \in P PROVE \E k \in 1 .. c : at[k] = i
  <2>1. /\ Upto(i) \subseteq P /\ i \in Upto(i)
        /\ IsFiniteSet(Upto(i)) /\ Cardinality(Upto(i)) \in Nat
        /\ Cardinality(Upto(i)) <= c
    <3>1. Upto(i) \subseteq P /\ i \in Upto(i)
      OBVIOUS
    <3> HIDE DEF Upto
    <3> QED BY <1>1, <3>1, FS_Subset, FS_CardinalityType
  <2>2. Cardinality(Upto(i)) # 0
    <3> HIDE DEF Upto
    <3> QED BY <2>1, FS_EmptySet
  <2> DEFINE k == Cardinality(Upto(i))
  <2>3. k \in 1 .. c
    <3> HIDE DEF Upto
    <3> QED BY <1>1, <2>1, <2>2
  <2> HIDE DEF k
  <2> DEFINE h == Nth(k)
  <2>4. h \in P /\ Cardinality(Upto(h)) = k
    BY <1>2, <2>3
  <2> HIDE DEF h
  <2>5. h \in Int /\ i \in Int /\ h \in Upto(h)
    BY <2>4
  <2>6. IsFiniteSet(Upto(h))
    <3>1. Upto(h) \subseteq P
      OBVIOUS
    <3> HIDE DEF Upto
    <3> QED BY <1>1, <3>1, FS_Subset
  <2>7. Upto(h) = Upto(i)
    <3>0. \A j \in P : j \in Int
      OBVIOUS
    <3>1. Upto(h) \subseteq Upto(i) \/ Upto(i) \subseteq Upto(h)
      <4>1. CASE h <= i
        <5>1. \A j \in P : j <= h => j <= i
          BY <2>5, <3>0, <4>1
        <5> QED BY <5>1
      <4>2. CASE i <= h
        <5>1. \A j \in P : j <= i => j <= h
          BY <2>5, <3>0, <4>2
        <5> QED BY <5>1
      <4> QED BY <2>5, <4>1, <4>2
    <3> HIDE DEF Upto
    <3> QED BY <2>1, <2>4, <2>6, <3>1, FS_Subset DEF k
  <2>8. h <= i /\ i <= h
    BY <2>1, <2>5, <2>7
  <2>9. h = i
    BY <2>5, <2>8
  <2> QED BY <2>3, <2>9 DEF h
<1> HIDE DEF Nth, Upto
<1>5. \A k \in 1 .. c : at[k] \in P
  BY <1>2
<1>6. \A k, m \in 1 .. c : at[k] = at[m] => k = m
  BY <1>2
<1> HIDE DEF at
<1> QED BY <1>0, <1>4, <1>5, <1>6

-----------------------------------------------------------------------------
(* Slices                                                                  *)

\* data[:n] has the first bytes of data.
LEMMA FirstBytesAre ==
    ASSUME NEW data \in Seq(Nat), NEW n \in Nat
    PROVE  /\ FirstBytes(data, n) \in Seq(Nat)
           /\ Len(FirstBytes(data, n)) = Least(n, Len(data))
           /\ \A i \in 1 .. Least(n, Len(data)) : FirstBytes(data, n)[i] = data[i]
<1> DEFINE k == Least(n, Len(data))
<1>1. k \in 0 .. Len(data)
  BY LenProperties DEF Least
<1> HIDE DEF k
<1>2. /\ SubSeq(data, 1, k) \in Seq(Nat) /\ Len(SubSeq(data, 1, k)) = k
      /\ \A i \in 1 .. k : SubSeq(data, 1, k)[i] = data[i]
  BY <1>1, LenProperties, SubSeqProperties
<1> QED BY <1>2 DEF FirstBytes, k

\* data[n:] has the bytes of data from place n on.
LEMMA BytesFromAre ==
    ASSUME NEW data \in Seq(Nat), NEW n \in Nat, n <= Len(data)
    PROVE  /\ BytesFrom(data, n) \in Seq(Nat)
           /\ n + Len(BytesFrom(data, n)) = Len(data)
           /\ \A i \in 1 .. Len(BytesFrom(data, n)) : BytesFrom(data, n)[i] = data[n + i]
<1>1. Len(data) \in Nat
  BY LenProperties
<1>2. BytesFrom(data, n) = SubSeq(data, n + 1, Len(data))
  BY DEF BytesFrom
<1> DEFINE l == Len(data)
<1> HIDE DEF l
<1>3. /\ SubSeq(data, n + 1, l) \in Seq(Nat) /\ Len(SubSeq(data, n + 1, l)) = l - n
      /\ \A i \in 1 .. l - n : SubSeq(data, n + 1, l)[i] = data[n + 1 + i - 1]
  BY <1>1, SubSeqProperties DEF l
<1>4. l \in Nat /\ n + (l - n) = l /\ \A i \in 1 .. l - n : n + 1 + i - 1 = n + i
  BY <1>1 DEF l
<1>5. /\ BytesFrom(data, n) \in Seq(Nat) /\ Len(BytesFrom(data, n)) = l - n
      /\ \A i \in 1 .. l - n : BytesFrom(data, n)[i] = data[n + i]
  BY <1>2, <1>3, <1>4 DEF l
<1>6. n + Len(BytesFrom(data, n)) = l
  BY <1>4, <1>5
<1> QED BY <1>5, <1>6 DEF l

-----------------------------------------------------------------------------
(* Loops                                                                   *)

\* The values a loop of n turns, each of which stays in S, goes through.
Follows(after, turn, start, n) ==
    after[0] = start /\ \A k \in 1 .. n : after[k] = turn[after[k - 1]]
Turns(S, turn, start, n) ==
    CHOOSE after \in [0 .. n -> S] : Follows(after, turn, start, n)

\* There is one after every turn.
LEMMA LoopExists ==
    ASSUME NEW S, NEW turn \in [S -> S], NEW start \in S, NEW n \in Nat
    PROVE  /\ Turns(S, turn, start, n) \in [0 .. n -> S]
           /\ Follows(Turns(S, turn, start, n), turn, start, n)
<1> DEFINE Runs(m) == \E after \in [0 .. m -> S] : Follows(after, turn, start, m)
           Bad == {m \in Nat : ~Runs(m)}
<1>1. Runs(0)
  <2> DEFINE f == [k \in 0 .. 0 |-> start]
  <2>1. f \in [0 .. 0 -> S] /\ f[0] = start /\ \A k \in 1 .. 0 : FALSE
    OBVIOUS
  <2> HIDE DEF f
  <2> QED BY <2>1 DEF Follows
<1>2. ASSUME NEW m \in Nat, Runs(m) PROVE Runs(m + 1)
  <2>1. PICK f \in [0 .. m -> S] :
           f[0] = start /\ \A k \in 1 .. m : f[k] = turn[f[k - 1]]
    BY <1>2 DEF Follows
  <2> DEFINE g == [k \in 0 .. m + 1 |-> IF k = m + 1 THEN turn[f[m]] ELSE f[k]]
  <2>2. f[m] \in S /\ turn[f[m]] \in S
    OBVIOUS
  <2>3. g \in [0 .. m + 1 -> S]
    BY <2>2
  <2>4. g[0] = start
    BY <2>1
  <2>5. ASSUME NEW k \in 1 .. m + 1 PROVE g[k] = turn[g[k - 1]]
    <3>1. CASE k = m + 1
      <4>1. k - 1 = m /\ m \in 0 .. m + 1 /\ m # m + 1
        BY <3>1
      <4> QED BY <3>1, <4>1
    <3>2. CASE k # m + 1
      <4>1. k \in 1 .. m /\ k - 1 \in 0 .. m /\ k - 1 # m + 1
        BY <3>2
      <4>2. g[k] = f[k] /\ g[k - 1] = f[k - 1]
        BY <3>2, <4>1
      <4> QED BY <2>1, <4>1, <4>2
    <3> QED BY <3>1, <3>2
  <2> HIDE DEF g
  <2> QED BY <2>3, <2>4, <2>5 DEF Follows
<1> HIDE DEF Runs
<1>3. ASSUME Bad # {} PROVE FALSE
  <2>1. PICK m \in Bad : \A k \in Bad : m <= k
    <3>1. Bad \subseteq Nat
      OBVIOUS
    <3> HIDE DEF Bad
    <3> QED BY <1>3, <3>1, LeastOf
  <2>2. m \in Nat /\ ~Runs(m) /\ m # 0
    BY <1>1
  <2>3. m - 1 \in Nat /\ ~(m <= m - 1) /\ m - 1 + 1 = m
    BY <2>2
  <2>4. Runs(m - 1)
    BY <2>1, <2>3
  <2> QED BY <1>2, <2>2, <2>3, <2>4
<1>4. Runs(n)
  BY <1>3
<1> QED BY <1>4 DEF Runs, Turns

\* A property that the first value has and every turn keeps, all values have.
LEMMA LoopKeeps ==
    ASSUME NEW n \in Nat, NEW good \in SUBSET (0 .. n), 0 \in good,
           \A k \in 1 .. n : k - 1 \in good => k \in good
    PROVE  n \in good
<1> DEFINE Bad == {m \in 0 .. n : m \notin good}
<1>1. ASSUME Bad # {} PROVE FALSE
  <2>1. PICK m \in Bad : \A k \in Bad : m <= k
    <3>1. Bad \subseteq Nat
      OBVIOUS
    <3> HIDE DEF Bad
    <3> QED BY <1>1, <3>1, LeastOf
  <2>2. m \in 1 .. n /\ m \notin good /\ m - 1 \in 0 .. n /\ ~(m <= m - 1)
    OBVIOUS
  <2>3. m - 1 \in good
    BY <2>1, <2>2
  <2> QED BY <2>2, <2>3
<1> QED BY <1>1
=============================================================================
