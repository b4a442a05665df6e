----------------------------- MODULE ArpProofs -----------------------------
(***************************************************************************)
(* Address resolution for every number of hosts, threads and packets and   *)
(* for every limit: the cache and the queues stay within their limits, a   *)
(* packet is in exactly one place, a parked one has been asked for.        *)
(*                                                                         *)
(* Conserved counts places and is not inductive: a packet could wait in    *)
(* the queue of a host that is not its next hop and be popped with the     *)
(* wrong ones.  Counts says where each packet may wait, that the packets   *)
(* of one flush have one next hop, and adds up the places of a packet as   *)
(* one number, which every action leaves at 1.                             *)
(***************************************************************************)
EXTENDS ArpResolution, FiniteSetTheorems, SequenceTheorems, TLAPS

USE DEF fate

\* Where a sending thread and the reader may be.
ThreadState ==
    {Idle} \cup [at : {"emit", "park"}, packet : Packets]
           \cup [at : {"ask"}, host : Hosts]

ReaderState ==
    {Idle} \cup [at : {"pop"}, host : Hosts]
           \cup [at : {"flush"}, queue : Seq(Packets)]

\* The kinds of the variables, without the limits.
Types ==
    /\ pending \in [Hosts -> Seq(Packets)]
    /\ thread \in [Threads -> ThreadState]
    /\ reader \in ReaderState
    /\ todo \subseteq Packets /\ dropped \subseteq Packets
    /\ failed \subseteq Packets /\ discarded \subseteq Packets
    /\ emitted \in Seq(Packets)
    /\ requests \in [Hosts -> Nat] /\ replies \in [Hosts -> Nat]
    /\ lost \in Nat

\* max_entries and max_arp_pending.
Limits ==
    /\ cache \in Seq(Hosts) /\ Len(cache) <= MaxEntries
    /\ \A h \in Hosts : Len(pending[h]) <= MaxArpPending

\* A queue holds packets of one next hop.
AtOwnHost(q, h) == \A i \in 1 .. Len(q) : NextHop[q[i]] = h

\* The threads that hold packet p.
Hands(p) == {t \in Threads : Sending(t) = <<p>>}
One(p, set) == IF p \in set THEN 1 ELSE 0

\* How many times over packet p will not be sent, and exists.
Gone(p) == One(p, dropped) + One(p, failed) + One(p, discarded)
Places(p) ==
    Times(p, pending[NextHop[p]]) + Cardinality(Hands(p)) + Times(p, Flushing)
        + Times(p, emitted) + One(p, todo) + Gone(p)

\* The packets of a flush have one next hop, and so have a discarded one and
\* the one that could not be sent.
Together(q) == \A i, j \in 1 .. Len(q) : NextHop[q[i]] = NextHop[q[j]]
Behind(p) == \E q \in failed : NextHop[q] = NextHop[p]

\* The inductive invariant behind Conserved.
Counts ==
    /\ \A h \in Hosts : AtOwnHost(pending[h], h)
    /\ Together(Flushing)
    /\ \A p \in discarded : Behind(p)
    /\ \A p \in Packets : IsFiniteSet(Hands(p)) /\ Places(p) = 1

-----------------------------------------------------------------------------
(* Sequences                                                               *)

\* A set of numbers has a least one.
LEMMA LeastOf ==
    ASSUME NEW S, S \subseteq Nat, S # {}
    PROVE  \E n \in S : \A m \in S : n <= m
<1> DEFINE R == OpToRel(<, Nat)
<1>1. IsWellFoundedOn(R, Nat)
  BY NatLessThanWellFounded, Zenon
<1>2. \E x \in S : \A y \in S : ~ (<<y, x>> \in R)
  <2> HIDE DEF R
  <2> QED BY <1>1, WFMin, Zenon
<1>3. \A x, y \in Nat : (<<y, x>> \in R) <=> y < x
  BY DEF OpToRel
<1> HIDE DEF R
<1>4. PICK n \in S : \A m \in S : ~ (<<m, n>> \in R)
  BY <1>2
<1>5. ASSUME NEW m \in S PROVE n <= m
  <2>1. n \in Nat /\ m \in Nat
    OBVIOUS
  <2>2. ~ (m < n)
    BY <1>3, <1>4, <2>1
  <2> QED BY <2>1, <2>2
<1> QED BY <1>5

\* Taking an entry out of the cache makes room for one.
LEMMA RemoveFirstType ==
    ASSUME NEW s \in Seq(Hosts), NEW e
    PROVE  /\ RemoveFirst(s, e) \in Seq(Hosts)
           /\ e \in ToSet(s) => Len(RemoveFirst(s, e)) = Len(s) - 1
           /\ e \notin ToSet(s) => RemoveFirst(s, e) = s
<1> DEFINE I == {i \in 1 .. Len(s) : s[i] = e}
<1>1. Len(s) \in Nat /\ DOMAIN s = 1 .. Len(s)
  BY LenProperties
<1>2. CASE I = {}
  <2>1. e \notin ToSet(s) /\ RemoveFirst(s, e) = s
    BY <1>1, <1>2 DEF ToSet, RemoveFirst
  <2> QED BY <2>1
<1>3. CASE I # {}
  <2> DEFINE k == Min(I)
  <2>1. e \in ToSet(s)
    BY <1>1, <1>3 DEF ToSet
  <2>2. RemoveFirst(s, e) = RemoveAt(s, k)
    BY <1>3 DEF RemoveFirst, SelectInSeq
  <2>3. k \in I
    <3>1. I \in SUBSET Nat
      BY <1>1
    <3> HIDE DEF I
    <3>2. \E n \in I : \A m \in I : n <= m
      BY <1>3, <3>1, LeastOf
    <3> QED BY <3>2 DEF Min
  <2>4. k \in 1 .. Len(s)
    BY <2>3
  <2> HIDE DEF k, I
  <2>5. /\ SubSeq(s, 1, k - 1) \in Seq(Hosts) /\ Len(SubSeq(s, 1, k - 1)) = k - 1
    <3>1. \A i \in 1 .. k - 1 : s[i] \in Hosts
      BY <1>1, <2>4, ElementOfSeq
    <3> QED BY <1>1, <2>4, <3>1, SubSeqProperties
  <2>6. /\ SubSeq(s, k + 1, Len(s)) \in Seq(Hosts)
        /\ Len(SubSeq(s, k + 1, Len(s))) = Len(s) - k
    <3>1. \A i \in k + 1 .. Len(s) : s[i] \in Hosts
      BY <1>1, <2>4, ElementOfSeq
    <3> DEFINE m == k + 1
    <3>2. m \in Int /\ Len(s) \in Int /\ m = k + 1 /\ \A i \in m .. Len(s) : s[i] \in Hosts
      BY <1>1, <2>4, <3>1
    <3> HIDE DEF m
    <3>3. /\ SubSeq(s, m, Len(s)) \in Seq(Hosts)
          /\ Len(SubSeq(s, m, Len(s))) = IF m <= Len(s) THEN Len(s) - m + 1 ELSE 0
      BY <3>2, SubSeqProperties
    <3>4. k \in Int /\ k <= Len(s) /\ m = k + 1 /\ Len(s) \in Int
      BY <1>1, <2>4, <3>2
    <3>5. CASE m <= Len(s)
      BY <3>3, <3>4, <3>5 DEF m
    <3>6. CASE ~(m <= Len(s))
      BY <3>3, <3>4, <3>6 DEF m
    <3> QED BY <3>5, <3>6
  <2>7. RemoveAt(s, k) \in Seq(Hosts) /\ Len(RemoveAt(s, k)) = (k - 1) + (Len(s) - k)
    BY <2>5, <2>6, ConcatProperties DEF RemoveAt
  <2> QED BY <1>1, <2>1, <2>2, <2>4, <2>7
<1> QED BY <1>2, <1>3

\* An appended packet occurs once more.
LEMMA TimesAppend ==
    ASSUME NEW s \in Seq(Packets), NEW x \in Packets, NEW p
    PROVE  /\ Times(p, s) \in Nat
           /\ Times(p, Append(s, x)) = Times(p, s) + One(p, {x})
<1> DEFINE n == Len(s)
           A == {i \in 1 .. n : s[i] = p}
           a == Append(s, x)
           B == {i \in 1 .. Len(a) : a[i] = p}
<1>1. n \in Nat
  BY LenProperties
<1>2. Len(a) = n + 1 /\ a[n + 1] = x /\ \A i \in 1 .. n : a[i] = s[i]
  BY AppendProperties
<1>3. IsFiniteSet(A) /\ Cardinality(A) \in Nat
  <2>1. IsFiniteSet(1 .. n)
    BY <1>1, FS_Interval
  <2>2. A \subseteq 1 .. n
    OBVIOUS
  <2> HIDE DEF A, n
  <2> QED BY <2>1, <2>2, FS_Subset, FS_CardinalityType
<1>4. n + 1 \notin A
  BY <1>1
<1>5. CASE x = p
  <2>1. B = A \cup {n + 1}
    BY <1>1, <1>2, <1>5
  <2>2. Cardinality(B) = Cardinality(A) + 1
    <3> HIDE DEF A, B
    <3> QED BY <1>3, <1>4, <2>1, FS_AddElement
  <2> QED BY <1>3, <1>5, <2>2 DEF Times, One
<1>6. CASE x # p
  <2>1. B = A
    BY <1>1, <1>2, <1>6
  <2>2. Cardinality(B) = Cardinality(A) + 0
    <3> HIDE DEF A, B
    <3> QED BY <1>3, <2>1
  <2> QED BY <1>3, <1>6, <2>2 DEF Times, One
<1> QED BY <1>5, <1>6

\* No packet occurs in an empty sequence.
LEMMA TimesEmpty == \A p : Times(p, << >>) = 0
<1> SUFFICES ASSUME NEW p PROVE Times(p, << >>) = 0
  OBVIOUS
<1>1. {i \in 1 .. Len(<< >>) : << >>[i] = p} = {}
  BY EmptySeq
<1> QED BY <1>1, FS_EmptySet DEF Times

\* Without its head a sequence holds that packet once less, and others as often.
LEMMA TimesTail ==
    ASSUME NEW s \in Seq(Packets), s # << >>, NEW p
    PROVE  /\ Times(p, Tail(s)) \in Nat
           /\ Times(p, s) = Times(p, Tail(s)) + One(p, {Head(s)})
<1> DEFINE t == Tail(s)
           n == Len(t)
           A == {i \in 1 .. n : t[i] = p}
           B == {i \in 1 .. Len(s) : s[i] = p}
           C == {i \in 2 .. Len(s) : s[i] = p}
<1>1. /\ t \in Seq(Packets) /\ n \in Nat /\ Len(s) = n + 1 /\ Head(s) = s[1]
      /\ \A i \in 1 .. n : t[i] = s[i + 1]
  BY HeadTailProperties, LenProperties
<1>2. IsFiniteSet(A) /\ Cardinality(A) \in Nat
  <2>1. IsFiniteSet(1 .. n)
    BY <1>1, FS_Interval
  <2>2. A \subseteq 1 .. n
    OBVIOUS
  <2> HIDE DEF A, n
  <2> QED BY <2>1, <2>2, FS_Subset, FS_CardinalityType
<1>3. IsFiniteSet(C) /\ Cardinality(C) = Cardinality(A)
  <2> DEFINE f == [i \in A |-> i + 1]
  <2>1. f \in Bijection(A, C)
    <3>1. f \in [A -> C]
      BY <1>1
    <3>2. \A i, j \in A : f[i] = f[j] => i = j
      BY <1>1
    <3>3. \A j \in C : \E i \in A : f[i] = j
      <4> SUFFICES ASSUME NEW j \in C PROVE \E i \in A : f[i] = j
        OBVIOUS
      <4>1. j - 1 \in A /\ (j - 1) + 1 = j
        BY <1>1
      <4> QED BY <4>1
    <3>4. DOMAIN f = A
      OBVIOUS
    <3> HIDE DEF f, A, C
    <3> QED BY <3>1, <3>2, <3>3, <3>4
         DEF Bijection, Injection, Surjection, IsInjective
  <2> HIDE DEF f, A, C
  <2>2. ExistsBijection(A, C)
    BY <2>1 DEF ExistsBijection
  <2> QED BY <1>2, <2>2, FS_Bijection
<1>4. 1 \notin C
  BY <1>1
<1>5. CASE Head(s) = p
  <2>1. B = C \cup {1}
    BY <1>1, <1>5
  <2>2. Cardinality(B) = Cardinality(A) + 1
    <3> HIDE DEF A, B, C
    <3> QED BY <1>3, <1>4, <2>1, FS_AddElement
  <2> QED BY <1>2, <1>5, <2>2 DEF Times, One
<1>6. CASE Head(s) # p
  <2>1. B = C
    BY <1>1, <1>6
  <2>2. Cardinality(B) = Cardinality(A) + 0
    <3> HIDE DEF A, B, C
    <3> QED BY <1>2, <1>3, <2>1
  <2> QED BY <1>2, <1>6, <2>2 DEF Times, One
<1> QED BY <1>5, <1>6

\* How often a packet occurs is a number, positive where it occurs.
LEMMA TimesType ==
    ASSUME NEW s \in Seq(Packets), NEW p
    PROVE  /\ Times(p, s) \in Nat
           /\ Times(p, s) = 0 <=> \A i \in 1 .. Len(s) : s[i] # p
<1> DEFINE A == {i \in 1 .. Len(s) : s[i] = p}
<1>1. IsFiniteSet(A) /\ Cardinality(A) \in Nat
  <2>1. Len(s) \in Nat /\ A \subseteq 1 .. Len(s)
    BY LenProperties
  <2>2. IsFiniteSet(1 .. Len(s))
    BY <2>1, FS_Interval
  <2> HIDE DEF A
  <2> QED BY <2>1, <2>2, FS_Subset, FS_CardinalityType
<1>2. Cardinality(A) = 0 <=> A = {}
  <2> HIDE DEF A
  <2> QED BY <1>1, FS_EmptySet
<1> QED BY <1>1, <1>2 DEF Times

-----------------------------------------------------------------------------
(* What the threads hold                                                   *)

Carries(state, p) == state.at \in {"emit", "park"} /\ state.packet = p
Load(state, p) == IF Carries(state, p) THEN 1 ELSE 0

\* A thread has a packet in its hands while it is to be emitted or parked.
LEMMA HandsAre == \A p : Hands(p) = {t \in Threads : Carries(thread[t], p)}
<1> SUFFICES ASSUME NEW p, NEW t \in Threads
             PROVE  Sending(t) = <<p>> <=> Carries(thread[t], p)
  BY DEF Hands
<1>1. << >> # <<p>>
  OBVIOUS
<1> QED BY <1>1 DEF Sending, Carries

\* The same in the next state.
LEMMA HandsWillBe == \A p : Hands(p)' = {t \in Threads : Carries(thread'[t], p)}
<1> SUFFICES ASSUME NEW p, NEW t \in Threads
             PROVE  Sending(t)' = <<p>> <=> Carries(thread'[t], p)
  BY DEF Hands
<1>1. << >> # <<p>>
  OBVIOUS
<1> QED BY <1>1 DEF Sending, Carries

\* A thread that takes a packet holds it, and one that lets go does not.
LEMMA HandsChange ==
    ASSUME NEW t \in Threads, NEW p, NEW new,
           thread \in [Threads -> ThreadState],
           thread' = [thread EXCEPT ![t] = new],
           IsFiniteSet(Hands(p))
    PROVE  /\ IsFiniteSet(Hands(p)') /\ Cardinality(Hands(p)) \in Nat
           /\ Cardinality(Hands(p)') + Load(thread[t], p)
                = Cardinality(Hands(p)) + Load(new, p)
<1> DEFINE A == Hands(p)
           B == Hands(p)'
<1>1. A = {u \in Threads : Carries(thread[u], p)}
  BY HandsAre
<1>2. B = {u \in Threads : Carries(thread'[u], p)}
  BY HandsWillBe
<1>3. thread'[t] = new /\ \A u \in Threads : u # t => thread'[u] = thread[u]
  OBVIOUS
<1>4. IsFiniteSet(A) /\ Cardinality(A) \in Nat
  BY FS_CardinalityType
<1> HIDE DEF A, B
<1>5. CASE Carries(thread[t], p) /\ Carries(new, p)
  <2>1. B = A
    BY <1>1, <1>2, <1>3, <1>5
  <2> QED BY <1>4, <1>5, <2>1 DEF Load, A, B
<1>6. CASE ~Carries(thread[t], p) /\ ~Carries(new, p)
  <2>1. B = A
    BY <1>1, <1>2, <1>3, <1>6
  <2> QED BY <1>4, <1>6, <2>1 DEF Load, A, B
<1>7. CASE Carries(thread[t], p) /\ ~Carries(new, p)
  <2>1. B = A \ {t} /\ t \in A
    BY <1>1, <1>2, <1>3, <1>7
  <2>2. IsFiniteSet(B) /\ Cardinality(B) = Cardinality(A) - 1
    BY <1>4, <2>1, FS_RemoveElement
  <2> QED BY <1>4, <1>7, <2>2 DEF Load, A, B
<1>8. CASE ~Carries(thread[t], p) /\ Carries(new, p)
  <2>1. B = A \cup {t} /\ t \notin A
    BY <1>1, <1>2, <1>3, <1>8
  <2>2. IsFiniteSet(B) /\ Cardinality(B) = Cardinality(A) + 1
    BY <1>4, <2>1, FS_AddElement
  <2> QED BY <1>4, <1>8, <2>2 DEF Load, A, B
<1> QED BY <1>5, <1>6, <1>7, <1>8

-----------------------------------------------------------------------------
(* Types and limits                                                        *)

\* What a thread is about to do says what it holds.
LEMMA ThreadHolds ==
    ASSUME NEW state \in ThreadState
    PROVE  /\ state.at \in {"emit", "park"} => state.packet \in Packets
           /\ state.at = "ask" => /\ state.host \in Hosts
                                  /\ state = [at |-> "ask", host |-> state.host]
<1>1. CASE state = Idle
  BY <1>1 DEF Idle
<1>2. CASE state \in [at : {"emit", "park"}, packet : Packets]
  BY <1>2
<1>3. CASE state \in [at : {"ask"}, host : Hosts]
  BY <1>3
<1> QED BY <1>1, <1>2, <1>3 DEF ThreadState

\* All variables start out of their kinds.
LEMMA TypesInit == Init => Types /\ Limits
<1> SUFFICES ASSUME Init PROVE Types /\ Limits
  OBVIOUS
<1>1. << >> \in Seq(Packets) /\ << >> \in Seq(Hosts) /\ Len(<< >>) = 0
  BY EmptySeq
<1> QED BY <1>1, ArpAssumption DEF Init, Types, Limits, ThreadState, ReaderState

\* Every action keeps them.
LEMMA TypesStep == Types /\ [Next]_vars => Types'
<1> SUFFICES ASSUME Types, [Next]_vars PROVE Types'
  OBVIOUS
<1> USE DEF Types
<1>1. ASSUME NEW t \in Threads, NEW p \in Packets, Lookup(t, p) PROVE Types'
  <2>1. {[at |-> "emit", packet |-> p], [at |-> "park", packet |-> p]} \subseteq ThreadState
    BY DEF ThreadState
  <2> QED BY <1>1, <2>1 DEF Lookup
<1>2. ASSUME NEW t \in Threads, EmitNow(t) PROVE Types'
  <2>1. thread[t].packet \in Packets /\ Idle \in ThreadState
    BY <1>2, ThreadHolds DEF EmitNow, ThreadState
  <2>2. Append(emitted, thread[t].packet) \in Seq(Packets)
    BY <2>1, AppendProperties
  <2>3. CASE Emits(thread[t].packet)
    BY <1>2, <2>1, <2>2, <2>3 DEF EmitNow, Emits
  <2>4. CASE Raises(thread[t].packet) /\ UNCHANGED discarded
    BY <1>2, <2>1, <2>4 DEF EmitNow, Raises
  <2> QED BY <1>2, <2>3, <2>4 DEF EmitNow
<1>3. ASSUME NEW t \in Threads, Park(t) PROVE Types'
  <2> DEFINE p == thread[t].packet
             h == NextHop[p]
  <2>1. p \in Packets /\ h \in Hosts
    BY <1>3, ThreadHolds, ArpAssumption DEF Park
  <2>2. Idle \in ThreadState /\ [at |-> "ask", host |-> h] \in ThreadState
    BY <2>1 DEF ThreadState
  <2>3. Append(pending[h], p) \in Seq(Packets)
    BY <2>1, AppendProperties
  <2> QED BY <1>3, <2>1, <2>2, <2>3 DEF Park
<1>4. ASSUME NEW t \in Threads, Ask(t) PROVE Types'
  <2>1. thread[t].host \in Hosts /\ Idle \in ThreadState
    BY <1>4, ThreadHolds DEF Ask, ThreadState
  <2>2. requests' \in [Hosts -> Nat] /\ lost' \in Nat
    <3>1. CASE /\ requests' = [requests EXCEPT ![thread[t].host] = @ + 1]
               /\ UNCHANGED lost
      BY <2>1, <3>1
    <3>2. CASE lost' = lost + 1 /\ UNCHANGED requests
      BY <3>2
    <3> QED BY <1>4, <3>1, <3>2 DEF Ask
  <2> QED BY <1>4, <2>1, <2>2 DEF Ask
<1>5. ASSUME NEW h \in Hosts, Answer(h) PROVE Types'
  BY <1>5 DEF Answer
<1>6. ASSUME NEW h \in Hosts, Lose(h) PROVE Types'
  <2>1. lost' \in Nat
    BY <1>6 DEF Lose
  <2>2. requests' \in [Hosts -> Nat] /\ replies' \in [Hosts -> Nat]
    <3>1. CASE /\ requests[h] > 0 /\ UNCHANGED replies
               /\ requests' = [requests EXCEPT ![h] = @ - 1]
      BY <3>1
    <3>2. CASE /\ replies[h] > 0 /\ UNCHANGED requests
               /\ replies' = [replies EXCEPT ![h] = @ - 1]
      BY <3>2
    <3> QED BY <1>6, <3>1, <3>2 DEF Lose
  <2> QED BY <1>6, <2>1, <2>2 DEF Lose
<1>7. ASSUME NEW h \in Hosts, OnReply(h) PROVE Types'
  BY <1>7 DEF OnReply, ReaderState
<1>8. ASSUME NEW h \in Hosts, OnRequest(h) PROVE Types'
  BY <1>8 DEF OnRequest
<1>9. CASE Pop
  <2>1. reader.host \in Hosts
    BY <1>9 DEF Pop, ReaderState, Idle
  <2>2. << >> \in Seq(Packets)
    BY EmptySeq
  <2>3. [at |-> "flush", queue |-> pending[reader.host]] \in ReaderState
    BY <2>1 DEF ReaderState
  <2> QED BY <1>9, <2>1, <2>2, <2>3 DEF Pop
<1>10. CASE Flush
  <2>1. reader.queue \in Seq(Packets) /\ Idle \in ReaderState
        /\ reader = [at |-> "flush", queue |-> reader.queue]
    BY <1>10 DEF Flush, ReaderState, Idle
  <2>2. CASE reader.queue = << >>
    BY <1>10, <2>1, <2>2 DEF Flush
  <2>3. CASE reader.queue # << >>
    <3>1. Head(reader.queue) \in Packets /\ Tail(reader.queue) \in Seq(Packets)
      BY <2>1, <2>3, HeadTailProperties
    <3>2. Append(emitted, Head(reader.queue)) \in Seq(Packets)
      BY <3>1, AppendProperties
    <3>3. reader' = [at |-> "flush", queue |-> Tail(reader.queue)]
      BY <1>10, <2>1, <2>3 DEF Flush
    <3>4. reader' \in ReaderState
      BY <3>1, <3>3 DEF ReaderState
    <3> QED BY <1>10, <2>3, <3>2, <3>4 DEF Flush, Emits
  <2> QED BY <2>2, <2>3
<1>11. CASE FlushRaises
  <2>1. reader.queue \in Seq(Packets) /\ reader.queue # << >> /\ Idle \in ReaderState
    BY <1>11 DEF FlushRaises, ReaderState, Idle
  <2>2. Head(reader.queue) \in Packets /\ Tail(reader.queue) \in Seq(Packets)
    BY <2>1, HeadTailProperties
  <2>3. ToSet(Tail(reader.queue)) \subseteq Packets
    BY <2>2, ElementOfSeq, LenProperties DEF ToSet
  <2> QED BY <1>11, <2>1, <2>2, <2>3 DEF FlushRaises, Raises
<1>12. CASE Expire
  BY <1>12 DEF Expire
<1>13. CASE UNCHANGED vars
  BY <1>13 DEF vars
<1> QED BY <1>1, <1>2, <1>3, <1>4, <1>5, <1>6, <1>7, <1>8, <1>9, <1>10, <1>11,
           <1>12, <1>13 DEF Next

\* store() puts one entry in and, in a full cache, takes one out.
LEMMA StoreKeeps ==
    ASSUME NEW h \in Hosts, cache \in Seq(Hosts), Len(cache) <= MaxEntries, store(h)
    PROVE  cache' \in Seq(Hosts) /\ Len(cache') <= MaxEntries
<1> DEFINE room == IF ~Known(h) /\ Len(cache) >= MaxEntries THEN Tail(cache) ELSE cache
           left == RemoveFirst(room, h)
<1>1. Len(cache) \in Nat /\ MaxEntries \in Nat \ {0}
  BY LenProperties, ArpAssumption
<1>2. cache' = Append(left, h)
  BY DEF store
<1>3. left \in Seq(Hosts) /\ Len(left) \in Nat /\ Len(left) < MaxEntries
  <2>1. CASE ~Known(h) /\ Len(cache) >= MaxEntries
    <3>1. cache # << >>
      BY <1>1, <2>1, EmptySeq
    <3>2. Tail(cache) \in Seq(Hosts) /\ Len(Tail(cache)) = Len(cache) - 1
      BY <3>1, HeadTailProperties
    <3>3. room = Tail(cache)
      BY <2>1
    <3> HIDE DEF room
    <3>4. left \in Seq(Hosts) /\ Len(left) \in {Len(room), Len(room) - 1}
      BY <3>2, <3>3, RemoveFirstType
    <3>5. Len(left) \in Nat /\ Len(left) <= Len(cache) - 1
      <4>1. Len(left) \in Nat /\ Len(left) \in {Len(cache) - 1, Len(cache) - 1 - 1}
        BY <3>2, <3>3, <3>4, LenProperties
      <4> HIDE DEF left
      <4> QED BY <1>1, <4>1
    <3> QED BY <1>1, <3>4, <3>5
  <2>2. CASE Known(h)
    <3>1. room = cache /\ h \in ToSet(cache)
      BY <2>2 DEF Known
    <3> HIDE DEF room
    <3>2. left \in Seq(Hosts) /\ Len(left) = Len(cache) - 1
      BY <3>1, RemoveFirstType
    <3> QED BY <1>1, <3>2, LenProperties
  <2>3. CASE ~Known(h) /\ ~(Len(cache) >= MaxEntries)
    <3>1. room = cache /\ h \notin ToSet(cache)
      BY <2>3 DEF Known
    <3> HIDE DEF room
    <3>2. left = cache
      BY <3>1, RemoveFirstType
    <3> QED BY <1>1, <2>3, <3>2
  <2> QED BY <2>1, <2>2, <2>3
<1> HIDE DEF left
<1>4. Append(left, h) \in Seq(Hosts) /\ Len(Append(left, h)) = Len(left) + 1
  BY <1>3, AppendProperties
<1> QED BY <1>1, <1>2, <1>3, <1>4

\* The cache and the queues stay within their limits.
LEMMA LimitsStep == Types /\ Limits /\ [Next]_vars => Limits'
<1> SUFFICES ASSUME Types, Limits, [Next]_vars PROVE Limits'
  OBVIOUS
<1> USE DEF Limits
<1>1. ASSUME NEW t \in Threads, NEW p \in Packets, Lookup(t, p) PROVE Limits'
  <2>1. NextHop[p] \in Hosts
    BY ArpAssumption
  <2>2. /\ RemoveFirst(cache, NextHop[p]) \in Seq(Hosts)
        /\ Len(RemoveFirst(cache, NextHop[p])) \in {Len(cache), Len(cache) - 1}
    BY <2>1, RemoveFirstType
  <2>3. Len(cache) \in Nat /\ MaxEntries \in Nat
    BY LenProperties, ArpAssumption
  <2>4. CASE UNCHANGED cache
    BY <1>1, <2>4 DEF Lookup
  <2>5. CASE cache' = RemoveFirst(cache, NextHop[p])
    BY <1>1, <2>2, <2>3, <2>5 DEF Lookup
  <2> QED BY <1>1, <2>4, <2>5 DEF Lookup
<1>2. ASSUME NEW t \in Threads, EmitNow(t) PROVE Limits'
  BY <1>2 DEF EmitNow
<1>3. ASSUME NEW t \in Threads, Park(t) PROVE Limits'
  <2> DEFINE p == thread[t].packet
             h == NextHop[p]
  <2>1. CASE Len(pending[h]) >= MaxArpPending
    BY <1>3, <2>1 DEF Park
  <2>2. CASE ~(Len(pending[h]) >= MaxArpPending)
    <3>1. p \in Packets /\ h \in Hosts
      BY <1>3, ThreadHolds, ArpAssumption DEF Park, Types
    <3>2. pending[h] \in Seq(Packets) /\ Len(pending[h]) \in Nat /\ MaxArpPending \in Nat
      BY <3>1, ArpAssumption, LenProperties DEF Types
    <3>3. Len(Append(pending[h], p)) = Len(pending[h]) + 1
      BY <3>1, <3>2, AppendProperties
    <3>4. pending' = [pending EXCEPT ![h] = Append(pending[h], p)] /\ cache' = cache
      BY <1>3, <2>2 DEF Park
    <3> HIDE DEF p, h
    <3>5. \A g \in Hosts : pending'[g] = IF g = h THEN Append(pending[h], p) ELSE pending[g]
      BY <3>4 DEF Types
    <3> QED BY <2>2, <3>1, <3>2, <3>3, <3>4, <3>5
  <2> QED BY <2>1, <2>2
<1>4. ASSUME NEW t \in Threads, Ask(t) PROVE Limits'
  BY <1>4 DEF Ask
<1>5. ASSUME NEW h \in Hosts, Answer(h) PROVE Limits'
  BY <1>5 DEF Answer
<1>6. ASSUME NEW h \in Hosts, Lose(h) PROVE Limits'
  BY <1>6 DEF Lose
<1>7. ASSUME NEW h \in Hosts, OnReply(h) PROVE Limits'
  BY <1>7, StoreKeeps DEF OnReply
<1>8. ASSUME NEW h \in Hosts, OnRequest(h) PROVE Limits'
  BY <1>8, StoreKeeps DEF OnRequest
<1>9. CASE Pop
  <2>1. \A g \in Hosts : pending'[g] \in {pending[g], << >>}
    BY <1>9 DEF Pop, Types
  <2>2. Len(<< >>) = 0 /\ MaxArpPending \in Nat
    BY EmptySeq, ArpAssumption
  <2> QED BY <1>9, <2>1, <2>2 DEF Pop
<1>10. CASE Flush
  BY <1>10 DEF Flush
<1>11. CASE Expire
  <2>1. Len(cache) \in Nat /\ MaxEntries \in Nat
    BY LenProperties, ArpAssumption
  <2>2. PICK k \in 1 .. Len(cache) : cache' = SubSeq(cache, k + 1, Len(cache))
    BY <1>11 DEF Expire
  <2>3. SubSeq(cache, k + 1, Len(cache)) \in Seq(Hosts)
        /\ Len(SubSeq(cache, k + 1, Len(cache))) <= Len(cache)
    <3> DEFINE m == k + 1
    <3>1. m \in Int /\ m > 1 /\ \A i \in m .. Len(cache) : cache[i] \in Hosts
      BY <2>1, ElementOfSeq
    <3> HIDE DEF m
    <3>2. /\ SubSeq(cache, m, Len(cache)) \in Seq(Hosts)
          /\ Len(SubSeq(cache, m, Len(cache)))
                = IF m <= Len(cache) THEN Len(cache) - m + 1 ELSE 0
      BY <2>1, <3>1, SubSeqProperties
    <3>3. Len(SubSeq(cache, m, Len(cache))) <= Len(cache)
      BY <2>1, <3>1, <3>2
    <3> QED BY <3>2, <3>3 DEF m
  <2>4. Len(SubSeq(cache, k + 1, Len(cache))) \in Nat
    BY <2>3, LenProperties
  <2> QED BY <1>11, <2>1, <2>2, <2>3, <2>4 DEF Expire
<1>12. CASE UNCHANGED vars
  BY <1>12 DEF vars
<1>13. CASE FlushRaises
  BY <1>13 DEF FlushRaises
<1> QED BY <1>1, <1>2, <1>3, <1>4, <1>5, <1>6, <1>7, <1>8, <1>9, <1>10, <1>11,
           <1>12, <1>13 DEF Next

\* Types and limits hold of every behaviour.
LEMMA TypesAlways == Spec => [](Types /\ Limits)
BY TypesInit, TypesStep, LimitsStep, PTL DEF Spec

\* The variables stay of their kinds and the cache and the queues within
\* max_entries and max_arp_pending.
THEOREM TypeCorrect == Spec => []TypeOK
<1>1. Types /\ Limits => TypeOK
  <2> SUFFICES ASSUME Types, Limits PROVE TypeOK
    OBVIOUS
  <2>1. ToSet(cache) \subseteq Hosts
    BY ElementOfSeq, LenProperties DEF Limits, ToSet
  <2> QED BY <2>1 DEF Types, Limits, TypeOK
<1> QED BY <1>1, TypesAlways, PTL

-----------------------------------------------------------------------------
(* A parked packet has been asked for                                      *)

Asked(h) ==
    \/ lost > 0
    \/ requests[h] + replies[h] > 0
    \/ \E t \in Threads : thread[t] = [at |-> "ask", host |-> h]
    \/ reader = [at |-> "pop", host |-> h]

\* ParkedIsAsked, given the types, is inductive.
LEMMA AskedStep == Types /\ ParkedIsAsked /\ [Next]_vars => ParkedIsAsked'
<1> SUFFICES ASSUME Types, ParkedIsAsked, [Next]_vars, NEW g \in Hosts,
                    pending'[g] # << >>
             PROVE  Asked(g)'
  BY DEF ParkedIsAsked, Asked
<1>a. pending[g] # << >> => Asked(g)
  BY DEF ParkedIsAsked, Asked
<1>b. requests[g] \in Nat /\ replies[g] \in Nat /\ lost \in Nat
  BY DEF Types
<1>1. ASSUME NEW t \in Threads, NEW p \in Packets, Lookup(t, p) PROVE Asked(g)'
  <2>1. \A u \in Threads : thread[u] = [at |-> "ask", host |-> g] => thread'[u] = thread[u]
    BY <1>1 DEF Lookup, Types, Idle
  <2> QED BY <1>a, <1>1, <2>1 DEF Lookup, Asked
<1>2. ASSUME NEW t \in Threads, EmitNow(t) PROVE Asked(g)'
  <2>1. \A u \in Threads : thread[u] = [at |-> "ask", host |-> g] => thread'[u] = thread[u]
    BY <1>2 DEF EmitNow, Types
  <2> QED BY <1>a, <1>2, <2>1 DEF EmitNow, Asked
<1>3. ASSUME NEW t \in Threads, Park(t) PROVE Asked(g)'
  <2> DEFINE p == thread[t].packet
             h == NextHop[p]
  <2>1. \A u \in Threads : thread[u] = [at |-> "ask", host |-> g] => thread'[u] = thread[u]
    BY <1>3 DEF Park, Types
  <2>2. CASE pending[g] # << >>
    BY <1>a, <1>3, <2>1, <2>2 DEF Park, Asked
  <2>3. CASE pending[g] = << >>
    <3>1. /\ pending' = [pending EXCEPT ![h] = Append(@, p)]
          /\ thread' = [thread EXCEPT ![t] = [at |-> "ask", host |-> h]]
      BY <1>3, <2>3 DEF Park
    <3>2. g = h
      BY <2>3, <3>1 DEF Types
    <3>3. thread'[t] = [at |-> "ask", host |-> g]
      BY <3>1, <3>2 DEF Types
    <3> QED BY <3>3 DEF Asked
  <2> QED BY <2>2, <2>3
<1>4. ASSUME NEW t \in Threads, Ask(t) PROVE Asked(g)'
  <2> DEFINE h == thread[t].host
  <2>1. h \in Hosts
    BY <1>4, ThreadHolds DEF Ask, Types
  <2>a. CASE LinkMayFail /\ lost < MaxLost /\ lost' = lost + 1 /\ UNCHANGED requests
    <3>1. lost' > 0
      BY <1>b, <2>a
    <3> QED BY <3>1 DEF Asked
  <2>b. CASE /\ requests' = [requests EXCEPT ![thread[t].host] = @ + 1]
             /\ UNCHANGED lost
    <3>2. /\ requests' = [requests EXCEPT ![h] = @ + 1]
          /\ thread' = [thread EXCEPT ![t] = Idle]
          /\ UNCHANGED <<pending, reader, replies, lost>>
      BY <1>4, <2>b DEF Ask
    <3>3. CASE g = h
      <4>1. requests'[g] = requests[g] + 1
        BY <3>2, <3>3 DEF Types
      <4> QED BY <1>b, <3>2, <4>1 DEF Asked
    <3>4. CASE g # h
      <4>1. requests'[g] = requests[g]
        BY <2>1, <3>2, <3>4 DEF Types
      <4>2. \A u \in Threads : thread[u] = [at |-> "ask", host |-> g] => thread'[u] = thread[u]
        BY <3>2, <3>4 DEF Types
      <4> QED BY <1>a, <3>2, <4>1, <4>2 DEF Asked
    <3> QED BY <3>3, <3>4
  <2> QED BY <1>4, <2>a, <2>b DEF Ask
<1>5. ASSUME NEW h \in Hosts, Answer(h) PROVE Asked(g)'
  <2>1. requests'[g] + replies'[g] = requests[g] + replies[g]
    BY <1>5, <1>b DEF Answer, Types
  <2> QED BY <1>a, <1>5, <2>1 DEF Answer, Asked
<1>6. ASSUME NEW h \in Hosts, Lose(h) PROVE Asked(g)'
  <2>1. lost' > 0
    BY <1>6, <1>b DEF Lose
  <2> QED BY <2>1 DEF Asked
<1>7. ASSUME NEW h \in Hosts, OnReply(h) PROVE Asked(g)'
  <2>1. CASE g = h
    BY <1>7, <2>1 DEF OnReply, Asked
  <2>2. CASE g # h
    <3>1. replies'[g] = replies[g] /\ reader # [at |-> "pop", host |-> g]
      BY <1>7, <2>2 DEF OnReply, Types, Idle
    <3> QED BY <1>a, <1>7, <3>1 DEF OnReply, Asked
  <2> QED BY <2>1, <2>2
<1>8. ASSUME NEW h \in Hosts, OnRequest(h) PROVE Asked(g)'
  BY <1>a, <1>8 DEF OnRequest, Asked
<1>9. CASE Pop
  <2>1. reader.at = "pop" /\ pending' = [pending EXCEPT ![reader.host] = << >>]
    BY <1>9 DEF Pop
  <2>2. reader.host # g
    BY <2>1 DEF Types
  <2>3. reader # [at |-> "pop", host |-> g] /\ pending'[g] = pending[g]
    BY <2>1, <2>2 DEF Types
  <2> QED BY <1>a, <1>9, <2>3 DEF Pop, Asked
<1>10. CASE Flush
  <2>1. reader # [at |-> "pop", host |-> g]
    BY <1>10 DEF Flush
  <2> QED BY <1>a, <1>10, <2>1 DEF Flush, Asked
<1>11. CASE Expire
  BY <1>a, <1>11 DEF Expire, Asked
<1>12. CASE UNCHANGED vars
  BY <1>a, <1>12 DEF vars, Asked
<1>13. CASE FlushRaises
  <2>1. reader # [at |-> "pop", host |-> g]
    BY <1>13 DEF FlushRaises
  <2> QED BY <1>a, <1>13, <2>1 DEF FlushRaises, Asked
<1> QED BY <1>1, <1>2, <1>3, <1>4, <1>5, <1>6, <1>7, <1>8, <1>9, <1>10, <1>11,
           <1>12, <1>13 DEF Next

\* Whatever the interleaving of lookups, parkings and flushes, a queue that is
\* not empty has a request or an answer coming, unless the link lost one.
THEOREM NeverForgotten == Spec => []ParkedIsAsked
<1>1. Init => ParkedIsAsked
  BY DEF Init, ParkedIsAsked
<1> QED BY <1>1, AskedStep, TypesInit, TypesStep, PTL DEF Spec

-----------------------------------------------------------------------------
(* A packet is in one place                                                *)

\* The places of a packet are counted in numbers.
LEMMA PlaceTypes ==
    ASSUME Types, Counts, NEW p \in Packets
    PROVE  /\ NextHop[p] \in Hosts /\ pending[NextHop[p]] \in Seq(Packets)
           /\ Flushing \in Seq(Packets)
           /\ Times(p, pending[NextHop[p]]) \in Nat
           /\ IsFiniteSet(Hands(p)) /\ Cardinality(Hands(p)) \in Nat
           /\ Times(p, Flushing) \in Nat /\ Times(p, emitted) \in Nat
           /\ One(p, todo) \in Nat /\ Gone(p) \in Nat
<1>1. NextHop[p] \in Hosts /\ pending[NextHop[p]] \in Seq(Packets)
  BY ArpAssumption DEF Types
<1>2. Flushing \in Seq(Packets)
  <2>1. CASE reader.at = "flush"
    BY <2>1 DEF Types, ReaderState, Idle, Flushing
  <2>2. CASE reader.at # "flush"
    BY <2>2, EmptySeq DEF Flushing
  <2> QED BY <2>1, <2>2
<1>3. IsFiniteSet(Hands(p)) /\ Cardinality(Hands(p)) \in Nat
  BY FS_CardinalityType DEF Counts
<1>4. Times(p, pending[NextHop[p]]) \in Nat
  BY <1>1, TimesType
<1>5. Times(p, Flushing) \in Nat
  BY <1>2, TimesType
<1>6. Times(p, emitted) \in Nat
  BY TimesType DEF Types
<1>7. One(p, todo) \in Nat /\ Gone(p) \in Nat
  BY DEF One, Gone
<1> QED BY <1>1, <1>2, <1>3, <1>4, <1>5, <1>6, <1>7

\* A packet that waits for a host other than its next hop does not.
LEMMA ElsewhereNone ==
    ASSUME Types, Counts, NEW p \in Packets, NEW h \in Hosts, h # NextHop[p]
    PROVE  Times(p, pending[h]) = 0
<1>1. pending[h] \in Seq(Packets) /\ AtOwnHost(pending[h], h)
  BY DEF Types, Counts
<1>2. \A i \in 1 .. Len(pending[h]) : pending[h][i] # p
  BY <1>1 DEF AtOwnHost
<1> QED BY <1>1, <1>2, TimesType

\* In the beginning every packet is still to be handed over.
LEMMA CountsInit == Init => Counts
<1> SUFFICES ASSUME Init PROVE Counts
  OBVIOUS
<1>1. \A h \in Hosts : AtOwnHost(pending[h], h)
  BY EmptySeq DEF Init, AtOwnHost
<1>2. ASSUME NEW p \in Packets PROVE IsFiniteSet(Hands(p)) /\ Places(p) = 1
  <2>1. Hands(p) = {}
    BY HandsAre DEF Init, Carries, Idle
  <2>2. IsFiniteSet(Hands(p)) /\ Cardinality(Hands(p)) = 0
    BY <2>1, FS_EmptySet
  <2>3. pending[NextHop[p]] = << >> /\ Flushing = << >> /\ emitted = << >>
    BY ArpAssumption DEF Init, Flushing, Idle
  <2>4. /\ Times(p, pending[NextHop[p]]) = 0 /\ Times(p, Flushing) = 0
        /\ Times(p, emitted) = 0
    BY <2>3, TimesEmpty
  <2>5. One(p, todo) = 1 /\ Gone(p) = 0
    BY DEF Init, One, Gone
  <2> QED BY <2>2, <2>4, <2>5 DEF Places
<1>3. Together(Flushing) /\ discarded = {}
  BY EmptySeq DEF Init, Flushing, Idle, Together
<1> QED BY <1>1, <1>2, <1>3 DEF Counts

\* A packet that leaves one place and enters another is still in one.
LEMMA Balance ==
    ASSUME Types, Counts, NEW p \in Packets,
           NEW waiting \in Int, NEW held \in Int, NEW flushed \in Int,
           NEW sent \in Int, NEW left \in Int, NEW gone \in Int,
           Times(p, pending'[NextHop[p]]) = Times(p, pending[NextHop[p]]) + waiting,
           Cardinality(Hands(p)') = Cardinality(Hands(p)) + held,
           Times(p, Flushing') = Times(p, Flushing) + flushed,
           Times(p, emitted') = Times(p, emitted) + sent,
           One(p, todo') = One(p, todo) + left,
           Gone(p)' = Gone(p) + gone,
           waiting + held + flushed + sent + left + gone = 0
    PROVE  Places(p)' = 1
<1> DEFINE a == Times(p, pending[NextHop[p]])
           b == Cardinality(Hands(p))
           c == Times(p, Flushing)
           d == Times(p, emitted)
           e == One(p, todo)
           f == Gone(p)
<1>1. a \in Nat /\ b \in Nat /\ c \in Nat /\ d \in Nat /\ e \in Nat /\ f \in Nat
  BY PlaceTypes
<1>2. a + b + c + d + e + f = 1
  BY DEF Counts, Places
<1>3. Places(p)' = (a + waiting) + (b + held) + (c + flushed) + (d + sent)
                     + (e + left) + (f + gone)
  BY DEF Places
<1> HIDE DEF a, b, c, d, e, f
<1> QED BY <1>1, <1>2, <1>3

\* A packet in a thread's hands, or in the reader's, is in no other place.
LEMMA NowhereElse ==
    ASSUME Types, Counts, NEW p \in Packets,
           Cardinality(Hands(p)) > 0 \/ Times(p, Flushing) > 0
    PROVE  /\ One(p, dropped) = 0 /\ One(p, failed) = 0 /\ One(p, discarded) = 0
           /\ Gone(p) = 0 /\ Times(p, Flushing) <= 1
<1> DEFINE a == Times(p, pending[NextHop[p]])
           b == Cardinality(Hands(p))
           c == Times(p, Flushing)
           d == Times(p, emitted)
           e == One(p, todo)
           f == Gone(p)
<1>1. a \in Nat /\ b \in Nat /\ c \in Nat /\ d \in Nat /\ e \in Nat /\ f \in Nat
  BY PlaceTypes
<1>2. a + b + c + d + e + f = 1
  BY DEF Counts, Places
<1>3. b > 0 \/ c > 0
  OBVIOUS
<1> HIDE DEF a, b, c, d, e, f
<1>4. f = 0 /\ c <= 1
  BY <1>1, <1>2, <1>3
<1>5. Gone(p) = 0 /\ Times(p, Flushing) <= 1
  BY <1>4 DEF c, f
<1> QED BY <1>5 DEF Gone, One

\* send_ipv4 looks its next hop up: the packet is in the thread's hands.
LEMMA LookupMoves ==
    ASSUME Types, Counts, NEW t \in Threads, NEW x \in Packets, Lookup(t, x)
    PROVE  Counts'
<1>1. PICK at \in {"emit", "park"} :
          thread' = [thread EXCEPT ![t] = [at |-> at, packet |-> x]]
  BY DEF Lookup
<1>2. /\ thread[t] = Idle /\ x \in todo /\ todo' = todo \ {x}
      /\ UNCHANGED <<pending, reader, fate>>
  BY DEF Lookup
<1>3. ASSUME NEW p \in Packets PROVE IsFiniteSet(Hands(p)') /\ Places(p)' = 1
  <2> DEFINE n == One(p, {x})
  <2>1. Load(thread[t], p) = 0 /\ Load([at |-> at, packet |-> x], p) = n
    BY <1>2 DEF Load, Carries, Idle, One
  <2>2. /\ IsFiniteSet(Hands(p)') /\ Cardinality(Hands(p)) \in Nat
        /\ Cardinality(Hands(p)') + Load(thread[t], p)
             = Cardinality(Hands(p)) + Load([at |-> at, packet |-> x], p)
    BY <1>1, HandsChange DEF Types, Counts
  <2>3. Cardinality(Hands(p)') \in Nat /\ n \in Int
    BY <2>2, FS_CardinalityType DEF One
  <2>4. Cardinality(Hands(p)') = Cardinality(Hands(p)) + n
    BY <2>1, <2>2, <2>3
  <2>5. One(p, todo') = One(p, todo) + (-n)
    BY <1>2 DEF One
  <2> HIDE DEF n
  <2>6. /\ Times(p, pending'[NextHop[p]]) = Times(p, pending[NextHop[p]]) + 0
        /\ Times(p, Flushing') = Times(p, Flushing) + 0
        /\ Times(p, emitted') = Times(p, emitted) + 0
        /\ Gone(p)' = Gone(p) + 0
    BY <1>2, PlaceTypes DEF Flushing, Gone
  <2>7. -n \in Int /\ 0 + n + 0 + 0 + (-n) + 0 = 0
    BY <2>3
  <2> QED BY <2>2, <2>3, <2>4, <2>5, <2>6, <2>7, Balance
<1> QED BY <1>2, <1>3 DEF Counts, AtOwnHost, Together, Flushing, Behind

\* What leaves the packets where they are keeps the counts.
LEMMA NothingMoves ==
    ASSUME Types, Counts, UNCHANGED <<pending, todo, fate>>,
           Flushing' = Flushing,
           \A p \in Packets : Hands(p)' = Hands(p)
    PROVE  Counts'
<1>1. ASSUME NEW p \in Packets PROVE IsFiniteSet(Hands(p)') /\ Places(p)' = Places(p)
  BY DEF Counts, Places, Gone
<1> QED BY <1>1 DEF Counts, AtOwnHost, Together, Behind

\* A known next hop: the packet goes from the thread's hands onto the link, or
\* the sender is told that it did not.
LEMMA EmitMoves ==
    ASSUME Types, Counts, NEW t \in Threads, EmitNow(t)
    PROVE  Counts'
<1> DEFINE x == thread[t].packet
<1>1. x \in Packets
  BY ThreadHolds DEF EmitNow, Types
<1>2. /\ thread[t].at = "emit" /\ thread' = [thread EXCEPT ![t] = Idle]
      /\ UNCHANGED <<pending, reader, todo, dropped, discarded>>
  BY DEF EmitNow, Emits, Raises
<1>3. ASSUME NEW p \in Packets PROVE IsFiniteSet(Hands(p)') /\ Places(p)' = 1
  <2> DEFINE n == One(p, {x})
  <2>1. Load(thread[t], p) = n /\ Load(Idle, p) = 0
    BY <1>2 DEF Load, Carries, Idle, One
  <2>2. /\ IsFiniteSet(Hands(p)') /\ Cardinality(Hands(p)) \in Nat
        /\ Cardinality(Hands(p)') + Load(thread[t], p)
             = Cardinality(Hands(p)) + Load(Idle, p)
    BY <1>2, HandsChange DEF Types, Counts
  <2>3. Cardinality(Hands(p)') \in Nat /\ n \in {0, 1}
    BY <2>2, FS_CardinalityType DEF One
  <2>4. n \in Int /\ -n \in Int /\ Cardinality(Hands(p)') = Cardinality(Hands(p)) + (-n)
    <3> HIDE DEF n
    <3> QED BY <2>1, <2>2, <2>3
  <2>5. /\ Times(p, pending'[NextHop[p]]) = Times(p, pending[NextHop[p]]) + 0
        /\ Times(p, Flushing') = Times(p, Flushing) + 0
        /\ One(p, todo') = One(p, todo) + 0
    <3>1. pending' = pending /\ Flushing' = Flushing /\ todo' = todo
      BY <1>2 DEF Flushing
    <3> QED BY <3>1, PlaceTypes
  <2>6. CASE Emits(x)
    <3>1. Times(p, emitted') = Times(p, emitted) + n
      BY <1>1, <2>6, TimesAppend DEF Emits, Types
    <3>2. Gone(p)' = Gone(p) + 0
      BY <2>6, PlaceTypes DEF Emits, Gone
    <3> HIDE DEF n
    <3>3. 0 + (-n) + 0 + n + 0 + 0 = 0
      BY <2>4
    <3> QED BY <2>2, <2>4, <2>5, <3>1, <3>2, <3>3, Balance
  <2>7. CASE Raises(x)
    <3>1. n = 1 => Cardinality(Hands(p)) > 0
      <4> HIDE DEF n
      <4> QED BY <2>1, <2>2, <2>3
    <3>2. n = 1 => Gone(p) = 0 /\ One(p, failed) = 0
      BY <3>1, NowhereElse
    <3>3. Gone(p)' = Gone(p) + n
      BY <1>2, <2>7, <3>2 DEF Raises, Gone, One
    <3>4. Times(p, emitted') = Times(p, emitted) + 0
      BY <2>7, PlaceTypes DEF Raises
    <3> HIDE DEF n
    <3>5. 0 + (-n) + 0 + 0 + 0 + n = 0
      BY <2>4
    <3> QED BY <2>2, <2>4, <2>5, <3>3, <3>4, <3>5, Balance
  <2> QED BY <2>6, <2>7 DEF EmitNow
<1>4. failed \subseteq failed'
  BY DEF EmitNow, Emits, Raises
<1> QED BY <1>2, <1>3, <1>4 DEF Counts, AtOwnHost, Together, Flushing, Behind

\* _park_pending: the packet waits for its next hop, or a full queue refuses it.
LEMMA ParkMoves ==
    ASSUME Types, Counts, NEW t \in Threads, Park(t)
    PROVE  Counts'
<1> DEFINE x == thread[t].packet
           h == NextHop[x]
           q == Append(pending[h], x)
<1>1. x \in Packets /\ h \in Hosts /\ pending[h] \in Seq(Packets)
  BY ThreadHolds, ArpAssumption DEF Park, Types
<1>2. thread[t].at = "park" /\ UNCHANGED <<reader, todo, emitted, failed, discarded>>
  BY DEF Park
<1>a. Together(Flushing') /\ \A p \in discarded' : Behind(p)'
  BY <1>2 DEF Counts, Together, Flushing, Behind
<1>3. CASE Len(pending[h]) >= MaxArpPending
  <2>0. /\ dropped' = dropped \cup {x} /\ thread' = [thread EXCEPT ![t] = Idle]
        /\ UNCHANGED pending
    BY <1>3 DEF Park
  <2>a. ASSUME NEW p \in Packets PROVE IsFiniteSet(Hands(p)') /\ Places(p)' = 1
    <3> DEFINE n == One(p, {x})
    <3>1. Load(thread[t], p) = n /\ Load(Idle, p) = 0
      BY <1>2 DEF Load, Carries, Idle, One
    <3>2. /\ IsFiniteSet(Hands(p)') /\ Cardinality(Hands(p)) \in Nat
          /\ Cardinality(Hands(p)') + Load(thread[t], p)
               = Cardinality(Hands(p)) + Load(Idle, p)
      BY <2>0, HandsChange DEF Types, Counts
    <3>3. Cardinality(Hands(p)') \in Nat /\ n \in {0, 1}
      BY <3>2, FS_CardinalityType DEF One
    <3>4. n = 1 => Cardinality(Hands(p)) > 0
      <4> HIDE DEF n
      <4> QED BY <3>1, <3>2, <3>3
    <3>5. n = 1 => One(p, dropped) = 0
      BY <3>4, NowhereElse
    <3>6. Gone(p)' = Gone(p) + n
      BY <1>2, <2>0, <3>5 DEF Gone, One
    <3> HIDE DEF n, x
    <3>7. Cardinality(Hands(p)') = Cardinality(Hands(p)) + (-n)
      BY <3>1, <3>2, <3>3
    <3>8. /\ Times(p, pending'[NextHop[p]]) = Times(p, pending[NextHop[p]]) + 0
          /\ Times(p, Flushing') = Times(p, Flushing) + 0
          /\ Times(p, emitted') = Times(p, emitted) + 0
          /\ One(p, todo') = One(p, todo) + 0
      BY <1>2, <2>0, PlaceTypes DEF Flushing
    <3>9. n \in Int /\ -n \in Int /\ 0 + (-n) + 0 + 0 + 0 + n = 0
      BY <3>3
    <3> QED BY <3>2, <3>6, <3>7, <3>8, <3>9, Balance
  <2> QED BY <1>a, <2>0, <2>a DEF Counts, AtOwnHost
<1>4. CASE ~(Len(pending[h]) >= MaxArpPending)
  <2> DEFINE ask == [at |-> "ask", host |-> h]
  <2>0. /\ pending' = [pending EXCEPT ![h] = q] /\ thread' = [thread EXCEPT ![t] = ask]
        /\ UNCHANGED dropped
    BY <1>4 DEF Park
  <2>a. ASSUME NEW p \in Packets PROVE IsFiniteSet(Hands(p)') /\ Places(p)' = 1
    <3> DEFINE n == One(p, {x})
    <3>1. Load(thread[t], p) = n /\ Load(ask, p) = 0
      BY <1>2 DEF Load, Carries, One
    <3>2. /\ IsFiniteSet(Hands(p)') /\ Cardinality(Hands(p)) \in Nat
          /\ Cardinality(Hands(p)') + Load(thread[t], p)
               = Cardinality(Hands(p)) + Load(ask, p)
      <4> HIDE DEF ask
      <4> QED BY <2>0, HandsChange DEF Types, Counts
    <3>3. Cardinality(Hands(p)') \in Nat /\ n \in {0, 1}
      BY <3>2, FS_CardinalityType DEF One
    <3>4. Times(p, pending'[NextHop[p]]) = Times(p, pending[NextHop[p]]) + n
      <4>1. CASE NextHop[p] = h
        <5>1. pending'[NextHop[p]] = q
          BY <1>1, <2>0, <4>1 DEF Types
        <5>2. Times(p, q) = Times(p, pending[h]) + n
          BY <1>1, TimesAppend
        <5> QED BY <4>1, <5>1, <5>2
      <4>2. CASE NextHop[p] # h
        <5>1. pending'[NextHop[p]] = pending[NextHop[p]] /\ n = 0
          BY <1>1, <2>0, <4>2, ArpAssumption DEF Types, One
        <5>2. Times(p, pending[NextHop[p]]) \in Nat
          BY PlaceTypes
        <5> HIDE DEF n
        <5> QED BY <5>1, <5>2
      <4> QED BY <4>1, <4>2
    <3> HIDE DEF n, x, ask
    <3>7. Cardinality(Hands(p)') = Cardinality(Hands(p)) + (-n)
      BY <3>1, <3>2, <3>3
    <3>8. /\ Times(p, Flushing') = Times(p, Flushing) + 0
          /\ Times(p, emitted') = Times(p, emitted) + 0
          /\ One(p, todo') = One(p, todo) + 0
          /\ Gone(p)' = Gone(p) + 0
      <4>1. Flushing' = Flushing /\ Gone(p)' = Gone(p)
        BY <1>2, <2>0 DEF Flushing, Gone
      <4> QED BY <1>2, <4>1, PlaceTypes
    <3>9. n \in Int /\ -n \in Int /\ n + (-n) + 0 + 0 + 0 + 0 = 0
      BY <3>3
    <3> QED BY <3>2, <3>4, <3>7, <3>8, <3>9, Balance
  <2>b. ASSUME NEW g \in Hosts PROVE AtOwnHost(pending'[g], g)
    <3>1. CASE g # h
      BY <2>0, <3>1 DEF Types, Counts
    <3>2. CASE g = h
      <4>1. pending'[g] = q /\ AtOwnHost(pending[h], h)
        BY <1>1, <2>0, <3>2 DEF Types, Counts
      <4>2. /\ Len(pending[h]) \in Nat /\ Len(q) = Len(pending[h]) + 1
            /\ q[Len(pending[h]) + 1] = x
            /\ \A i \in 1 .. Len(pending[h]) : q[i] = pending[h][i]
        BY <1>1, AppendProperties, LenProperties
      <4> HIDE DEF q, x
      <4>3. ASSUME NEW i \in 1 .. Len(q) PROVE NextHop[q[i]] = h
        <5>1. i \in 1 .. Len(pending[h]) \/ i = Len(pending[h]) + 1
          BY <4>2
        <5> QED BY <4>1, <4>2, <5>1 DEF AtOwnHost
      <4> QED BY <3>2, <4>1, <4>3 DEF AtOwnHost
    <3> QED BY <3>1, <3>2
  <2> QED BY <1>a, <2>a, <2>b DEF Counts
<1> QED BY <1>3, <1>4

\* _send_arp_request: the thread that asks has nothing in its hands any more.
LEMMA AskMoves ==
    ASSUME Types, Counts, NEW t \in Threads, Ask(t)
    PROVE  Counts'
<1>1. /\ thread[t].at = "ask" /\ thread' = [thread EXCEPT ![t] = Idle]
      /\ UNCHANGED <<pending, reader, todo, fate>>
  BY DEF Ask
<1>2. ASSUME NEW p \in Packets PROVE Hands(p)' = Hands(p)
  BY <1>1, HandsAre, HandsWillBe DEF Types, Carries, Idle
<1> QED BY <1>1, <1>2, NothingMoves DEF Flushing

\* _flush_pending takes the whole queue: it is the reader's from now on.
LEMMA PopMoves ==
    ASSUME Types, Counts, Pop
    PROVE  Counts'
<1> DEFINE h == reader.host
<1>1. h \in Hosts /\ pending[h] \in Seq(Packets)
  BY DEF Pop, Types, ReaderState, Idle
<1>2. /\ reader.at = "pop" /\ reader' = [at |-> "flush", queue |-> pending[h]]
      /\ pending' = [pending EXCEPT ![h] = << >>]
      /\ UNCHANGED <<thread, todo, fate>>
  BY DEF Pop
<1>3. Flushing = << >> /\ Flushing' = pending[h]
  BY <1>2 DEF Flushing
<1>4. ASSUME NEW p \in Packets PROVE IsFiniteSet(Hands(p)') /\ Places(p)' = 1
  <2> DEFINE n == Times(p, pending[h])
  <2>1. Hands(p)' = Hands(p)
    BY <1>2, HandsAre, HandsWillBe
  <2>2. n \in Nat
    BY <1>1, TimesType
  <2>3. Times(p, pending'[NextHop[p]]) = Times(p, pending[NextHop[p]]) + (-n)
    <3>1. CASE NextHop[p] = h
      <4>1. pending'[NextHop[p]] = << >> /\ Times(p, pending[NextHop[p]]) = n
        BY <1>1, <1>2, <3>1 DEF Types
      <4>2. Times(p, pending'[NextHop[p]]) = 0
        BY <4>1, TimesEmpty
      <4> QED BY <2>2, <4>1, <4>2
    <3>2. CASE NextHop[p] # h
      <4>1. pending'[NextHop[p]] = pending[NextHop[p]]
        BY <1>1, <1>2, <3>2, ArpAssumption DEF Types
      <4>2. n = 0
        BY <1>1, <3>2, ElsewhereNone
      <4>3. Times(p, pending[NextHop[p]]) \in Nat
        BY PlaceTypes
      <4> HIDE DEF n
      <4> QED BY <4>1, <4>2, <4>3
    <3> QED BY <3>1, <3>2
  <2>4. Times(p, Flushing') = Times(p, Flushing) + n
    <3>1. Times(p, Flushing) = 0 /\ Times(p, Flushing') = n
      BY <1>3, TimesEmpty
    <3> QED BY <2>2, <3>1
  <2> HIDE DEF n, h
  <2>5. /\ Cardinality(Hands(p)') = Cardinality(Hands(p)) + 0
        /\ Times(p, emitted') = Times(p, emitted) + 0
        /\ One(p, todo') = One(p, todo) + 0
        /\ Gone(p)' = Gone(p) + 0
    BY <1>2, <2>1, PlaceTypes DEF Gone
  <2>6. n \in Int /\ -n \in Int /\ (-n) + 0 + n + 0 + 0 + 0 = 0
    BY <2>2
  <2>7. IsFiniteSet(Hands(p)')
    BY <2>1 DEF Counts
  <2> QED BY <2>3, <2>4, <2>5, <2>6, <2>7, Balance
<1>5. ASSUME NEW g \in Hosts PROVE AtOwnHost(pending'[g], g)
  <2>1. pending'[g] = pending[g] \/ pending'[g] = << >>
    BY <1>1, <1>2 DEF Types
  <2>2. AtOwnHost(<< >>, g)
    BY EmptySeq DEF AtOwnHost
  <2> QED BY <2>1, <2>2 DEF Counts
<1>6. Together(Flushing') /\ \A p \in discarded' : Behind(p)'
  <2>1. AtOwnHost(pending[h], h)
    BY <1>1 DEF Counts
  <2> QED BY <1>2, <1>3, <2>1 DEF Counts, AtOwnHost, Together, Behind
<1> QED BY <1>4, <1>5, <1>6 DEF Counts

\* The reader emits the first packet of what it took.
LEMMA FlushMoves ==
    ASSUME Types, Counts, Flush
    PROVE  Counts'
<1>1. /\ reader.at = "flush" /\ Flushing = reader.queue
      /\ UNCHANGED <<pending, thread, todo, dropped, failed, discarded>>
  BY DEF Flush, Emits, Flushing
<1>2. \A p \in Packets : Hands(p)' = Hands(p)
  BY <1>1, HandsAre, HandsWillBe
<1>3. CASE reader.queue = << >>
  <2>1. Flushing' = Flushing /\ UNCHANGED fate
    BY <1>1, <1>3 DEF Flush, Flushing, Idle
  <2> QED BY <1>1, <1>2, <2>1, NothingMoves
<1>4. CASE reader.queue # << >>
  <2> DEFINE q == reader.queue
  <2>1. q \in Seq(Packets)
    BY <1>1 DEF Types, ReaderState, Idle
  <2>2. emitted' = Append(emitted, Head(q)) /\ reader' = [reader EXCEPT !.queue = Tail(q)]
    BY <1>4 DEF Flush, Emits
  <2>3. Flushing' = Tail(q)
    <3>1. reader \in [at : {"flush"}, queue : Seq(Packets)]
      BY <1>1 DEF Types, ReaderState, Idle
    <3>2. reader' = [at |-> "flush", queue |-> Tail(q)]
      BY <2>2, <3>1
    <3> QED BY <3>2 DEF Flushing
  <2>4. Head(q) \in Packets
    BY <1>4, <2>1, HeadTailProperties
  <2>5. ASSUME NEW p \in Packets PROVE IsFiniteSet(Hands(p)') /\ Places(p)' = 1
    <3> DEFINE n == One(p, {Head(q)})
    <3>1. n \in Nat
      BY DEF One
    <3>2. /\ Times(p, Tail(q)) \in Nat /\ Times(p, q) = Times(p, Tail(q)) + n
      BY <1>4, <2>1, TimesTail
    <3>3. Times(p, emitted') = Times(p, emitted) + n
      BY <2>2, <2>4, TimesAppend DEF Types
    <3> HIDE DEF n
    <3>4. Times(p, Flushing') = Times(p, Flushing) + (-n)
      BY <1>1, <2>3, <3>1, <3>2
    <3>5. /\ Times(p, pending'[NextHop[p]]) = Times(p, pending[NextHop[p]]) + 0
          /\ Cardinality(Hands(p)') = Cardinality(Hands(p)) + 0
          /\ One(p, todo') = One(p, todo) + 0
          /\ Gone(p)' = Gone(p) + 0
      BY <1>1, <1>2, PlaceTypes DEF Gone
    <3>6. n \in Int /\ -n \in Int /\ 0 + 0 + (-n) + n + 0 + 0 = 0
      BY <3>1
    <3>7. IsFiniteSet(Hands(p)')
      BY <1>2 DEF Counts
    <3> QED BY <3>3, <3>4, <3>5, <3>6, <3>7, Balance
  <2>6. Together(Tail(q))
    <3>1. /\ Len(Tail(q)) \in Nat /\ Len(q) = Len(Tail(q)) + 1
          /\ \A i \in 1 .. Len(Tail(q)) : Tail(q)[i] = q[i + 1]
      BY <1>4, <2>1, HeadTailProperties, LenProperties
    <3>2. Together(q)
      BY <1>1 DEF Counts
    <3> HIDE DEF q
    <3>3. ASSUME NEW i \in 1 .. Len(Tail(q)) PROVE i + 1 \in 1 .. Len(q)
      BY <3>1
    <3> QED BY <3>1, <3>2, <3>3 DEF Together
  <2> QED BY <1>1, <2>3, <2>5, <2>6 DEF Counts, AtOwnHost, Behind
<1> QED BY <1>3, <1>4

\* The first packet of what the reader took cannot be sent: the others go the
\* same way, and all were for one next hop.
LEMMA FlushRaisesMoves ==
    ASSUME Types, Counts, FlushRaises
    PROVE  Counts'
<1> DEFINE q == reader.queue
           x == Head(q)
           rest == Tail(q)
<1>1. /\ Flushing = q /\ Flushing' = << >> /\ q # << >>
      /\ failed' = failed \cup {x} /\ discarded' = discarded \cup ToSet(rest)
      /\ UNCHANGED <<pending, thread, todo, emitted, dropped>>
  BY DEF FlushRaises, Raises, Flushing, Idle
<1>2. q \in Seq(Packets)
  BY DEF FlushRaises, Types, ReaderState, Idle
<1>3. /\ rest \in Seq(Packets) /\ Len(rest) \in Nat /\ Len(q) = Len(rest) + 1
      /\ x = q[1] /\ \A i \in 1 .. Len(rest) : rest[i] = q[i + 1]
  BY <1>1, <1>2, HeadTailProperties, LenProperties
<1>4. ToSet(rest) = {rest[i] : i \in 1 .. Len(rest)}
  BY <1>3, LenProperties DEF ToSet
<1>5. \A p \in Packets : Hands(p)' = Hands(p)
  BY <1>1, HandsAre, HandsWillBe
<1>6. ASSUME NEW p \in Packets PROVE IsFiniteSet(Hands(p)') /\ Places(p)' = 1
  <2> DEFINE n == One(p, {x})
             m == Times(p, rest)
  <2>1. m \in Nat /\ Times(p, q) = m + n
    <3>1. q # << >>
      BY <1>1
    <3> HIDE DEF q
    <3> QED BY <1>2, <3>1, TimesTail
  <2>2. m = 0 <=> p \notin ToSet(rest)
    <3> HIDE DEF q, rest
    <3>1. m = 0 <=> \A i \in 1 .. Len(rest) : rest[i] # p
      BY <1>3, TimesType
    <3> QED BY <1>4, <3>1
  <2>3. n \in {0, 1}
    BY DEF One
  <2>4. m + n > 0 => /\ One(p, dropped) = 0 /\ One(p, failed) = 0
                      /\ One(p, discarded) = 0 /\ m + n <= 1
    <3> HIDE DEF m, n, q
    <3> QED BY <1>1, <2>1, NowhereElse
  <2> DEFINE k == m + n
  <2>5. k \in Nat /\ (k = 0 => m = 0 /\ n = 0)
           /\ (k > 0 => k = 1 /\ ((m = 1 /\ n = 0) \/ (m = 0 /\ n = 1)))
    <3> HIDE DEF m, n
    <3> QED BY <2>1, <2>3, <2>4
  <2>6. Gone(p)' = Gone(p) + k
    <3>1. CASE k = 0
      <4>1. p # x /\ p \notin ToSet(rest)
        BY <2>2, <2>5, <3>1 DEF One
      <4>2. Gone(p)' = Gone(p)
        BY <1>1, <4>1 DEF Gone, One
      <4> HIDE DEF k
      <4> QED BY <3>1, <4>2, PlaceTypes
    <3>2. CASE k > 0
      <4> HIDE DEF m, q, rest
      <4>1. p = x <=> p \notin ToSet(rest)
        BY <2>2, <2>5, <3>2 DEF One
      <4>2. p \notin dropped /\ p \notin failed /\ p \notin discarded
        BY <2>4, <3>2 DEF One
      <4>3. k = 1
        BY <2>5, <3>2
      <4> HIDE DEF k, n, x
      <4>4. One(p, dropped') = 0 /\ One(p, failed') + One(p, discarded') = 1
        BY <1>1, <4>1, <4>2 DEF One
      <4>5. Gone(p) = 0 /\ Gone(p)' = 1
        BY <4>2, <4>4 DEF Gone, One
      <4> QED BY <4>3, <4>5
    <3> HIDE DEF k
    <3> QED BY <2>5, <3>1, <3>2
  <2> HIDE DEF m, n
  <2>7. Times(p, Flushing') = Times(p, Flushing) + (-k)
    <3>1. Times(p, Flushing') = 0 /\ Times(p, Flushing) = k
      BY <1>1, <2>1, TimesEmpty
    <3> HIDE DEF k
    <3> QED BY <2>5, <3>1
  <2> HIDE DEF k
  <2>8. /\ Times(p, pending'[NextHop[p]]) = Times(p, pending[NextHop[p]]) + 0
        /\ Cardinality(Hands(p)') = Cardinality(Hands(p)) + 0
        /\ Times(p, emitted') = Times(p, emitted) + 0
        /\ One(p, todo') = One(p, todo) + 0
    <3>1. pending' = pending /\ emitted' = emitted /\ todo' = todo
      BY <1>1
    <3> QED BY <1>5, <3>1, PlaceTypes
  <2>9. k \in Int /\ -k \in Int /\ 0 + 0 + (-k) + 0 + 0 + k = 0
    BY <2>5
  <2>10. IsFiniteSet(Hands(p)')
    BY <1>5 DEF Counts
  <2>11. Places(p)' = 1
    BY <2>6, <2>7, <2>8, <2>9, Balance
  <2> QED BY <2>10, <2>11
<1>7. ASSUME NEW p \in discarded' PROVE Behind(p)'
  <2>1. CASE p \in discarded
    BY <1>1, <2>1 DEF Counts, Behind
  <2>2. CASE p \in ToSet(rest)
    <3>1. PICK i \in 1 .. Len(rest) : p = rest[i]
      BY <1>4, <2>2
    <3>2. 1 \in 1 .. Len(q) /\ i + 1 \in 1 .. Len(q) /\ p = q[i + 1] /\ x = q[1]
      <4> HIDE DEF q, rest, x
      <4> QED BY <1>3, <3>1
    <3>3. NextHop[x] = NextHop[p]
      <4> HIDE DEF q, x
      <4> QED BY <1>1, <3>2 DEF Counts, Together
    <3> QED BY <1>1, <3>3 DEF Behind
  <2> QED BY <1>1, <2>1, <2>2
<1>8. Together(Flushing')
  BY <1>1, EmptySeq DEF Together
<1> QED BY <1>1, <1>6, <1>7, <1>8 DEF Counts, AtOwnHost

\* Counts, given the types, is inductive.
LEMMA CountsStep == Types /\ Counts /\ [Next]_vars => Counts'
<1> SUFFICES ASSUME Types, Counts, [Next]_vars PROVE Counts'
  OBVIOUS
<1>a. UNCHANGED thread => \A p \in Packets : Hands(p)' = Hands(p)
  BY HandsAre, HandsWillBe
<1>1. ASSUME NEW t \in Threads, NEW p \in Packets, Lookup(t, p) PROVE Counts'
  BY <1>1, LookupMoves
<1>2. ASSUME NEW t \in Threads, EmitNow(t) PROVE Counts'
  BY <1>2, EmitMoves
<1>3. ASSUME NEW t \in Threads, Park(t) PROVE Counts'
  BY <1>3, ParkMoves
<1>4. ASSUME NEW t \in Threads, Ask(t) PROVE Counts'
  BY <1>4, AskMoves
<1>5. ASSUME NEW h \in Hosts, Answer(h) PROVE Counts'
  BY <1>5, <1>a, NothingMoves DEF Answer, Flushing
<1>6. ASSUME NEW h \in Hosts, Lose(h) PROVE Counts'
  BY <1>6, <1>a, NothingMoves DEF Lose, Flushing
<1>7. ASSUME NEW h \in Hosts, OnReply(h) PROVE Counts'
  <2>1. Flushing = << >> /\ Flushing' = << >>
    BY <1>7 DEF OnReply, Flushing, Idle
  <2> QED BY <1>7, <1>a, <2>1, NothingMoves DEF OnReply
<1>8. ASSUME NEW h \in Hosts, OnRequest(h) PROVE Counts'
  BY <1>8, <1>a, NothingMoves DEF OnRequest, Flushing
<1>9. CASE Pop
  BY <1>9, PopMoves
<1>10. CASE Flush
  BY <1>10, FlushMoves
<1>11. CASE Expire
  BY <1>11, <1>a, NothingMoves DEF Expire, Flushing
<1>12. CASE UNCHANGED vars
  BY <1>12, <1>a, NothingMoves DEF vars, Flushing
<1>13. CASE FlushRaises
  BY <1>13, FlushRaisesMoves
<1> QED BY <1>1, <1>2, <1>3, <1>4, <1>5, <1>6, <1>7, <1>8, <1>9, <1>10, <1>11,
           <1>12, <1>13 DEF Next

\* Counts says what Conserved says: the only queue that can hold a packet is
\* that of its next hop.
LEMMA CountsConserve == Types /\ Counts => Conserved
<1> SUFFICES ASSUME Types, Counts, NEW p \in Packets
             PROVE  /\ 1 = Cardinality({h \in Hosts : Times(p, pending[h]) > 0})
                           + Cardinality(Hands(p)) + Times(p, Flushing) + Times(p, emitted)
                           + One(p, todo) + One(p, dropped)
                           + One(p, failed) + One(p, discarded)
                    /\ \A h \in Hosts : Times(p, pending[h]) <= 1
                    /\ p \in discarded => Behind(p)
  BY DEF Conserved, Hands, One, Behind
<1> DEFINE Q == {h \in Hosts : Times(p, pending[h]) > 0}
           g == NextHop[p]
           a == Times(p, pending[NextHop[p]])
           b == Cardinality(Hands(p))
           c == Times(p, Flushing)
           d == Times(p, emitted)
           e == One(p, todo)
           f == One(p, dropped)
           k == One(p, failed)
           l == One(p, discarded)
<1>1. /\ a \in Nat /\ b \in Nat /\ c \in Nat /\ d \in Nat
      /\ e \in Nat /\ f \in Nat /\ k \in Nat /\ l \in Nat
  BY PlaceTypes DEF One
<1>2. a + b + c + d + e + (f + k + l) = 1
  BY DEF Counts, Places, Gone
<1>3. a \in {0, 1}
  <2> HIDE DEF a, b, c, d, e, f, k, l
  <2> QED BY <1>1, <1>2
<1>4. \A h \in Hosts : Times(p, pending[h]) = IF h = g THEN a ELSE 0
  BY ElsewhereNone
<1>5. Cardinality(Q) = a
  <2>1. CASE a = 0
    <3>1. Q = {}
      BY <1>4, <2>1
    <3> HIDE DEF Q
    <3> QED BY <2>1, <3>1, FS_EmptySet
  <2>2. CASE a = 1
    <3>1. Q = {g}
      BY <1>4, <2>2, ArpAssumption
    <3> HIDE DEF Q, g
    <3> QED BY <2>2, <3>1, FS_Singleton
  <2> QED BY <1>3, <2>1, <2>2
<1>6. \A h \in Hosts : Times(p, pending[h]) <= 1
  <2> HIDE DEF a
  <2> QED BY <1>3, <1>4
<1>7. 1 = a + b + c + d + e + f + k + l
  <2> HIDE DEF a, b, c, d, e, f, k, l
  <2> QED BY <1>1, <1>2
<1>8. p \in discarded => Behind(p)
  BY DEF Counts
<1> HIDE DEF Q
<1> QED BY <1>5, <1>6, <1>7, <1>8 DEF Q

\* Every packet is in exactly one place, whatever the interleaving of the
\* sending threads with the reader's replies, flushes and ticks, and whatever
\* emissions raise; one that a flush discards was behind one for the same next
\* hop that could not be sent.
THEOREM PacketsConserved == Spec => []Conserved
<1>1. Types /\ Counts => Conserved
  BY CountsConserve
<1> QED BY <1>1, CountsInit, CountsStep, TypesInit, TypesStep, PTL DEF Spec
=============================================================================
