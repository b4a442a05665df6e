---------------------------- MODULE TimingProofs ----------------------------
(***************************************************************************)
(* What holds of Timing for every wire, every number of segments and every *)
(* setting of the timeouts: the timer and its timeout stay together        *)
(* (TimerCorrect), two readers pumping one list lose no frame              *)
(* (WireConserves), Karn's rule (SampleCorrect) and, on a wire that takes  *)
(* time, the end of the backoff (BackoffDropped).                          *)
(*                                                                         *)
(* SampleIsReal says nothing of the wire, so it is not inductive.  What    *)
(* makes it so is OnceSent: an entry that was sent once is old enough for  *)
(* every copy and every acknowledgement there is of it.  That in turn      *)
(* needs Behind: nobody has what was not yet sent.                         *)
(***************************************************************************)
EXTENDS Timing, ListProofs

\* A delayed frame, an outstanding entry, an estimator.
Item == [left : Nat, to : Link, frame : Nat]
EntryType == [seq : Nat, age : Nat, retransmits : Nat]
EstType == [srtt : Int, rttvar : Int, rto : Int]

-----------------------------------------------------------------------------
(* The wire                                                                *)

\* The wire has two ends.
LEMMA OtherIs == Other("a") = "b" /\ Other("b") = "a"
<1>1. \E f \in Link : f # "a"
  BY DEF Link
<1>2. \E f \in Link : f # "b"
  BY DEF Link
<1> QED BY <1>1, <1>2 DEF Other, Link

-----------------------------------------------------------------------------
(* The wire                                                                *)

\* The delayed frames, what the readers hold and what is queued.
WireTypes(p, h, q) ==
    p \in Seq(Item) /\ h \in [Link -> Seq(Item)] /\ q \in [Link -> Seq(Nat)]

\* The copies on their way to link l, each with the delay left to it.
Copies(p, h, q, l) ==
    {c \in Nat \X Nat :
        \/ \E i \in 1 .. Len(p) : p[i].to = l /\ c[1] = p[i].left /\ c[2] = p[i].frame
        \/ c[1] = 0 /\ \E e \in Link : \E i \in 1 .. Len(h[e]) :
                          h[e][i].to = l /\ c[2] = h[e][i].frame
        \/ c[1] = 0 /\ \E i \in 1 .. Len(q[l]) : c[2] = q[l][i]}

\* InTransit, of any such lists.
Total(p, h, q) == Len(p) + Len(h["a"]) + Len(h["b"]) + Len(q["a"]) + Len(q["b"])

\* The copies in transit are counted list by list: they grow by what one list
\* grows by, be it the delayed frames,
LEMMA PendingTotal ==
    ASSUME NEW p, NEW h, NEW q, WireTypes(p, h, q), NEW p2 \in Seq(Item)
    PROVE  /\ Total(p2, h, q) + Len(p) = Total(p, h, q) + Len(p2)
           /\ Total(p, h, q) \in Int /\ Total(p2, h, q) \in Int
<1> DEFINE rest == Len(h["a"]) + Len(h["b"]) + Len(q["a"]) + Len(q["b"])
<1>1. Len(p) \in Int /\ Len(p2) \in Int /\ Len(h["a"]) \in Int /\ Len(h["b"]) \in Int
      /\ Len(q["a"]) \in Int /\ Len(q["b"]) \in Int
  BY DEF WireTypes, Link
<1>2. rest \in Int /\ Total(p, h, q) = Len(p) + rest /\ Total(p2, h, q) = Len(p2) + rest
  <2> DEFINE x == Len(p)
             y == Len(p2)
             b == Len(h["a"])
             c == Len(h["b"])
             d == Len(q["a"])
             e == Len(q["b"])
  <2>1. rest = b + c + d + e /\ Total(p, h, q) = x + b + c + d + e
        /\ Total(p2, h, q) = y + b + c + d + e
    BY DEF Total
  <2>2. x \in Int /\ y \in Int /\ b \in Int /\ c \in Int /\ d \in Int /\ e \in Int
    BY <1>1
  <2> HIDE DEF x, y, b, c, d, e, rest
  <2>3. rest \in Int /\ Total(p, h, q) = x + rest /\ Total(p2, h, q) = y + rest
    BY <2>1, <2>2
  <2> QED BY <2>3 DEF x, y
<1> HIDE DEF rest
<1> QED BY <1>1, <1>2

\* what a reader has in its hands,
LEMMA HandsTotal ==
    ASSUME NEW p, NEW h, NEW q, WireTypes(p, h, q), NEW e \in Link, NEW h2,
           h2[e] \in Seq(Item), \A l \in Link : l # e => h2[l] = h[l]
    PROVE  Total(p, h2, q) + Len(h[e]) = Total(p, h, q) + Len(h2[e])
<1> DEFINE x == Len(h["a"])
           y == Len(h["b"])
           x2 == Len(h2["a"])
           y2 == Len(h2["b"])
           b == Len(p)
           c == Len(q["a"])
           d == Len(q["b"])
<1>1. Total(p, h, q) = b + x + y + c + d /\ Total(p, h2, q) = b + x2 + y2 + c + d
  BY DEF Total
<1>2. x \in Int /\ y \in Int /\ b \in Int /\ c \in Int /\ d \in Int
  BY DEF WireTypes, Link
<1>3. CASE e = "a"
  <2>1. x2 \in Int /\ y2 = y
    BY <1>3 DEF Link
  <2> HIDE DEF x, y, x2, y2, b, c, d
  <2>2. Total(p, h2, q) + x = Total(p, h, q) + x2
    BY <1>1, <1>2, <2>1
  <2> QED BY <1>3, <2>2 DEF x, x2
<1>4. CASE e = "b"
  <2>1. y2 \in Int /\ x2 = x
    BY <1>4 DEF Link
  <2> HIDE DEF x, y, x2, y2, b, c, d
  <2>2. Total(p, h2, q) + y = Total(p, h, q) + y2
    BY <1>1, <1>2, <2>1
  <2> QED BY <1>4, <2>2 DEF y, y2
<1> QED BY <1>3, <1>4 DEF Link

\* or what is queued for a link.
LEMMA QueueTotal ==
    ASSUME NEW p, NEW h, NEW q, WireTypes(p, h, q), NEW e \in Link, NEW q2,
           q2[e] \in Seq(Nat), \A l \in Link : l # e => q2[l] = q[l]
    PROVE  Total(p, h, q2) + Len(q[e]) = Total(p, h, q) + Len(q2[e])
<1> DEFINE x == Len(q["a"])
           y == Len(q["b"])
           x2 == Len(q2["a"])
           y2 == Len(q2["b"])
           b == Len(p)
           c == Len(h["a"])
           d == Len(h["b"])
<1>1. Total(p, h, q) = b + c + d + x + y /\ Total(p, h, q2) = b + c + d + x2 + y2
  BY DEF Total
<1>2. x \in Int /\ y \in Int /\ b \in Int /\ c \in Int /\ d \in Int
  BY DEF WireTypes, Link
<1>3. CASE e = "a"
  <2>1. x2 \in Int /\ y2 = y
    BY <1>3 DEF Link
  <2> HIDE DEF x, y, x2, y2, b, c, d
  <2>2. Total(p, h, q2) + x = Total(p, h, q) + x2
    BY <1>1, <1>2, <2>1
  <2> QED BY <1>3, <2>2 DEF x, x2
<1>4. CASE e = "b"
  <2>1. y2 \in Int /\ x2 = x
    BY <1>4 DEF Link
  <2> HIDE DEF x, y, x2, y2, b, c, d
  <2>2. Total(p, h, q2) + y = Total(p, h, q) + y2
    BY <1>1, <1>2, <2>1
  <2> QED BY <1>4, <2>2 DEF y, y2
<1> QED BY <1>3, <1>4 DEF Link

\* recv_frame takes one copy, which was due, off the wire.
LEMMA TakenWire ==
    ASSUME WireTypes(pending, hands, queue), NEW e \in Link, queue[e] # << >>
    PROVE  /\ WireTypes(pending, hands, Taken(e))
           /\ Head(queue[e]) \in Nat
           /\ <<0, Head(queue[e])>> \in Copies(pending, hands, queue, e)
           /\ \A l \in Link : Copies(pending, hands, Taken(e), l)
                                  \subseteq Copies(pending, hands, queue, l)
           /\ Total(pending, hands, Taken(e)) = Total(pending, hands, queue) - 1
<1> DEFINE t == Tail(queue[e])
<1>1. queue[e] \in Seq(Nat)
  BY DEF WireTypes
<1>2. /\ t \in Seq(Nat) /\ Len(t) = Len(queue[e]) - 1 /\ Len(queue[e]) \in Nat
      /\ \A i \in 1 .. Len(t) : t[i] = queue[e][i + 1] /\ i + 1 \in 1 .. Len(queue[e])
      /\ Head(queue[e]) = queue[e][1] /\ 1 \in 1 .. Len(queue[e]) /\ queue[e][1] \in Nat
  BY <1>1
<1> HIDE DEF t
<1>3. /\ Taken(e) \in [Link -> Seq(Nat)] /\ Taken(e)[e] = t
      /\ \A l \in Link : l # e => Taken(e)[l] = queue[l]
  BY <1>2 DEF Taken, WireTypes, t
<1>4. WireTypes(pending, hands, Taken(e))
  BY <1>3 DEF WireTypes
<1>5. <<0, Head(queue[e])>> \in Copies(pending, hands, queue, e)
  BY <1>2 DEF Copies
<1>6. ASSUME NEW l \in Link
      PROVE  Copies(pending, hands, Taken(e), l) \subseteq Copies(pending, hands, queue, l)
  <2>1. CASE l = e
    <3>1. \A i \in 1 .. Len(Taken(e)[l]) : \E j \in 1 .. Len(queue[l]) : Taken(e)[l][i] = queue[l][j]
      BY <1>2, <1>3, <2>1
    <3> QED BY <3>1 DEF Copies
  <2>2. CASE l # e
    <3>1. Taken(e)[l] = queue[l]
      BY <1>3, <2>2
    <3> QED BY <3>1 DEF Copies
  <2> QED BY <2>1, <2>2
<1>7. Total(pending, hands, Taken(e)) = Total(pending, hands, queue) - 1
  <2>1. Taken(e)[e] \in Seq(Nat) /\ \A l \in Link : l # e => Taken(e)[l] = queue[l]
    BY <1>2, <1>3
  <2>2. Total(pending, hands, Taken(e)) + Len(queue[e])
          = Total(pending, hands, queue) + Len(Taken(e)[e])
    BY <2>1, QueueTotal
  <2>4. Total(pending, hands, Taken(e)) \in Int
    BY <1>4, PendingTotal DEF WireTypes
  <2>3. Total(pending, hands, queue) \in Int
    BY PendingTotal DEF WireTypes
  <2> QED BY <1>2, <1>3, <2>2, <2>3, <2>4
<1> QED BY <1>2, <1>4, <1>5, <1>6, <1>7

\* Copies put on the wire are copies of that frame to the other end, delayed
\* by what a wire delays, and each is accounted for.
LEMMA SentWire ==
    ASSUME NEW e \in Link, NEW frame \in Nat, NEW q, NEW n \in Int,
           WireTypes(pending, hands, q), hands' = hands,
           Transmit(e, frame, q, n) \/ Silent(q, n)
    PROVE  /\ WireTypes(pending', hands', queue')
           /\ owed' \in Int
           /\ owed' + Total(pending, hands, q) = n + Total(pending', hands', queue')
           /\ \A l \in Link : \A d, f \in Nat :
                 <<d, f>> \in Copies(pending', hands', queue', l) =>
                     \/ <<d, f>> \in Copies(pending, hands, q, l)
                     \/ l = Other(e) /\ f = frame /\ d \in Delays
<1> DEFINE o == Other(e)
<1>0. o \in Link
  BY OtherIs DEF Link
<1> HIDE DEF o
<1>1. CASE Silent(q, n)
  <2>1. pending' = pending /\ queue' = q /\ owed' = n
    BY <1>1 DEF Silent
  <2>2. Total(pending', hands', queue') = Total(pending, hands, q)
        /\ Total(pending, hands, q) \in Int
    BY <2>1 DEF Total, WireTypes, Link
  <2> QED BY <2>1, <2>2
<1>2. CASE Transmit(e, frame, q, n) /\ ~Silent(q, n)
  <2>1. PICK copies \in 0 .. 2, delay \in Delays :
            /\ owed' = n + copies
            /\ IF delay = 0
               THEN /\ queue' = [q EXCEPT ![o] = @ \o [i \in 1 .. copies |-> frame]]
                    /\ UNCHANGED pending
               ELSE /\ pending' = pending \o
                           [i \in 1 .. copies |-> [left |-> delay, to |-> o, frame |-> frame]]
                    /\ queue' = q
    BY <1>2 DEF Transmit, o
  <2>2. delay \in Nat
    BY WireAssumption
  <2>3. CASE delay = 0
    <3> DEFINE more == [i \in 1 .. copies |-> frame]
    <3>1. more \in Seq(Nat) /\ Len(more) = copies /\ \A i \in 1 .. copies : more[i] = frame
      OBVIOUS
    <3> HIDE DEF more
    <3>2. pending' = pending /\ queue' = [q EXCEPT ![o] = @ \o more]
      BY <2>1, <2>3 DEF more
    <3>3. q[o] \in Seq(Nat) /\ q[o] \o more \in Seq(Nat)
          /\ Len(q[o] \o more) = Len(q[o]) + copies /\ Len(q[o]) \in Nat
          /\ \A i \in 1 .. Len(q[o] \o more) :
                (i \in 1 .. Len(q[o]) /\ (q[o] \o more)[i] = q[o][i]) \/ (q[o] \o more)[i] = frame
      <4>1. q[o] \in Seq(Nat)
        BY <1>0 DEF WireTypes
      <4> QED BY <3>1, <4>1
    <3>4. queue' \in [Link -> Seq(Nat)] /\ queue'[o] = q[o] \o more
          /\ \A l \in Link : l # o => queue'[l] = q[l]
      BY <1>0, <3>2, <3>3 DEF WireTypes
    <3>5. WireTypes(pending', hands', queue')
      BY <3>2, <3>4 DEF WireTypes
    <3>6. Total(pending', hands', queue') = Total(pending, hands, q) + copies
          /\ Total(pending, hands, q) \in Int
      <4>2. Total(pending, hands, queue') + Len(q[o])
              = Total(pending, hands, q) + Len(queue'[o])
        <5>1. queue'[o] \in Seq(Nat) /\ \A l \in Link : l # o => queue'[l] = q[l]
          BY <3>3, <3>4
        <5> QED BY <1>0, <5>1, QueueTotal
      <4>3. Total(pending, hands, q) \in Int
        BY PendingTotal DEF WireTypes
      <4>4. Total(pending, hands, queue') \in Int
        BY <3>2, <3>5, PendingTotal DEF WireTypes
      <4> QED BY <3>2, <3>3, <3>4, <4>2, <4>3, <4>4
    <3>7. ASSUME NEW l \in Link, NEW d \in Nat, NEW f \in Nat,
                 <<d, f>> \in Copies(pending', hands', queue', l)
          PROVE  <<d, f>> \in Copies(pending, hands, q, l)
                 \/ (l = o /\ f = frame /\ d \in Delays)
      <4>1. CASE l # o
        <5>1. queue'[l] = q[l]
          BY <3>4, <4>1
        <5> QED BY <3>2, <3>7, <5>1 DEF Copies
      <4>2. CASE l = o
        BY <2>3, <3>2, <3>3, <3>4, <3>7, <4>2 DEF Copies
      <4> QED BY <4>1, <4>2
    <3> QED BY <2>1, <3>5, <3>6, <3>7 DEF o
  <2>4. CASE delay # 0
    <3> DEFINE one == [left |-> delay, to |-> o, frame |-> frame]
               more == [i \in 1 .. copies |-> one]
    <3>0. one \in Item /\ one.left = delay /\ one.to = o /\ one.frame = frame
      BY <1>0, <2>2 DEF Item
    <3>2. queue' = q /\ pending' = pending \o more
      BY <2>1, <2>4
    <3> HIDE DEF one
    <3>1. more \in Seq(Item) /\ Len(more) = copies /\ \A i \in 1 .. copies : more[i] = one
      BY <3>0
    <3> HIDE DEF more
    <3>3. /\ pending \in Seq(Item) /\ pending' \in Seq(Item)
          /\ Len(pending') = Len(pending) + copies /\ Len(pending) \in Nat
          /\ \A i \in 1 .. Len(pending') :
                (i \in 1 .. Len(pending) /\ pending'[i] = pending[i]) \/ pending'[i] = one
      <4>1. pending \in Seq(Item)
        BY DEF WireTypes
      <4> QED BY <3>1, <3>2, <4>1
    <3>5. WireTypes(pending', hands', queue')
      BY <3>2, <3>3 DEF WireTypes
    <3>6. Total(pending', hands', queue') = Total(pending, hands, q) + copies
          /\ Total(pending, hands, q) \in Int
      <4>1. /\ Total(pending', hands, q) + Len(pending) = Total(pending, hands, q) + Len(pending')
            /\ Total(pending, hands, q) \in Int /\ Total(pending', hands, q) \in Int
        BY <3>3, PendingTotal
      <4> DEFINE t == Total(pending, hands, q)
                 u == Total(pending', hands, q)
                 k == Len(pending)
      <4>2. u + k = t + (k + copies) /\ t \in Int /\ u \in Int /\ k \in Int
        BY <3>3, <4>1
      <4> HIDE DEF t, u, k
      <4>3. u = t + copies
        BY <4>2
      <4> QED BY <3>2, <4>1, <4>3 DEF t, u
    <3>7. ASSUME NEW l \in Link, NEW d \in Nat, NEW f \in Nat,
                 <<d, f>> \in Copies(pending', hands', queue', l)
          PROVE  <<d, f>> \in Copies(pending, hands, q, l)
                 \/ (l = o /\ f = frame /\ d \in Delays)
      BY <3>0, <3>2, <3>3, <3>7 DEF Copies
    <3> QED BY <2>1, <3>5, <3>6, <3>7 DEF o
  <2> QED BY <2>3, <2>4
<1> QED BY <1>1, <1>2

\* pump moves the due copies from the list into a reader's hands.
LEMMA PumpWire ==
    ASSUME NEW e \in Link, WireTypes(pending, hands, queue), Pump(e)
    PROVE  /\ WireTypes(pending', hands', queue')
           /\ Total(pending', hands', queue') = Total(pending, hands, queue)
           /\ \A l \in Link : \A d, f \in Nat :
                 <<d, f>> \in Copies(pending', hands', queue', l) =>
                     <<d, f>> \in Copies(pending, hands, queue, l)
<1> DEFINE Due == DuePlaces(pending)
           Rest == (1 .. Len(pending)) \ Due
           due == Picked(pending, Due)
           rest == Picked(pending, Rest)
<1>1. /\ hands[e] = << >> /\ hands' = [hands EXCEPT ![e] = due] /\ pending' = rest
      /\ queue' = queue
  BY DEF Pump, NotTaken
<1>2. pending \in Seq(Item) /\ Due \subseteq 1 .. Len(pending) /\ Rest \subseteq 1 .. Len(pending)
  BY DEF WireTypes, DuePlaces
<1>3. \A i \in Due : pending[i].left = 0 /\ pending[i] \in Item
  <2> SUFFICES ASSUME NEW i \in Due PROVE pending[i].left = 0 /\ pending[i] \in Item
    OBVIOUS
  <2>1. pending[i] \in Item
    BY <1>2
  <2>2. pending[i].left <= 0 /\ pending[i].left \in Nat
    BY <2>1 DEF DuePlaces, IsDue, Item
  <2> QED BY <2>1, <2>2
<1>4. /\ due \in Seq(Item) /\ rest \in Seq(Item)
      /\ \A k \in 1 .. Len(due) : \E i \in Due : due[k] = pending[i]
      /\ \A k \in 1 .. Len(rest) : \E i \in Rest : rest[k] = pending[i]
  <2> HIDE DEF Due, Rest
  <2>1. ASSUME NEW P, P \subseteq 1 .. Len(pending)
        PROVE  /\ Picked(pending, P) \in Seq(Item)
               /\ \A k \in 1 .. Len(Picked(pending, P)) :
                     \E i \in P : Picked(pending, P)[k] = pending[i]
    <3>1. pending \in Seq(Item)
      BY <1>2
    <3>2. Picked(pending, P) \in Seq(Item)
      BY <2>1, <3>1, PickedIs
    <3>3. ASSUME NEW k \in 1 .. Len(Picked(pending, P))
          PROVE  \E i \in P : Picked(pending, P)[k] = pending[i]
      <4>1. Len(Picked(pending, P)) = Cardinality(P) /\ Len(pending) \in Nat
        <5>1. Len(Picked(pending, P)) = Cardinality(P)
          BY <2>1, <3>1, PickedIs, Zenon
        <5> QED BY <3>1, <5>1
      <4>2. k \in 1 .. Cardinality(P) /\ Len(pending) \in Nat /\ P \in SUBSET (1 .. Len(pending))
        BY <2>1, <3>3, <4>1
      <4>3. Picked(pending, P)[k] \in {pending[i] : i \in P}
        BY <4>2, PickedFrom
      <4> QED BY <4>3
    <3> QED BY <3>2, <3>3
  <2>2. /\ due \in Seq(Item)
        /\ \A k \in 1 .. Len(due) : \E i \in Due : due[k] = pending[i]
    BY <1>2, <2>1
  <2>3. /\ rest \in Seq(Item)
        /\ \A k \in 1 .. Len(rest) : \E i \in Rest : rest[k] = pending[i]
    BY <1>2, <2>1
  <2> QED BY <2>2, <2>3
<1>5. Len(pending) = Len(due) + Len(rest)
  <2> HIDE DEF Due
  <2> QED BY <1>2, PickedRest
<1> HIDE DEF due, rest, Due, Rest
<1>6. /\ hands' \in [Link -> Seq(Item)] /\ hands'[e] = due
      /\ \A l \in Link : l # e => hands'[l] = hands[l]
  BY <1>1, <1>4 DEF WireTypes
<1>7. WireTypes(pending', hands', queue') /\ WireTypes(pending, hands', queue)
  BY <1>1, <1>2, <1>4, <1>6 DEF WireTypes
<1>8. Total(pending', hands', queue') = Total(pending, hands, queue)
  <2>1. Total(pending, hands', queue) + Len(hands[e]) = Total(pending, hands, queue) + Len(hands'[e])
    <3>1. hands'[e] \in Seq(Item) /\ \A l \in Link : l # e => hands'[l] = hands[l]
      BY <1>4, <1>6
    <3> QED BY <3>1, HandsTotal
  <2>2. Total(rest, hands', queue) + Len(pending) = Total(pending, hands', queue) + Len(rest)
        /\ Total(pending, hands', queue) \in Int /\ Total(rest, hands', queue) \in Int
    BY <1>4, <1>7, PendingTotal
  <2>3. Total(pending, hands, queue) \in Int
    BY <1>2, PendingTotal
  <2>4. Len(hands[e]) = 0 /\ Len(due) \in Int /\ Len(rest) \in Int
    BY <1>1, <1>4
  <2> DEFINE t == Total(pending, hands, queue)
             u == Total(pending, hands', queue)
             v == Total(rest, hands', queue)
             x == Len(due)
             y == Len(rest)
  <2>5. /\ t \in Int /\ u \in Int /\ v \in Int /\ x \in Int /\ y \in Int
        /\ u + 0 = t + x /\ v + (x + y) = u + y
    BY <1>5, <1>6, <2>1, <2>2, <2>3, <2>4
  <2> HIDE DEF t, u, v, x, y
  <2>6. v = t
    BY <2>5
  <2> QED BY <1>1, <2>6 DEF t, v
<1>9. ASSUME NEW l \in Link, NEW d \in Nat, NEW f \in Nat,
             <<d, f>> \in Copies(pending', hands', queue', l)
      PROVE  <<d, f>> \in Copies(pending, hands, queue, l)
  <2>1. CASE \E i \in 1 .. Len(rest) : rest[i].to = l /\ d = rest[i].left /\ f = rest[i].frame
    <3>1. \E i \in 1 .. Len(pending) :
              pending[i].to = l /\ d = pending[i].left /\ f = pending[i].frame
      BY <1>2, <1>4, <2>1 DEF Rest
    <3> QED BY <3>1 DEF Copies
  <2>2. CASE d = 0 /\ \E i \in 1 .. Len(due) : due[i].to = l /\ f = due[i].frame
    <3>1. \E i \in 1 .. Len(pending) :
              pending[i].to = l /\ d = pending[i].left /\ f = pending[i].frame
      BY <1>2, <1>3, <1>4, <2>2
    <3> QED BY <3>1 DEF Copies
  <2>3. CASE d = 0 /\ \E m \in Link : m # e /\ \E i \in 1 .. Len(hands[m]) :
                         hands[m][i].to = l /\ f = hands[m][i].frame
    BY <2>3 DEF Copies
  <2>4. CASE d = 0 /\ \E i \in 1 .. Len(queue[l]) : f = queue[l][i]
    BY <2>4 DEF Copies
  <2>5. \/ \E i \in 1 .. Len(rest) : rest[i].to = l /\ d = rest[i].left /\ f = rest[i].frame
        \/ d = 0 /\ \E m \in Link : \E i \in 1 .. Len(hands'[m]) :
                        hands'[m][i].to = l /\ f = hands'[m][i].frame
        \/ d = 0 /\ \E i \in 1 .. Len(queue[l]) : f = queue[l][i]
    BY <1>1, <1>9 DEF Copies
  <2> QED BY <1>6, <2>1, <2>2, <2>3, <2>4, <2>5
<1> QED BY <1>7, <1>8, <1>9

\* _enqueue moves one of them on to the queue of whoever it is for.
LEMMA EnqueueWire ==
    ASSUME NEW e \in Link, WireTypes(pending, hands, queue), _enqueue(e)
    PROVE  /\ WireTypes(pending', hands', queue')
           /\ Total(pending', hands', queue') = Total(pending, hands, queue)
           /\ \A l \in Link : \A d, f \in Nat :
                 <<d, f>> \in Copies(pending', hands', queue', l) =>
                     <<d, f>> \in Copies(pending, hands, queue, l)
<1> DEFINE item == Head(hands[e])
           t == Tail(hands[e])
           o == item.to
           s == Append(queue[o], item.frame)
<1>1. /\ hands[e] # << >> /\ queue' = [queue EXCEPT ![o] = s]
      /\ hands' = [hands EXCEPT ![e] = t] /\ pending' = pending
  BY DEF _enqueue
<1>2. hands[e] \in Seq(Item) /\ pending \in Seq(Item)
  BY DEF WireTypes
<1>3. /\ t \in Seq(Item) /\ Len(hands[e]) = Len(t) + 1 /\ Len(t) \in Nat
      /\ \A i \in 1 .. Len(t) : i + 1 \in 1 .. Len(hands[e]) /\ t[i] = hands[e][i + 1]
      /\ 1 \in 1 .. Len(hands[e]) /\ item = hands[e][1] /\ item \in Item
  BY <1>1, <1>2
<1>4. o \in Link /\ item.frame \in Nat
  BY <1>3 DEF Item
<1>5. /\ queue[o] \in Seq(Nat) /\ s \in Seq(Nat) /\ Len(s) = Len(queue[o]) + 1
      /\ Len(queue[o]) \in Nat
      /\ \A i \in 1 .. Len(s) :
            (i \in 1 .. Len(queue[o]) /\ s[i] = queue[o][i]) \/ s[i] = item.frame
  <2>1. queue[o] \in Seq(Nat)
    BY <1>4 DEF WireTypes
  <2> DEFINE was == queue[o]
             new == item.frame
  <2>2. was \in Seq(Nat) /\ new \in Nat
    BY <1>4, <2>1
  <2> HIDE DEF was, new, o, item
  <2>3. /\ Append(was, new) \in Seq(Nat) /\ Len(Append(was, new)) = Len(was) + 1
        /\ Len(was) \in Nat
        /\ \A i \in 1 .. Len(Append(was, new)) :
              (i \in 1 .. Len(was) /\ Append(was, new)[i] = was[i]) \/ Append(was, new)[i] = new
    BY <2>2
  <2> QED BY <2>2, <2>3 DEF was, new
<1> HIDE DEF item, t, o, s
<1>6. /\ hands' \in [Link -> Seq(Item)] /\ hands'[e] = t
      /\ \A l \in Link : l # e => hands'[l] = hands[l]
  BY <1>1, <1>3 DEF WireTypes
<1>7. /\ queue' \in [Link -> Seq(Nat)] /\ queue'[o] = s
      /\ \A l \in Link : l # o => queue'[l] = queue[l]
  BY <1>1, <1>4, <1>5 DEF WireTypes
<1>8. WireTypes(pending', hands', queue') /\ WireTypes(pending, hands', queue)
  BY <1>1, <1>2, <1>6, <1>7 DEF WireTypes
<1>9. Total(pending', hands', queue') = Total(pending, hands, queue)
  <2>1. Total(pending, hands', queue) + Len(hands[e]) = Total(pending, hands, queue) + Len(hands'[e])
    <3>1. hands'[e] \in Seq(Item) /\ \A l \in Link : l # e => hands'[l] = hands[l]
      BY <1>3, <1>6
    <3> QED BY <3>1, HandsTotal
  <2>2. Total(pending, hands', queue') + Len(queue[o])
          = Total(pending, hands', queue) + Len(queue'[o])
    <3>1. queue'[o] \in Seq(Nat) /\ \A l \in Link : l # o => queue'[l] = queue[l]
      BY <1>5, <1>7
    <3> QED BY <1>4, <1>8, <3>1, QueueTotal
  <2>3. Total(pending, hands, queue) \in Int /\ Total(pending, hands', queue) \in Int
    BY <1>2, <1>8, PendingTotal
  <2>4. Total(pending, hands', queue') \in Int
    BY <1>1, <1>2, <1>8, PendingTotal
  <2> DEFINE a == Total(pending, hands, queue)
             b == Total(pending, hands', queue)
             c == Total(pending, hands', queue')
             x == Len(t)
             y == Len(queue[o])
  <2>5. /\ a \in Int /\ b \in Int /\ c \in Int /\ x \in Int /\ y \in Int
        /\ b + (x + 1) = a + x /\ c + y = b + (y + 1)
    BY <1>3, <1>5, <1>6, <1>7, <2>1, <2>2, <2>3, <2>4
  <2> HIDE DEF a, b, c, x, y
  <2>6. c = a
    BY <2>5
  <2> QED BY <1>1, <2>6 DEF a, c
<1>10. ASSUME NEW l \in Link, NEW d \in Nat, NEW f \in Nat,
              <<d, f>> \in Copies(pending', hands', queue', l)
       PROVE  <<d, f>> \in Copies(pending, hands, queue, l)
  <2>1. \/ \E i \in 1 .. Len(pending) :
               pending[i].to = l /\ d = pending[i].left /\ f = pending[i].frame
        \/ d = 0 /\ \E m \in Link : \E i \in 1 .. Len(hands'[m]) :
                        hands'[m][i].to = l /\ f = hands'[m][i].frame
        \/ d = 0 /\ \E i \in 1 .. Len(queue'[l]) : f = queue'[l][i]
    BY <1>1, <1>10 DEF Copies
  <2>2. ASSUME NEW m \in Link, NEW i \in 1 .. Len(hands'[m])
        PROVE  \E j \in 1 .. Len(hands[m]) : hands'[m][i] = hands[m][j]
    BY <1>3, <1>6
  <2>3. ASSUME NEW i \in 1 .. Len(queue'[l])
        PROVE  \/ \E j \in 1 .. Len(queue[l]) : queue'[l][i] = queue[l][j]
               \/ l = o /\ queue'[l][i] = item.frame
    BY <1>5, <1>7
  <2>4. l = o => \E j \in 1 .. Len(hands[e]) : hands[e][j].to = l /\ hands[e][j].frame = item.frame
    BY <1>3 DEF o
  <2>5. \/ \E i \in 1 .. Len(pending) :
               pending[i].to = l /\ d = pending[i].left /\ f = pending[i].frame
        \/ d = 0 /\ \E m \in Link : \E i \in 1 .. Len(hands[m]) :
                        hands[m][i].to = l /\ f = hands[m][i].frame
        \/ d = 0 /\ \E i \in 1 .. Len(queue[l]) : f = queue[l][i]
    <3>1. CASE \E m \in Link : \E i \in 1 .. Len(hands'[m]) :
                  hands'[m][i].to = l /\ f = hands'[m][i].frame
      <4>0. PICK m \in Link : \E i \in 1 .. Len(hands'[m]) :
                hands'[m][i].to = l /\ f = hands'[m][i].frame
        BY <3>1
      <4>1. PICK i \in 1 .. Len(hands'[m]) :
                hands'[m][i].to = l /\ f = hands'[m][i].frame
        BY <4>0
      <4>2. PICK j \in 1 .. Len(hands[m]) : hands'[m][i] = hands[m][j]
        BY <2>2
      <4> QED BY <2>1, <4>1, <4>2
    <3>2. CASE \E i \in 1 .. Len(queue'[l]) : f = queue'[l][i]
      <4>1. PICK i \in 1 .. Len(queue'[l]) : f = queue'[l][i]
        BY <3>2
      <4> QED BY <2>1, <2>3, <2>4, <3>1, <4>1
    <3> QED BY <2>1, <3>1, <3>2
  <2> QED BY <2>5 DEF Copies
<1> QED BY <1>8, <1>9, <1>10

\* A tick of the clock takes one from every delay.
LEMMA AgedWire ==
    ASSUME WireTypes(pending, hands, queue), pending' = Aged(pending),
           hands' = hands, queue' = queue
    PROVE  /\ WireTypes(pending', hands', queue')
           /\ Total(pending', hands', queue') = Total(pending, hands, queue)
           /\ \A l \in Link : \A d, f \in Nat :
                 <<d, f>> \in Copies(pending', hands', queue', l) =>
                     \E was \in Nat : /\ was <= d + 1
                                      /\ <<was, f>> \in Copies(pending, hands, queue, l)
<1>1. pending \in Seq(Item) /\ Len(pending) \in Nat
  BY DEF WireTypes
<1>2. ASSUME NEW i \in 1 .. Len(pending)
      PROVE  /\ [pending[i] EXCEPT !.left = Most(@ - 1, 0)] \in Item
             /\ [pending[i] EXCEPT !.left = Most(@ - 1, 0)].to = pending[i].to
             /\ [pending[i] EXCEPT !.left = Most(@ - 1, 0)].frame = pending[i].frame
             /\ [pending[i] EXCEPT !.left = Most(@ - 1, 0)].left + 1 >= pending[i].left
  <2>1. pending[i] \in Item
    BY <1>1
  <2> DEFINE m == Most(pending[i].left - 1, 0)
  <2>2. m \in Nat /\ m + 1 >= pending[i].left
    BY <2>1 DEF Item, Most
  <2> HIDE DEF m
  <2>3. /\ [pending[i] EXCEPT !.left = m] \in Item
        /\ [pending[i] EXCEPT !.left = m].to = pending[i].to
        /\ [pending[i] EXCEPT !.left = m].frame = pending[i].frame
        /\ [pending[i] EXCEPT !.left = m].left = m
    BY <2>1, <2>2 DEF Item
  <2> QED BY <2>2, <2>3 DEF m
<1>3. pending' = [i \in 1 .. Len(pending) |-> [pending[i] EXCEPT !.left = Most(@ - 1, 0)]]
  BY DEF Aged
<1>4. /\ pending' \in Seq(Item) /\ Len(pending') = Len(pending)
      /\ \A i \in 1 .. Len(pending) : /\ pending'[i].to = pending[i].to
                                      /\ pending'[i].frame = pending[i].frame
                                      /\ pending'[i].left + 1 >= pending[i].left
  <2> DEFINE A(i) == [pending[i] EXCEPT !.left = Most(@ - 1, 0)]
  <2>1. pending' = [i \in 1 .. Len(pending) |-> A(i)]
    BY <1>3
  <2>2. \A i \in 1 .. Len(pending) :
            /\ A(i) \in Item /\ A(i).to = pending[i].to
            /\ A(i).frame = pending[i].frame /\ A(i).left + 1 >= pending[i].left
    BY <1>2
  <2> HIDE DEF A
  <2> QED BY <1>1, <2>1, <2>2
<1>5. WireTypes(pending', hands', queue')
  BY <1>4 DEF WireTypes
<1>6. Total(pending', hands', queue') = Total(pending, hands, queue)
  BY <1>4 DEF Total
<1>7. ASSUME NEW l \in Link, NEW d \in Nat, NEW f \in Nat,
             <<d, f>> \in Copies(pending', hands', queue', l)
      PROVE  \E was \in Nat : was <= d + 1 /\ <<was, f>> \in Copies(pending, hands, queue, l)
  <2>1. CASE \E i \in 1 .. Len(pending) :
                pending'[i].to = l /\ d = pending'[i].left /\ f = pending'[i].frame
    <3>1. PICK i \in 1 .. Len(pending) :
                pending'[i].to = l /\ d = pending'[i].left /\ f = pending'[i].frame
      BY <2>1
    <3>2. /\ pending[i].left \in Nat /\ pending[i].left <= d + 1
          /\ pending[i].to = l /\ f = pending[i].frame
      <4>1. pending[i] \in Item /\ pending'[i] \in Item
        BY <1>1, <1>4
      <4>2. pending[i].left \in Nat /\ pending'[i].left + 1 >= pending[i].left
        BY <1>4, <4>1 DEF Item
      <4>3. pending[i].to = l /\ f = pending[i].frame
        BY <1>4, <3>1
      <4> QED BY <3>1, <4>2, <4>3
    <3>3. <<pending[i].left, f>> \in Copies(pending, hands, queue, l)
      BY <3>2 DEF Copies
    <3> QED BY <3>2, <3>3
  <2>2. CASE \/ d = 0 /\ \E m \in Link : \E i \in 1 .. Len(hands[m]) :
                             hands[m][i].to = l /\ f = hands[m][i].frame
             \/ d = 0 /\ \E i \in 1 .. Len(queue[l]) : f = queue[l][i]
    <3>1. <<d, f>> \in Copies(pending, hands, queue, l)
      BY <2>2 DEF Copies
    <3>2. d <= d + 1
      OBVIOUS
    <3> QED BY <3>1, <3>2
  <2> QED BY <1>4, <1>7, <2>1, <2>2 DEF Copies
<1> QED BY <1>5, <1>6, <1>7

-----------------------------------------------------------------------------
(* The inductive invariant                                                 *)

\* What the proof needs to know of the types.
Types ==
    /\ WireTypes(pending, hands, queue) /\ owed \in Int
    /\ est \in EstType
    /\ una \in Nat /\ nxt \in 0 .. Segments
    /\ retx \in Seq(EntryType)
    /\ timer \in Int /\ timer >= None
    /\ rcv_nxt \in Nat /\ parked \subseteq Nat

\* The segments and the acknowledgements on their way.
ToReceiver == Copies(pending, hands, queue, "b")
ToSender == Copies(pending, hands, queue, "a")

\* Nothing is on its way, received or acknowledged that was not sent.
Behind ==
    /\ \A i \in 1 .. Len(retx) : retx[i].seq < nxt
    /\ \A d, f \in Nat : <<d, f>> \in ToReceiver => f < nxt
    /\ \A d, f \in Nat : <<d, f>> \in ToSender => f <= nxt
    /\ rcv_nxt <= nxt /\ \A f \in parked : f < nxt

\* A segment sent once needs the shortest delay to reach the receiver, and an
\* acknowledgement that covers it needs it once more to come back.
OnceSent ==
    \A i \in 1 .. Len(retx) : retx[i].retransmits = 0 =>
        /\ \A d \in Nat : <<d, retx[i].seq>> \in ToReceiver => retx[i].age + d >= MinDelay
        /\ (retx[i].seq \in parked \/ retx[i].seq < rcv_nxt) => retx[i].age >= MinDelay
        /\ \A d, f \in Nat : <<d, f>> \in ToSender /\ f > retx[i].seq
                               => retx[i].age + d >= 2 * MinDelay

\* The wire has a shortest delay.
LEMMA MinDelayIs == MinDelay \in Nat /\ \A d \in Delays : d \in Nat /\ MinDelay <= d
<1>1. \E d \in Delays : \A other \in Delays : d <= other
  BY WireAssumption, LeastOf
<1>2. MinDelay \in Delays /\ \A other \in Delays : MinDelay <= other
  BY <1>1 DEF MinDelay
<1> QED BY <1>2, WireAssumption

\* What a step leaves of both: it may send again what was sent before, drop
\* entries, or mark them as sent again.
LEMMA Kept ==
    ASSUME Types, Behind, OnceSent, NEW F \in SUBSET Nat, \A f \in F : f < nxt,
           retx' \in Seq(EntryType), nxt' = nxt, rcv_nxt' = rcv_nxt, parked' = parked,
           \A d, f \in Nat : <<d, f>> \in ToReceiver' =>
               <<d, f>> \in ToReceiver \/ (f \in F /\ d \in Delays),
           \A d, f \in Nat : <<d, f>> \in ToSender' => <<d, f>> \in ToSender,
           \A i \in 1 .. Len(retx') :
               /\ retx'[i].seq < nxt
               /\ retx'[i].retransmits = 0 => \E j \in 1 .. Len(retx) : retx[j] = retx'[i]
    PROVE  Behind' /\ OnceSent'
<1> USE MinDelayIs
<1>1. Behind'
  BY DEF Behind
<1>2. ASSUME NEW i \in 1 .. Len(retx'), retx'[i].retransmits = 0
      PROVE  /\ \A d \in Nat : <<d, retx'[i].seq>> \in ToReceiver' => retx'[i].age + d >= MinDelay
             /\ (retx'[i].seq \in parked' \/ retx'[i].seq < rcv_nxt') => retx'[i].age >= MinDelay
             /\ \A d, f \in Nat : <<d, f>> \in ToSender' /\ f > retx'[i].seq
                                    => retx'[i].age + d >= 2 * MinDelay
  <2>1. PICK j \in 1 .. Len(retx) : retx[j] = retx'[i]
    BY <1>2
  <2> DEFINE s == retx[j].seq
             a == retx[j].age
  <2>2. s \in Nat /\ a \in Nat
    <3>1. retx[j] \in EntryType
      BY DEF Types
    <3> QED BY <3>1 DEF EntryType
  <2>3. retx'[i].seq = s /\ retx'[i].age = a /\ retx[j].retransmits = 0
    BY <1>2, <2>1
  <2>4. /\ \A d \in Nat : <<d, s>> \in ToReceiver => a + d >= MinDelay
        /\ (s \in parked \/ s < rcv_nxt) => a >= MinDelay
        /\ \A d, f \in Nat : <<d, f>> \in ToSender /\ f > s => a + d >= 2 * MinDelay
    BY <2>3 DEF OnceSent
  <2> HIDE DEF s, a
  <2>5. ASSUME NEW d \in Nat, <<d, s>> \in ToReceiver' PROVE a + d >= MinDelay
    <3>1. CASE <<d, s>> \in ToReceiver
      BY <2>4, <3>1
    <3>2. CASE d \in Delays
      BY <2>2, <3>2
    <3> QED BY <2>2, <2>5, <3>1, <3>2
  <2>6. ASSUME NEW d \in Nat, NEW f \in Nat, <<d, f>> \in ToSender', f > s
        PROVE  a + d >= 2 * MinDelay
    BY <2>4, <2>6
  <2> QED BY <2>3, <2>4, <2>5, <2>6
<1>3. OnceSent'
  <2>1. MinDelay' = MinDelay
    BY DEF MinDelay
  <2> QED BY <1>2, <2>1 DEF OnceSent
<1> QED BY <1>1, <1>3

-----------------------------------------------------------------------------
(* The estimator and the outstanding entries                               *)

\* Where a timeout lies.
RtoRange == MIN_RTO * SCALE .. MAX_RTO * SCALE

\* The bounds of the timeout.
LEMMA RtoBounds ==
    /\ MIN_RTO \in Nat /\ MAX_RTO \in Nat /\ MIN_RTO <= MAX_RTO /\ INITIAL_RTO \in Nat
    /\ \A x \in Int : Clamped(x) \in RtoRange
    /\ \A x \in RtoRange : x \in Int /\ TicksOf(x) \in Nat
<1>1. MIN_RTO \in Nat /\ MAX_RTO \in Nat /\ MIN_RTO <= MAX_RTO /\ INITIAL_RTO \in Nat
  BY TimingAssumption
<1>2. \A x \in Int : Clamped(x) \in RtoRange
  BY <1>1 DEF Clamped, RtoRange, SCALE, Least, Most
<1>3. \A x \in RtoRange : x \in Int /\ TicksOf(x) \in Nat
  BY <1>1 DEF TicksOf, RtoRange, SCALE
<1> QED BY <1>1, <1>2, <1>3

\* An estimate alone keeps the timeout between its bounds.
LEMMA FreshIs ==
    ASSUME NEW e \in EstType PROVE FreshRto(e) \in RtoRange
<1>1. e.srtt \in Int /\ e.rttvar \in Int /\ INITIAL_RTO * SCALE \in Int
  BY RtoBounds DEF EstType, SCALE
<1>2. e.srtt + 4 * e.rttvar \in Int
  BY <1>1
<1> QED BY <1>1, <1>2, RtoBounds DEF FreshRto

\* recompute drops the backoff and leaves the estimate as it is.
LEMMA RecomputeIs ==
    ASSUME NEW e \in EstType
    PROVE  /\ recompute(e) \in EstType /\ recompute(e).rto \in RtoRange
           /\ recompute(e).srtt = e.srtt
           /\ recompute(e).rto = FreshRto(recompute(e))
<1> DEFINE r == FreshRto(e)
           n == [e EXCEPT !.rto = r]
<1>1. r \in RtoRange /\ r \in Int
  BY FreshIs, RtoBounds
<1> HIDE DEF r
<1>2. n \in EstType /\ n.rto = r /\ n.srtt = e.srtt /\ n.rttvar = e.rttvar
  BY <1>1 DEF EstType
<1> HIDE DEF n
<1>3. FreshRto(n) = FreshRto(e)
  BY <1>2 DEF FreshRto
<1>4. recompute(e) = n
  BY DEF recompute, n, r
<1> QED BY <1>1, <1>2, <1>3, <1>4 DEF r

\* sample of a round trip that is no shorter than m leaves the smoothed round
\* trip no shorter than m.
LEMMA SampleIs ==
    ASSUME NEW e \in EstType, e.rto \in RtoRange, NEW rtt \in Nat, NEW m \in Nat,
           rtt >= m, e.srtt # None => e.srtt >= m * SCALE
    PROVE  /\ sample(e, rtt) \in EstType /\ sample(e, rtt).rto \in RtoRange
           /\ sample(e, rtt).srtt # None => sample(e, rtt).srtt >= m * SCALE
           /\ rtt > 0 => sample(e, rtt).rto = FreshRto(sample(e, rtt))
<1>1. CASE rtt <= 0
  BY <1>1 DEF sample
<1>2. CASE rtt > 0
  <2> DEFINE r == rtt * SCALE
             new == IF e.srtt = None
                    THEN [e EXCEPT !.srtt = r, !.rttvar = r \div 2]
                    ELSE [e EXCEPT !.srtt = (7 * @ + r) \div 8,
                                   !.rttvar = (3 * @ + Distance(e.srtt, r)) \div 4]
  <2>1. sample(e, rtt) = [new EXCEPT !.rto = FreshRto(new)]
    BY <1>2 DEF sample
  <2>2. r \in Nat /\ r >= m * SCALE /\ m * SCALE \in Int
    BY DEF SCALE
  <2>3. e.srtt \in Int /\ e.rttvar \in Int
    BY DEF EstType
  <2>4. new \in EstType /\ new.srtt >= m * SCALE
    <3>1. CASE e.srtt = None
      <4> DEFINE v == r \div 2
      <4>1. v \in Int
        BY <2>2
      <4>2. new = [e EXCEPT !.srtt = r, !.rttvar = v]
        BY <3>1
      <4>4. r \in Int
        BY <2>2
      <4> HIDE DEF r, v, new
      <4>3. new \in EstType /\ new.srtt = r
        BY <4>1, <4>2, <4>4 DEF EstType
      <4> QED BY <2>2, <4>3
    <3>2. CASE e.srtt # None
      <4> DEFINE s == (7 * e.srtt + r) \div 8
                 v == (3 * e.rttvar + Distance(e.srtt, r)) \div 4
                 b == m * SCALE
                 w == e.srtt
      <4>1. new = [e EXCEPT !.srtt = s, !.rttvar = v]
        BY <3>2
      <4>4. b \in Int /\ w \in Int /\ w >= b /\ r \in Int /\ r >= b
        BY <2>2, <2>3, <3>2
      <4>2. v \in Int
        <5>1. Distance(e.srtt, r) \in Int
          BY <2>2, <2>3 DEF Distance
        <5> HIDE DEF r
        <5> QED BY <2>3, <5>1
      <4>3. s \in Int /\ s >= b
        <5>1. s = (7 * w + r) \div 8
          OBVIOUS
        <5> HIDE DEF s, w, r, b
        <5> QED BY <4>4, <5>1
      <4> HIDE DEF s, v, new
      <4>5. new \in EstType /\ new.srtt = s
        BY <4>1, <4>2, <4>3 DEF EstType
      <4> QED BY <4>3, <4>5
    <3> QED BY <3>1, <3>2
  <2> HIDE DEF new
  <2> DEFINE f == FreshRto(new)
             n == [new EXCEPT !.rto = f]
  <2>5. f \in RtoRange /\ f \in Int
    BY <2>4, FreshIs, RtoBounds
  <2> HIDE DEF f
  <2>6. n \in EstType /\ n.rto = f /\ n.srtt = new.srtt /\ n.rttvar = new.rttvar
    BY <2>4, <2>5 DEF EstType
  <2> HIDE DEF n
  <2>7. FreshRto(n) = FreshRto(new)
    BY <2>6 DEF FreshRto
  <2>8. sample(e, rtt) = n
    BY <2>1 DEF n, f
  <2> QED BY <2>4, <2>5, <2>6, <2>7, <2>8 DEF f
<1> QED BY <1>1, <1>2

\* backoff keeps the timeout between its bounds.
LEMMA BackoffIs ==
    ASSUME NEW e \in EstType, e.rto \in RtoRange
    PROVE  /\ backoff(e) \in EstType /\ backoff(e).rto \in RtoRange
           /\ backoff(e).srtt = e.srtt
<1> DEFINE r == Least(2 * e.rto, MAX_RTO * SCALE)
<1>1. r \in RtoRange /\ r \in Int
  <2>1. e.rto \in Int /\ e.rto >= MIN_RTO * SCALE /\ MIN_RTO * SCALE >= 0
        /\ MAX_RTO * SCALE >= MIN_RTO * SCALE
        /\ MIN_RTO * SCALE \in Int /\ MAX_RTO * SCALE \in Int
    BY RtoBounds DEF RtoRange, SCALE
  <2> DEFINE x == e.rto
             lo == MIN_RTO * SCALE
             hi == MAX_RTO * SCALE
  <2>2. x \in Int /\ x >= lo /\ lo >= 0 /\ hi >= lo /\ lo \in Int /\ hi \in Int
    BY <2>1
  <2>3. RtoRange = lo .. hi /\ r = Least(2 * x, hi)
    BY DEF RtoRange
  <2> HIDE DEF x, lo, hi, r
  <2> QED BY <2>2, <2>3 DEF Least
<1>2. backoff(e) = [e EXCEPT !.rto = r]
  BY DEF backoff
<1> HIDE DEF r
<1> QED BY <1>1, <1>2 DEF EstType

\* mark_retransmitted leaves every entry but the first as it is.
LEMMA MarkedIs ==
    ASSUME NEW entries \in Seq(EntryType), entries # << >>
    PROVE  /\ Marked(entries) \in Seq(EntryType) /\ Marked(entries) # << >>
           /\ Len(Marked(entries)) = Len(entries)
           /\ \A i \in 1 .. Len(entries) :
                 /\ Marked(entries)[i].seq = entries[i].seq
                 /\ Marked(entries)[i].retransmits = 0 => Marked(entries)[i] = entries[i]
<1> DEFINE e == entries[1]
           k == e.retransmits + 1
           m == [e EXCEPT !.age = 0, !.retransmits = k]
<1>1. /\ Len(entries) \in Nat /\ 1 \in 1 .. Len(entries)
      /\ DOMAIN entries = 1 .. Len(entries)
      /\ e \in EntryType
  OBVIOUS
<1>2. m \in EntryType /\ m.seq = e.seq /\ m.retransmits = e.retransmits + 1
      /\ e.retransmits \in Nat
  <2>1. e.retransmits \in Nat /\ k \in Nat /\ k = e.retransmits + 1
    BY <1>1 DEF EntryType
  <2> HIDE DEF k, e
  <2>2. m \in EntryType /\ m.seq = e.seq /\ m.retransmits = k
    BY <1>1, <2>1 DEF EntryType
  <2> QED BY <2>1, <2>2
<1>3. Marked(entries) = [entries EXCEPT ![1] = m]
  BY <1>1 DEF Marked
<1> HIDE DEF m
<1>4. /\ Marked(entries) \in Seq(EntryType) /\ Len(Marked(entries)) = Len(entries)
      /\ Marked(entries)[1] = m
      /\ \A i \in 1 .. Len(entries) : i # 1 => Marked(entries)[i] = entries[i]
  BY <1>1, <1>2, <1>3
<1>5. m.retransmits # 0
  BY <1>2
<1>6. Marked(entries) # << >>
  BY <1>1, <1>4
<1> QED BY <1>2, <1>4, <1>5, <1>6

-----------------------------------------------------------------------------
(* One step per action                                                     *)

\* The inductive invariant.
TimingInv ==
    Types /\ TimerWithinRto /\ CopiesConserved /\ Behind /\ OnceSent /\ SampleIsReal

\* A thread that has read a frame sends at most one in return.
LEMMA AnswerWire ==
    ASSUME NEW e \in Link, NEW frame \in Nat, Types, CopiesConserved, queue[e] # << >>,
           hands' = hands,
           Transmit(e, frame, Taken(e), owed - 1) \/ Silent(Taken(e), owed - 1)
    PROVE  /\ WireTypes(pending', hands', queue') /\ owed' \in Int /\ CopiesConserved'
           /\ \A l \in Link : \A d, f \in Nat :
                 <<d, f>> \in Copies(pending', hands', queue', l) =>
                     \/ <<d, f>> \in Copies(pending, hands, queue, l)
                     \/ l = Other(e) /\ f = frame /\ d \in Delays
<1> DEFINE q == Taken(e)
           n == owed - 1
           t == Total(pending, hands, queue)
           u == Total(pending, hands, q)
           v == Total(pending', hands', queue')
<1>1. WireTypes(pending, hands, queue) /\ owed \in Int /\ n \in Int /\ owed = t
  BY DEF Types, CopiesConserved, InTransit, Total
<1>2. /\ WireTypes(pending, hands, q) /\ u = t - 1
      /\ \A l \in Link : Copies(pending, hands, q, l) \subseteq Copies(pending, hands, queue, l)
  BY <1>1, TakenWire
<1>3. /\ WireTypes(pending', hands', queue') /\ owed' \in Int /\ owed' + u = n + v
      /\ \A l \in Link : \A d, f \in Nat :
            <<d, f>> \in Copies(pending', hands', queue', l) =>
                \/ <<d, f>> \in Copies(pending, hands, q, l)
                \/ l = Other(e) /\ f = frame /\ d \in Delays
  <2> HIDE DEF q, n
  <2>1. Transmit(e, frame, q, n) \/ Silent(q, n)
    BY DEF q, n
  <2> QED BY <1>1, <1>2, <2>1, SentWire
<1>4. CopiesConserved'
  <2>1. v \in Int
    BY <1>3, PendingTotal DEF WireTypes
  <2>2. n + 1 = owed
    BY <1>1
  <2>3. v = InTransit'
    BY DEF InTransit, Total
  <2> HIDE DEF n, t, u, v
  <2> DEFINE w == owed'
             x == owed
  <2>5. /\ x \in Int /\ w \in Int /\ v \in Int /\ n \in Int
        /\ w + u = n + v /\ n + 1 = x /\ u = x - 1
    BY <1>1, <1>2, <1>3, <2>1, <2>2
  <2> HIDE DEF w, x
  <2>6. w = v
    BY <2>5
  <2>4. owed' = v
    BY <2>6 DEF w
  <2> QED BY <2>3, <2>4 DEF CopiesConserved
<1> QED BY <1>2, <1>3, <1>4

\* A thread that has read nothing sends at most one frame.
LEMMA OwnWire ==
    ASSUME NEW e \in Link, NEW frame \in Nat, Types, CopiesConserved, hands' = hands,
           Transmit(e, frame, queue, owed) \/ Silent(queue, owed)
    PROVE  /\ WireTypes(pending', hands', queue') /\ owed' \in Int /\ CopiesConserved'
           /\ \A l \in Link : \A d, f \in Nat :
                 <<d, f>> \in Copies(pending', hands', queue', l) =>
                     \/ <<d, f>> \in Copies(pending, hands, queue, l)
                     \/ l = Other(e) /\ f = frame /\ d \in Delays
<1> DEFINE t == Total(pending, hands, queue)
           v == Total(pending', hands', queue')
<1>1. WireTypes(pending, hands, queue) /\ owed \in Int /\ owed = t
  BY DEF Types, CopiesConserved, InTransit, Total
<1>3. /\ WireTypes(pending', hands', queue') /\ owed' \in Int /\ owed' + t = owed + v
      /\ \A l \in Link : \A d, f \in Nat :
            <<d, f>> \in Copies(pending', hands', queue', l) =>
                \/ <<d, f>> \in Copies(pending, hands, queue, l)
                \/ l = Other(e) /\ f = frame /\ d \in Delays
  BY <1>1, SentWire
<1>4. CopiesConserved'
  <2>1. v \in Int
    BY <1>3, PendingTotal DEF WireTypes
  <2>3. v = InTransit'
    BY DEF InTransit, Total
  <2> HIDE DEF t, v
  <2> DEFINE w == owed'
  <2>5. t \in Int /\ w \in Int /\ v \in Int /\ w + t = t + v
    BY <1>1, <1>3, <2>1
  <2> HIDE DEF w
  <2>6. w = v
    BY <2>5
  <2>4. owed' = v
    BY <2>6 DEF w
  <2> QED BY <2>3, <2>4 DEF CopiesConserved
<1> QED BY <1>3, <1>4

\* A new segment is younger than any answer to it, and its number was never
\* on the wire.
LEMMA SendKeeps == ASSUME TimingInv, Send PROVE TimingInv'
<1> USE MinDelayIs DEF TimingInv
<1>0. /\ nxt \in Nat /\ nxt' = nxt + 1 /\ nxt' \in 0 .. Segments
      /\ retx' = Append(retx, Entry(nxt)) /\ timer' = TicksOf(est.rto)
      /\ est' = est /\ una' = una /\ rcv_nxt' = rcv_nxt /\ parked' = parked /\ hands' = hands
      /\ Transmit("a", nxt, queue, owed)
  BY TimingAssumption DEF Send, receiver, Types
<1>1. /\ WireTypes(pending', hands', queue') /\ owed' \in Int /\ CopiesConserved'
      /\ \A d, f \in Nat : <<d, f>> \in ToReceiver' =>
             <<d, f>> \in ToReceiver \/ (f = nxt /\ d \in Delays)
      /\ \A d, f \in Nat : <<d, f>> \in ToSender' => <<d, f>> \in ToSender
  <2>1. "a" \in Link /\ "b" \in Link
    BY DEF Link
  <2>2. /\ WireTypes(pending', hands', queue') /\ owed' \in Int /\ CopiesConserved'
        /\ \A l \in Link : \A d, f \in Nat :
                 <<d, f>> \in Copies(pending', hands', queue', l) =>
                     \/ <<d, f>> \in Copies(pending, hands, queue, l)
                     \/ l = Other("a") /\ f = nxt /\ d \in Delays
    BY <1>0, <2>1, OwnWire
  <2> QED BY <2>1, <2>2, OtherIs DEF ToReceiver, ToSender
<1>2. Entry(nxt) \in EntryType /\ Entry(nxt).seq = nxt /\ Entry(nxt).age = 0
  BY <1>0 DEF Entry, EntryType
<1>3. /\ retx \in Seq(EntryType) /\ retx' \in Seq(EntryType) /\ retx' # << >>
      /\ Len(retx') = Len(retx) + 1 /\ Len(retx) \in Nat
      /\ \A i \in 1 .. Len(retx') :
            (i \in 1 .. Len(retx) /\ retx'[i] = retx[i]) \/ retx'[i] = Entry(nxt)
  <2> DEFINE new == Entry(nxt)
  <2>1. retx \in Seq(EntryType) /\ new \in EntryType /\ retx' = Append(retx, new)
    BY <1>0, <1>2 DEF Types
  <2> HIDE DEF new
  <2>2. /\ retx' \in Seq(EntryType) /\ retx' # << >>
        /\ Len(retx') = Len(retx) + 1 /\ Len(retx) \in Nat
        /\ \A i \in 1 .. Len(retx') :
              (i \in 1 .. Len(retx) /\ retx'[i] = retx[i]) \/ retx'[i] = new
    BY <2>1
  <2> QED BY <2>1, <2>2 DEF new
<1>4. est.rto \in RtoRange /\ TicksOf(est.rto) \in Nat
  BY RtoBounds DEF TimerWithinRto, RtoRange
<1>5. Types'
  BY <1>0, <1>1, <1>3, <1>4 DEF Types, None
<1>6. TimerWithinRto'
  BY <1>0, <1>3, <1>4 DEF TimerWithinRto, RtoRange, None
<1>7. SampleIsReal'
  BY <1>0 DEF SampleIsReal, MinDelay
<1>8. Behind'
  <2>1. \A i \in 1 .. Len(retx') : retx'[i].seq < nxt'
    <3> SUFFICES ASSUME NEW i \in 1 .. Len(retx') PROVE retx'[i].seq < nxt'
      OBVIOUS
    <3>0. retx'[i] \in EntryType
      BY <1>3
    <3>1. retx'[i].seq \in Nat
      BY <3>0 DEF EntryType
    <3> QED BY <1>0, <1>2, <1>3, <3>1 DEF Behind
  <2>2. \A d, f \in Nat : <<d, f>> \in ToReceiver' => f < nxt'
    BY <1>0, <1>1 DEF Behind
  <2>3. \A d, f \in Nat : <<d, f>> \in ToSender' => f <= nxt'
    BY <1>0, <1>1 DEF Behind
  <2>4. rcv_nxt' <= nxt' /\ \A f \in parked' : f < nxt'
    BY <1>0 DEF Behind, Types
  <2> QED BY <2>1, <2>2, <2>3, <2>4 DEF Behind
<1>9. ASSUME NEW i \in 1 .. Len(retx'), retx'[i].retransmits = 0
      PROVE  /\ \A d \in Nat : <<d, retx'[i].seq>> \in ToReceiver' => retx'[i].age + d >= MinDelay
             /\ (retx'[i].seq \in parked' \/ retx'[i].seq < rcv_nxt') => retx'[i].age >= MinDelay
             /\ \A d, f \in Nat : <<d, f>> \in ToSender' /\ f > retx'[i].seq
                                    => retx'[i].age + d >= 2 * MinDelay
  <2>1. CASE retx'[i] = Entry(nxt)
    <3>1. retx'[i].seq = nxt /\ retx'[i].age = 0
      BY <1>2, <2>1
    <3>2. ASSUME NEW d \in Nat, <<d, nxt>> \in ToReceiver' PROVE 0 + d >= MinDelay
      <4>1. ~(<<d, nxt>> \in ToReceiver)
        BY <1>0 DEF Behind
      <4>2. d \in Delays
        BY <1>0, <1>1, <3>2, <4>1
      <4> QED BY <4>2
    <3>3. ~(nxt \in parked') /\ ~(nxt < rcv_nxt')
      BY <1>0 DEF Behind, Types
    <3>4. ASSUME NEW d \in Nat, NEW f \in Nat, <<d, f>> \in ToSender', f > nxt PROVE FALSE
      BY <1>0, <1>1, <3>4 DEF Behind
    <3> QED BY <3>1, <3>2, <3>3, <3>4
  <2>2. CASE i \in 1 .. Len(retx) /\ retx'[i] = retx[i]
    <3> DEFINE s == retx[i].seq
               a == retx[i].age
    <3>0. retx[i] \in EntryType
      BY <1>3, <2>2
    <3>1. s \in Nat /\ a \in Nat
      BY <3>0 DEF EntryType
    <3>2. /\ \A d \in Nat : <<d, s>> \in ToReceiver => a + d >= MinDelay
          /\ (s \in parked \/ s < rcv_nxt) => a >= MinDelay
          /\ \A d, f \in Nat : <<d, f>> \in ToSender /\ f > s => a + d >= 2 * MinDelay
      BY <1>9, <2>2 DEF OnceSent
    <3>3. s # nxt
      BY <1>0, <2>2, <3>1 DEF Behind
    <3>4. retx'[i].seq = s /\ retx'[i].age = a
      BY <2>2
    <3> HIDE DEF s, a
    <3>5. \A d \in Nat : <<d, s>> \in ToReceiver' => a + d >= MinDelay
      BY <1>1, <3>1, <3>2, <3>3
    <3>6. \A d, f \in Nat : <<d, f>> \in ToSender' /\ f > s => a + d >= 2 * MinDelay
      BY <1>1, <3>2
    <3> QED BY <1>0, <3>2, <3>4, <3>5, <3>6
  <2> QED BY <1>3, <2>1, <2>2
<1>10. OnceSent'
  <2>1. MinDelay' = MinDelay
    BY DEF MinDelay
  <2> QED BY <1>9, <2>1 DEF OnceSent
<1> QED BY <1>1, <1>5, <1>6, <1>7, <1>8, <1>10

\* The receiver's next number is the first it has not had.
LEMMA GapExists ==
    ASSUME NEW have \in SUBSET Nat, NEW top \in 0 .. Segments, \A f \in have : f < top
    PROVE  LET gap == CHOOSE n \in 0 .. Segments : n \notin have /\ 0 .. n - 1 \subseteq have
           IN  gap \in 0 .. top /\ 0 .. gap - 1 \subseteq have
<1> DEFINE S == {n \in 0 .. Segments : n \notin have}
<1>0. Segments \in Nat /\ top \in Nat
  BY TimingAssumption
<1>1. top \in S /\ S \subseteq Nat
  BY <1>0
<1>2. PICK n \in S : \A m \in S : n <= m
  <2>1. S # {} /\ S \subseteq Nat
    BY <1>1
  <2> HIDE DEF S
  <2> QED BY <2>1, LeastOf
<1>3. n \in 0 .. Segments /\ n \notin have /\ 0 .. n - 1 \subseteq have
  <2>1. ASSUME NEW m \in 0 .. n - 1 PROVE m \in have
    <3>1. n \in Nat /\ n <= Segments /\ m \in 0 .. Segments /\ ~(n <= m)
      BY <1>0, <1>1
    <3> QED BY <1>2, <3>1
  <2> QED BY <2>1
<1> DEFINE gap == CHOOSE g \in 0 .. Segments : g \notin have /\ 0 .. g - 1 \subseteq have
<1>4. gap \in 0 .. Segments /\ gap \notin have /\ 0 .. gap - 1 \subseteq have
  BY <1>3
<1> HIDE DEF gap
<1>5. gap \in 0 .. top
  <2>1. ASSUME gap > top PROVE FALSE
    <3>1. top \in 0 .. gap - 1
      BY <1>0, <1>4, <2>1
    <3>2. top \in have
      BY <1>4, <3>1
    <3>3. top < top
      BY <3>2
    <3> QED BY <1>0, <3>3
  <2> QED BY <1>0, <1>4, <2>1
<1> QED BY <1>4, <1>5 DEF gap

\* What the receiver acknowledges it has, and what it has took the shortest
\* delay to come.
LEMMA OnDataKeeps == ASSUME TimingInv, OnData PROVE TimingInv'
<1> USE MinDelayIs DEF TimingInv
<1> DEFINE seq == Head(queue["b"])
           have == parked \cup {seq} \cup 0 .. rcv_nxt - 1
           gap == CHOOSE n \in 0 .. Segments : n \notin have /\ 0 .. n - 1 \subseteq have
<1>0. /\ queue["b"] # << >>
      /\ rcv_nxt' = gap /\ parked' = {n \in have : n > gap}
      /\ Transmit("b", gap, Taken("b"), owed - 1) \/ Silent(Taken("b"), owed - 1)
      /\ est' = est /\ una' = una /\ nxt' = nxt /\ retx' = retx /\ timer' = timer /\ hands' = hands
  BY DEF OnData, CanReceive, sender
<1>00. "b" \in Link /\ "a" \in Link
  BY DEF Link
<1>1. seq \in Nat /\ <<0, seq>> \in ToReceiver
  <2>1. WireTypes(pending, hands, queue)
    BY DEF Types
  <2> QED BY <1>0, <1>00, <2>1, TakenWire DEF ToReceiver
<1> HIDE DEF seq
<1>2. nxt \in 0 .. Segments /\ nxt \in Nat /\ rcv_nxt \in Nat /\ rcv_nxt <= nxt /\ parked \subseteq Nat
  BY TimingAssumption DEF Types, Behind
<1>3. have \in SUBSET Nat /\ \A f \in have : f < nxt
  <2>1. seq < nxt
    BY <1>1 DEF Behind
  <2>2. \A f \in parked : f < nxt
    BY DEF Behind
  <2> QED BY <1>1, <1>2, <2>1, <2>2
<1>4. gap \in 0 .. nxt /\ 0 .. gap - 1 \subseteq have
  <2> HIDE DEF have
  <2> QED BY <1>2, <1>3, GapExists
<1>5. gap \in Nat /\ gap <= nxt
  <2> HIDE DEF gap
  <2> QED BY <1>2, <1>4
<1>6. \A f \in Nat : (f \in parked' \/ f < rcv_nxt') => f \in have
  <2> HIDE DEF gap, have
  <2> QED BY <1>0, <1>4, <1>5
<1> HIDE DEF gap
<1>7. /\ WireTypes(pending', hands', queue') /\ owed' \in Int /\ CopiesConserved'
      /\ \A d, f \in Nat : <<d, f>> \in ToReceiver' => <<d, f>> \in ToReceiver
      /\ \A d, f \in Nat : <<d, f>> \in ToSender' =>
             <<d, f>> \in ToSender \/ (f = gap /\ d \in Delays)
  <2>2. /\ WireTypes(pending', hands', queue') /\ owed' \in Int /\ CopiesConserved'
        /\ \A l \in Link : \A d, f \in Nat :
                 <<d, f>> \in Copies(pending', hands', queue', l) =>
                     \/ <<d, f>> \in Copies(pending, hands, queue, l)
                     \/ l = Other("b") /\ f = gap /\ d \in Delays
    BY <1>0, <1>00, <1>5, AnswerWire
  <2> QED BY <1>00, <2>2, OtherIs DEF ToReceiver, ToSender
<1>8. Types'
  <2>1. rcv_nxt' \in Nat /\ parked' \subseteq Nat
    <3> HIDE DEF have
    <3> QED BY <1>0, <1>3, <1>5
  <2> HIDE DEF have
  <2> QED BY <1>0, <1>7, <2>1 DEF Types
<1>9. TimerWithinRto' /\ SampleIsReal'
  BY <1>0 DEF TimerWithinRto, SampleIsReal, MinDelay
<1>10. Behind'
  <2>1. \A f \in parked' : f < nxt'
    <3> HIDE DEF have
    <3> QED BY <1>0, <1>3
  <2>2. \A d, f \in Nat : <<d, f>> \in ToSender' => f <= nxt'
    <3> HIDE DEF have
    <3> QED BY <1>0, <1>5, <1>7 DEF Behind
  <2> HIDE DEF have
  <2> QED BY <1>0, <1>5, <1>7, <2>1, <2>2 DEF Behind
<1>11. ASSUME NEW i \in 1 .. Len(retx), retx[i].retransmits = 0
       PROVE  /\ \A d \in Nat : <<d, retx[i].seq>> \in ToReceiver' => retx[i].age + d >= MinDelay
              /\ (retx[i].seq \in parked' \/ retx[i].seq < rcv_nxt') => retx[i].age >= MinDelay
              /\ \A d, f \in Nat : <<d, f>> \in ToSender' /\ f > retx[i].seq
                                    => retx[i].age + d >= 2 * MinDelay
  <2> DEFINE s == retx[i].seq
             a == retx[i].age
  <2>0. retx[i] \in EntryType
    BY DEF Types
  <2>1. s \in Nat /\ a \in Nat
    BY <2>0 DEF EntryType
  <2>2. /\ \A d \in Nat : <<d, s>> \in ToReceiver => a + d >= MinDelay
        /\ (s \in parked \/ s < rcv_nxt) => a >= MinDelay
        /\ \A d, f \in Nat : <<d, f>> \in ToSender /\ f > s => a + d >= 2 * MinDelay
    BY <1>11 DEF OnceSent
  <2> HIDE DEF s, a
  <2>3. s \in have => a >= MinDelay
    <3>1. s = seq => a + 0 >= MinDelay
      BY <1>1, <2>2
    <3>2. s \in 0 .. rcv_nxt - 1 => s < rcv_nxt
      BY <1>2, <2>1
    <3> QED BY <2>1, <2>2, <3>1, <3>2
  <2> HIDE DEF have
  <2>4. (s \in parked' \/ s < rcv_nxt') => a >= MinDelay
    BY <1>6, <2>1, <2>3
  <2>5. ASSUME NEW d \in Nat, NEW f \in Nat, <<d, f>> \in ToSender', f > s
        PROVE  a + d >= 2 * MinDelay
    <3>1. CASE <<d, f>> \in ToSender
      BY <2>2, <2>5, <3>1
    <3>2. CASE f = gap /\ d \in Delays
      <4>1. s < rcv_nxt'
        BY <1>0, <2>5, <3>2, <2>1
      <4>2. a >= MinDelay /\ d >= MinDelay
        BY <2>4, <3>2, <4>1
      <4> QED BY <2>1, <4>2
    <3> QED BY <1>7, <2>5, <3>1, <3>2
  <2>6. \A d \in Nat : <<d, s>> \in ToReceiver' => a + d >= MinDelay
    BY <1>7, <2>1, <2>2
  <2> QED BY <2>4, <2>5, <2>6 DEF s, a
<1>12. OnceSent'
  <2>1. MinDelay' = MinDelay /\ retx' = retx
    BY <1>0 DEF MinDelay
  <2> HIDE DEF have
  <2> QED BY <1>11, <2>1 DEF OnceSent
<1> QED BY <1>7, <1>8, <1>9, <1>10, <1>12

\* A reader moves copies about and makes none.
LEMMA ReaderKeeps == ASSUME TimingInv, NEW e \in Link, Reader(e) PROVE TimingInv'
<1> USE DEF TimingInv
<1>1. /\ est' = est /\ una' = una /\ nxt' = nxt /\ retx' = retx /\ timer' = timer
      /\ rcv_nxt' = rcv_nxt /\ parked' = parked /\ owed' = owed
      /\ Pump(e) \/ _enqueue(e)
  BY DEF Reader, sender, receiver, Pump, _enqueue
<1>2. /\ WireTypes(pending', hands', queue')
      /\ Total(pending', hands', queue') = Total(pending, hands, queue)
      /\ \A l \in Link : \A d, f \in Nat :
            <<d, f>> \in Copies(pending', hands', queue', l) =>
                <<d, f>> \in Copies(pending, hands, queue, l)
  <2>1. WireTypes(pending, hands, queue)
    BY DEF Types
  <2> QED BY <1>1, <2>1, PumpWire, EnqueueWire
<1>3. Types' /\ TimerWithinRto' /\ SampleIsReal'
  BY <1>1, <1>2 DEF Types, TimerWithinRto, SampleIsReal, MinDelay
<1>4. CopiesConserved'
  BY <1>1, <1>2 DEF CopiesConserved, InTransit, Total
<1>5. Behind' /\ OnceSent'
  <2>1. /\ \A d, f \in Nat : <<d, f>> \in ToReceiver' => <<d, f>> \in ToReceiver
        /\ \A d, f \in Nat : <<d, f>> \in ToSender' => <<d, f>> \in ToSender
    BY <1>2 DEF ToReceiver, ToSender, Link
  <2>2. \A i \in 1 .. Len(retx') :
           /\ retx'[i].seq < nxt
           /\ retx'[i].retransmits = 0 => \E j \in 1 .. Len(retx) : retx[j] = retx'[i]
    BY <1>1 DEF Behind
  <2>3. {} \in SUBSET Nat /\ retx' \in Seq(EntryType)
    BY <1>1 DEF Types
  <2> DEFINE F == {}
  <2>4. /\ F \in SUBSET Nat /\ \A f \in F : f < nxt
        /\ \A d, f \in Nat : <<d, f>> \in ToReceiver' =>
              <<d, f>> \in ToReceiver \/ (f \in F /\ d \in Delays)
    BY <2>1
  <2> HIDE DEF F
  <2> QED BY <1>1, <2>1, <2>2, <2>3, <2>4, Kept
<1> QED BY <1>3, <1>4, <1>5

\* A link that goes down or comes back moves no copy.
LEMMA OutageKeeps == ASSUME TimingInv, Outage PROVE TimingInv'
<1>1. /\ est' = est /\ una' = una /\ nxt' = nxt /\ retx' = retx /\ timer' = timer
      /\ rcv_nxt' = rcv_nxt /\ parked' = parked
      /\ pending' = pending /\ hands' = hands /\ queue' = queue /\ owed' = owed
  BY DEF Outage, SetUp, sender, receiver
<1> QED BY <1>1 DEF TimingInv, Types, TimerWithinRto, CopiesConserved, InTransit, Behind,
                    OnceSent, SampleIsReal, MinDelay, ToReceiver, ToSender

\* Sending the oldest entry again, or not at all, keeps what was sent once.
LEMMA ResentKeeps ==
    ASSUME Types, Behind, OnceSent,
           retx' = retx \/ (retx # << >> /\ retx' = Marked(retx)),
           nxt' = nxt, rcv_nxt' = rcv_nxt, parked' = parked,
           \A d, f \in Nat : <<d, f>> \in ToReceiver' =>
               <<d, f>> \in ToReceiver \/ (retx # << >> /\ f = retx[1].seq /\ d \in Delays),
           \A d, f \in Nat : <<d, f>> \in ToSender' => <<d, f>> \in ToSender
    PROVE  Behind' /\ OnceSent' /\ retx' \in Seq(EntryType) /\ (retx' = << >> <=> retx = << >>)
<1> DEFINE F == {f \in Nat : retx # << >> /\ f = retx[1].seq}
<1>1. retx \in Seq(EntryType)
  BY DEF Types
<1>2. F \in SUBSET Nat /\ \A f \in F : f < nxt
  <2>1. retx # << >> => 1 \in 1 .. Len(retx)
    BY <1>1
  <2> QED BY <2>1 DEF Behind
<1>3. \A d, f \in Nat : <<d, f>> \in ToReceiver' =>
          <<d, f>> \in ToReceiver \/ (f \in F /\ d \in Delays)
  OBVIOUS
<1>4. /\ retx' \in Seq(EntryType) /\ (retx' = << >> <=> retx = << >>)
      /\ \A i \in 1 .. Len(retx') :
            /\ retx'[i].seq < nxt
            /\ retx'[i].retransmits = 0 => \E j \in 1 .. Len(retx) : retx[j] = retx'[i]
  <2>1. CASE retx' = retx
    BY <1>1, <2>1 DEF Behind
  <2>2. CASE retx # << >> /\ retx' = Marked(retx)
    <3>1. /\ retx' \in Seq(EntryType) /\ retx' # << >> /\ Len(retx') = Len(retx)
          /\ \A i \in 1 .. Len(retx) :
                retx'[i].seq = retx[i].seq /\ (retx'[i].retransmits = 0 => retx'[i] = retx[i])
      BY <1>1, <2>2, MarkedIs
    <3> QED BY <2>2, <3>1 DEF Behind
  <2> QED BY <2>1, <2>2
<1> HIDE DEF F
<1>5. Behind' /\ OnceSent'
  BY <1>2, <1>3, <1>4, Kept
<1> QED BY <1>4, <1>5

\* The entries an acknowledgement leaves are entries from before it.
LEMMA PickedEntries ==
    ASSUME retx \in Seq(EntryType), NEW P \in SUBSET (1 .. Len(retx))
    PROVE  /\ Picked(retx, P) \in Seq(EntryType)
           /\ \A k \in 1 .. Len(Picked(retx, P)) : Picked(retx, P)[k] \in {retx[i] : i \in P}
<1>1. Picked(retx, P) \in Seq(EntryType) /\ Len(Picked(retx, P)) = Cardinality(P)
  BY PickedIs
<1>2. ASSUME NEW k \in 1 .. Len(Picked(retx, P))
      PROVE  Picked(retx, P)[k] \in {retx[i] : i \in P}
  <2>1. k \in 1 .. Cardinality(P) /\ Len(retx) \in Nat /\ P \in SUBSET (1 .. Len(retx))
    BY <1>1
  <2> QED BY <2>1, PickedFrom
<1> QED BY <1>1, <1>2

\* What NewAck does to the entries and the estimate.
LEMMA NewAckIs ==
    ASSUME TimingInv, NEW ack \in Nat, <<0, ack>> \in ToSender, NewAck(ack)
    PROVE  /\ retx' \in Seq(EntryType)
           /\ \A k \in 1 .. Len(retx') : \E i \in 1 .. Len(retx) : retx'[k] = retx[i]
           /\ est' \in EstType /\ est'.rto \in RtoRange /\ SampleIsReal'
           /\ 0 \notin Delays => est'.rto = FreshRto(est')
<1> USE MinDelayIs DEF TimingInv
<1> DEFINE covered == {i \in 1 .. Len(retx) : retx[i].seq < ack}
           P == (1 .. Len(retx)) \ covered
           never == {i \in covered : retx[i].retransmits = 0}
           m == 2 * MinDelay
<1>1. /\ retx' = Picked(retx, P)
      /\ est' = IF never = {} THEN recompute(est) ELSE sample(est, retx[First(never)].age)
  BY DEF NewAck, NewEstimate
<1>2. retx \in Seq(EntryType) /\ Len(retx) \in Nat /\ P \in SUBSET (1 .. Len(retx))
      /\ P \subseteq 1 .. Len(retx)
  BY DEF Types
<1>3. /\ retx' \in Seq(EntryType)
      /\ \A k \in 1 .. Len(retx') : \E i \in 1 .. Len(retx) : retx'[k] = retx[i]
  <2> HIDE DEF P
  <2>1. Picked(retx, P) \in Seq(EntryType)
        /\ \A k \in 1 .. Len(Picked(retx, P)) : Picked(retx, P)[k] \in {retx[i] : i \in P}
    BY <1>2, PickedEntries
  <2> QED BY <1>1, <1>2, <2>1
<1>4. est \in EstType /\ est.rto \in RtoRange /\ m \in Nat
      /\ (est.srtt # None => est.srtt >= m * SCALE)
  BY DEF Types, TimerWithinRto, RtoRange, SampleIsReal
<1>5. CASE never = {}
  <2>1. est' = recompute(est)
    BY <1>1, <1>5
  <2>2. /\ est' \in EstType /\ est'.rto \in RtoRange /\ est'.srtt = est.srtt
        /\ est'.rto = FreshRto(est')
    BY <1>4, <2>1, RecomputeIs
  <2>3. SampleIsReal'
    BY <1>4, <2>2 DEF SampleIsReal, MinDelay
  <2> QED BY <1>3, <2>2, <2>3
<1>6. CASE never # {}
  <2> DEFINE i == First(never)
             rtt == retx[i].age
  <2>1. i \in never
    <3>1. never \subseteq Nat
      OBVIOUS
    <3> HIDE DEF never
    <3>2. \E j \in never : \A k \in never : j <= k
      BY <1>6, <3>1, LeastOf
    <3> QED BY <3>2 DEF First
  <2> HIDE DEF i
  <2>2. i \in 1 .. Len(retx) /\ retx[i].retransmits = 0 /\ ack > retx[i].seq
        /\ retx[i] \in EntryType /\ rtt \in Nat
    <3>1. i \in 1 .. Len(retx) /\ retx[i].retransmits = 0 /\ retx[i].seq < ack
      BY <2>1
    <3>2. retx[i] \in EntryType
      BY <1>2, <3>1
    <3>3. rtt \in Nat /\ retx[i].seq \in Nat
      BY <3>2 DEF EntryType
    <3> QED BY <3>1, <3>2, <3>3
  <2>3. rtt >= m
    <3>1. retx[i].age + 0 >= 2 * MinDelay
      BY <2>2 DEF OnceSent
    <3> QED BY <2>2, <3>1
  <2>4. est' = sample(est, rtt)
    BY <1>1, <1>6 DEF i
  <2> HIDE DEF rtt, m
  <2>5. /\ est' \in EstType /\ est'.rto \in RtoRange
        /\ est'.srtt # None => est'.srtt >= m * SCALE
        /\ rtt > 0 => est'.rto = FreshRto(est')
    BY <1>4, <2>2, <2>3, <2>4, SampleIs
  <2>6. SampleIsReal'
    BY <2>5 DEF SampleIsReal, MinDelay, m
  <2>7. 0 \notin Delays => rtt > 0
    <3> SUFFICES ASSUME 0 \notin Delays PROVE rtt > 0
      OBVIOUS
    <3>1. MinDelay \in Delays
      <4>1. \E d \in Delays : \A other \in Delays : d <= other
        BY WireAssumption, LeastOf
      <4> QED BY <4>1 DEF MinDelay
    <3>2. MinDelay # 0
      BY <3>1
    <3> QED BY <2>2, <2>3, <3>2 DEF m
  <2> QED BY <1>3, <2>5, <2>6, <2>7
<1> QED BY <1>5, <1>6

\* An acknowledgement drops entries, or sends the oldest again.
LEMMA OnAckKeeps == ASSUME TimingInv, OnAck PROVE TimingInv'
<1> USE DEF TimingInv
<1> DEFINE ack == Head(queue["a"])
<1>0. /\ queue["a"] # << >> /\ hands' = hands /\ nxt' = nxt
      /\ rcv_nxt' = rcv_nxt /\ parked' = parked
  BY DEF OnAck, CanReceive, receiver
<1>00. "b" \in Link /\ "a" \in Link
  BY DEF Link
<1>1. ack \in Nat /\ <<0, ack>> \in ToSender
  <2>1. WireTypes(pending, hands, queue)
    BY DEF Types
  <2> QED BY <1>0, <1>00, <2>1, TakenWire DEF ToSender
<1>2. ASSUME NEW frame \in Nat,
             Transmit("a", frame, Taken("a"), owed - 1) \/ Silent(Taken("a"), owed - 1)
      PROVE  /\ WireTypes(pending', hands', queue') /\ owed' \in Int /\ CopiesConserved'
             /\ \A d, f \in Nat : <<d, f>> \in ToReceiver' =>
                    <<d, f>> \in ToReceiver \/ (f = frame /\ d \in Delays)
             /\ \A d, f \in Nat : <<d, f>> \in ToSender' => <<d, f>> \in ToSender
  <2>2. /\ WireTypes(pending', hands', queue') /\ owed' \in Int /\ CopiesConserved'
        /\ \A l \in Link : \A d, f \in Nat :
                 <<d, f>> \in Copies(pending', hands', queue', l) =>
                     \/ <<d, f>> \in Copies(pending, hands, queue, l)
                     \/ l = Other("a") /\ f = frame /\ d \in Delays
    BY <1>0, <1>00, <1>2, AnswerWire
  <2> QED BY <1>00, <2>2, OtherIs DEF ToReceiver, ToSender
<1>3. ASSUME Silent(Taken("a"), owed - 1)
      PROVE  /\ WireTypes(pending', hands', queue') /\ owed' \in Int /\ CopiesConserved'
             /\ \A d, f \in Nat : <<d, f>> \in ToReceiver' => <<d, f>> \in ToReceiver
             /\ \A d, f \in Nat : <<d, f>> \in ToSender' => <<d, f>> \in ToSender
  <2>1. \A frame \in Nat :
             /\ WireTypes(pending', hands', queue') /\ owed' \in Int /\ CopiesConserved'
             /\ \A d, f \in Nat : <<d, f>> \in ToReceiver' =>
                    <<d, f>> \in ToReceiver \/ (f = frame /\ d \in Delays)
             /\ \A d, f \in Nat : <<d, f>> \in ToSender' => <<d, f>> \in ToSender
    BY <1>2, <1>3
  <2>2. ASSUME NEW d \in Nat, NEW f \in Nat, <<d, f>> \in ToReceiver'
        PROVE  <<d, f>> \in ToReceiver
    <3>1. f + 1 \in Nat /\ f # f + 1
      OBVIOUS
    <3> QED BY <2>1, <2>2, <3>1
  <2>3. 0 \in Nat
    OBVIOUS
  <2> QED BY <2>1, <2>2, <2>3
<1>4. ASSUME Silent(Taken("a"), owed - 1), est' = est, una' = una, retx' = retx, timer' = timer
      PROVE  TimingInv'
  <2>1. Behind' /\ OnceSent'
    <3>1. \A d, f \in Nat : <<d, f>> \in ToReceiver' =>
              <<d, f>> \in ToReceiver \/ (retx # << >> /\ f = retx[1].seq /\ d \in Delays)
      BY <1>3, <1>4
    <3>2. \A d, f \in Nat : <<d, f>> \in ToSender' => <<d, f>> \in ToSender
      BY <1>3, <1>4
    <3>3. retx' = retx \/ (retx # << >> /\ retx' = Marked(retx))
      BY <1>4
    <3> QED BY <1>0, <3>1, <3>2, <3>3, ResentKeeps
  <2> QED BY <1>0, <1>3, <1>4, <2>1 DEF Types, TimerWithinRto, SampleIsReal, MinDelay
<1>5. ASSUME NewAck(ack) PROVE TimingInv'
  <2>0. una' = ack /\ timer' = Rearmed(retx', est') /\ Silent(Taken("a"), owed - 1)
    BY <1>5 DEF NewAck
  <2>1. /\ retx' \in Seq(EntryType)
        /\ \A k \in 1 .. Len(retx') : \E i \in 1 .. Len(retx) : retx'[k] = retx[i]
        /\ est' \in EstType /\ est'.rto \in RtoRange /\ SampleIsReal'
    BY <1>1, <1>5, NewAckIs
  <2>2. TicksOf(est'.rto) \in Nat
    BY <2>1, RtoBounds
  <2>3. /\ timer' \in Int /\ timer' >= None /\ (timer' = None <=> retx' = << >>)
        /\ timer' <= TicksOf(est'.rto)
    <3> DEFINE k == TicksOf(est'.rto)
    <3>1. timer' = IF retx' = << >> THEN None ELSE k
      BY <2>0 DEF Rearmed
    <3>2. k \in Nat
      BY <2>2
    <3> HIDE DEF k
    <3>3. /\ timer' \in Int /\ timer' >= None /\ (timer' = None <=> retx' = << >>)
          /\ timer' <= k
      BY <3>1, <3>2 DEF None
    <3> QED BY <3>3 DEF k
  <2>4. Types'
    BY <1>0, <1>1, <1>3, <2>0, <2>1, <2>3 DEF Types
  <2>5. TimerWithinRto'
    BY <2>1, <2>3 DEF TimerWithinRto, RtoRange
  <2>6. Behind' /\ OnceSent'
    <3> DEFINE F == {}
    <3>1. F \in SUBSET Nat /\ (\A f \in F : f < nxt)
          /\ \A d, f \in Nat : <<d, f>> \in ToReceiver' =>
                <<d, f>> \in ToReceiver \/ (f \in F /\ d \in Delays)
      BY <1>3, <2>0
    <3>2. \A i \in 1 .. Len(retx') :
              /\ retx'[i].seq < nxt
              /\ retx'[i].retransmits = 0 => \E j \in 1 .. Len(retx) : retx[j] = retx'[i]
      BY <2>1 DEF Behind
    <3> HIDE DEF F
    <3> QED BY <1>0, <1>3, <2>0, <2>1, <3>1, <3>2, Kept
  <2> QED BY <1>3, <2>0, <2>1, <2>4, <2>5, <2>6
<1>6. ASSUME DuplicateAck PROVE TimingInv'
  <2>1. est' = est /\ una' = una /\ timer' = timer
    BY <1>6 DEF DuplicateAck
  <2>2. CASE retx' = retx /\ Silent(Taken("a"), owed - 1)
    BY <1>4, <2>1, <2>2
  <2>3. CASE /\ retx # << >> /\ retx' = Marked(retx)
             /\ \/ Transmit("a", retx[1].seq, Taken("a"), owed - 1)
                \/ Silent(Taken("a"), owed - 1)
    <3> DEFINE s == retx[1].seq
    <3>1. s \in Nat
      <4>1. retx \in Seq(EntryType) /\ 1 \in 1 .. Len(retx)
        BY <2>3 DEF Types
      <4>2. retx[1] \in EntryType
        BY <4>1
      <4> QED BY <4>2 DEF EntryType
    <3>2. /\ WireTypes(pending', hands', queue') /\ owed' \in Int /\ CopiesConserved'
          /\ \A d, f \in Nat : <<d, f>> \in ToReceiver' =>
                 <<d, f>> \in ToReceiver \/ (f = s /\ d \in Delays)
          /\ \A d, f \in Nat : <<d, f>> \in ToSender' => <<d, f>> \in ToSender
      <4> HIDE DEF s
      <4>1. Transmit("a", s, Taken("a"), owed - 1) \/ Silent(Taken("a"), owed - 1)
        BY <2>3 DEF s
      <4> QED BY <1>2, <3>1, <4>1
    <3>3. Behind' /\ OnceSent' /\ retx' \in Seq(EntryType) /\ (retx' = << >> <=> retx = << >>)
      BY <1>0, <2>3, <3>2, ResentKeeps
    <3> HIDE DEF s
    <3>4. Types'
      BY <1>0, <2>1, <3>2, <3>3 DEF Types
    <3>5. TimerWithinRto' /\ SampleIsReal'
      BY <2>1, <3>3 DEF TimerWithinRto, SampleIsReal, MinDelay
    <3> QED BY <3>2, <3>3, <3>4, <3>5
  <2> QED BY <1>6, <2>2, <2>3 DEF DuplicateAck
<1> QED BY <1>4, <1>5, <1>6 DEF OnAck

\* The timer gives up, or backs off and sends the oldest entry again.
LEMMA OnTimeoutKeeps == ASSUME TimingInv, OnTimeout PROVE TimingInv'
<1> USE DEF TimingInv
<1>0. /\ timer = 0 /\ hands' = hands /\ una' = una /\ nxt' = nxt
      /\ rcv_nxt' = rcv_nxt /\ parked' = parked
  BY DEF OnTimeout, receiver
<1>00. "b" \in Link /\ "a" \in Link
  BY DEF Link
<1>1. retx # << >> /\ retx \in Seq(EntryType)
  BY <1>0 DEF TimerWithinRto, None, Types
<1> DEFINE s == retx[1].seq
<1>2. s \in Nat
  <2>1. 1 \in 1 .. Len(retx)
    BY <1>1
  <2>2. retx[1] \in EntryType
    BY <1>1, <2>1
  <2> QED BY <2>2 DEF EntryType
<1>3. ASSUME Transmit("a", s, queue, owed) \/ Silent(queue, owed)
      PROVE  /\ WireTypes(pending', hands', queue') /\ owed' \in Int /\ CopiesConserved'
             /\ \A d, f \in Nat : <<d, f>> \in ToReceiver' =>
                    <<d, f>> \in ToReceiver \/ (f = s /\ d \in Delays)
             /\ \A d, f \in Nat : <<d, f>> \in ToSender' => <<d, f>> \in ToSender
  <2> HIDE DEF s
  <2>2. /\ WireTypes(pending', hands', queue') /\ owed' \in Int /\ CopiesConserved'
        /\ \A l \in Link : \A d, f \in Nat :
                 <<d, f>> \in Copies(pending', hands', queue', l) =>
                     \/ <<d, f>> \in Copies(pending, hands, queue, l)
                     \/ l = Other("a") /\ f = s /\ d \in Delays
    BY <1>0, <1>00, <1>2, <1>3, OwnWire
  <2> QED BY <1>00, <2>2, OtherIs DEF ToReceiver, ToSender
<1>4. CASE retx' = << >> /\ timer' = None /\ Silent(queue, owed) /\ est' = est
  <2>1. pending' = pending /\ queue' = queue /\ owed' = owed
    BY <1>4 DEF Silent
  <2>2. Types'
    BY <1>0, <1>4, <2>1 DEF Types, None
  <2>3. TimerWithinRto'
    <3>1. TicksOf(est.rto) \in Nat
      BY RtoBounds DEF TimerWithinRto, RtoRange
    <3>2. timer' <= TicksOf(est'.rto)
      BY <1>4, <3>1 DEF None
    <3> QED BY <1>4, <3>2 DEF TimerWithinRto
  <2>4. CopiesConserved' /\ SampleIsReal'
    BY <1>0, <1>4, <2>1 DEF CopiesConserved, InTransit, SampleIsReal, MinDelay
  <2>5. Behind' /\ OnceSent'
    BY <1>0, <1>4, <2>1 DEF Behind, OnceSent, ToReceiver, ToSender
  <2> QED BY <2>2, <2>3, <2>4, <2>5
<1>5. CASE /\ est' = backoff(est) /\ retx' = Marked(retx)
           /\ \/ Transmit("a", s, queue, owed) /\ timer' = TicksOf(est'.rto)
              \/ Silent(queue, owed) /\ timer' = timer
  <2>1. Transmit("a", s, queue, owed) \/ Silent(queue, owed)
    BY <1>5
  <2>2. /\ WireTypes(pending', hands', queue') /\ owed' \in Int /\ CopiesConserved'
        /\ \A d, f \in Nat : <<d, f>> \in ToReceiver' =>
               <<d, f>> \in ToReceiver \/ (f = s /\ d \in Delays)
        /\ \A d, f \in Nat : <<d, f>> \in ToSender' => <<d, f>> \in ToSender
    BY <1>3, <2>1
  <2>3. Behind' /\ OnceSent' /\ retx' \in Seq(EntryType) /\ (retx' = << >> <=> retx = << >>)
    <3>1. retx' = retx \/ (retx # << >> /\ retx' = Marked(retx))
      BY <1>1, <1>5
    <3>2. \A d, f \in Nat : <<d, f>> \in ToReceiver' =>
              <<d, f>> \in ToReceiver \/ (retx # << >> /\ f = retx[1].seq /\ d \in Delays)
      BY <1>1, <2>2
    <3>3. \A d, f \in Nat : <<d, f>> \in ToSender' => <<d, f>> \in ToSender
      BY <2>2
    <3> QED BY <1>0, <3>1, <3>2, <3>3, ResentKeeps
  <2>4. est' \in EstType /\ est'.rto \in RtoRange /\ est'.srtt = est.srtt
    BY <1>5, BackoffIs DEF Types, TimerWithinRto, RtoRange
  <2>5. TicksOf(est'.rto) \in Nat
    BY <2>4, RtoBounds
  <2>6. timer' \in Nat /\ timer' <= TicksOf(est'.rto)
    <3> DEFINE k == TicksOf(est'.rto)
    <3>1. k \in Nat /\ (timer' = k \/ timer' = 0)
      BY <1>0, <1>5, <2>5
    <3> HIDE DEF k
    <3>2. timer' \in Nat /\ timer' <= k
      BY <3>1
    <3> QED BY <3>2 DEF k
  <2> HIDE DEF s
  <2>7. Types'
    BY <1>0, <2>2, <2>3, <2>4, <2>6 DEF Types, None
  <2>8. TimerWithinRto'
    BY <1>1, <2>3, <2>4, <2>6 DEF TimerWithinRto, RtoRange, None
  <2>9. SampleIsReal'
    BY <2>4 DEF SampleIsReal, MinDelay
  <2> QED BY <2>2, <2>3, <2>7, <2>8, <2>9
<1> QED BY <1>4, <1>5 DEF OnTimeout

\* Entries age by as much as delays shrink.
LEMMA TimePassesKeeps == ASSUME TimingInv, TimePasses PROVE TimingInv'
<1> USE MinDelayIs DEF TimingInv
<1>0. /\ pending' = Aged(pending) /\ hands' = hands /\ queue' = queue /\ owed' = owed
      /\ est' = est /\ una' = una /\ nxt' = nxt /\ rcv_nxt' = rcv_nxt /\ parked' = parked
      /\ retx' = [i \in 1 .. Len(retx) |-> [retx[i] EXCEPT !.age = @ + 1]]
      /\ timer' = IF timer = None THEN None ELSE Most(timer - 1, 0)
  BY DEF TimePasses, receiver
<1>1. /\ WireTypes(pending', hands', queue')
      /\ Total(pending', hands', queue') = Total(pending, hands, queue)
      /\ \A l \in Link : \A d, f \in Nat :
            <<d, f>> \in Copies(pending', hands', queue', l) =>
                \E was \in Nat : /\ was <= d + 1
                                 /\ <<was, f>> \in Copies(pending, hands, queue, l)
  <2>1. WireTypes(pending, hands, queue)
    BY DEF Types
  <2> QED BY <1>0, <2>1, AgedWire
<1>2. /\ \A d, f \in Nat : <<d, f>> \in ToReceiver' =>
             \E was \in Nat : was <= d + 1 /\ <<was, f>> \in ToReceiver
      /\ \A d, f \in Nat : <<d, f>> \in ToSender' =>
             \E was \in Nat : was <= d + 1 /\ <<was, f>> \in ToSender
  BY <1>1 DEF ToReceiver, ToSender, Link
<1>3. /\ retx \in Seq(EntryType) /\ retx' \in Seq(EntryType) /\ Len(retx') = Len(retx)
      /\ Len(retx) \in Nat
      /\ \A i \in 1 .. Len(retx) : /\ retx[i].seq \in Nat /\ retx[i].age \in Nat
                                   /\ retx'[i].seq = retx[i].seq
                                   /\ retx'[i].age = retx[i].age + 1
                                   /\ retx'[i].retransmits = retx[i].retransmits
  <2> DEFINE A(i) == [retx[i] EXCEPT !.age = @ + 1]
  <2>1. retx \in Seq(EntryType)
    BY DEF Types
  <2>2. ASSUME NEW i \in 1 .. Len(retx)
        PROVE  /\ A(i) \in EntryType /\ retx[i].seq \in Nat /\ retx[i].age \in Nat
               /\ A(i).seq = retx[i].seq /\ A(i).age = retx[i].age + 1
               /\ A(i).retransmits = retx[i].retransmits
    <3> DEFINE r == retx[i]
               k == r.age + 1
    <3>1. r \in EntryType
      BY <2>1
    <3>2. r.seq \in Nat /\ r.age \in Nat /\ k \in Nat
      BY <3>1 DEF EntryType
    <3>3. A(i) = [r EXCEPT !.age = k]
      OBVIOUS
    <3> HIDE DEF r, k
    <3>4. /\ [r EXCEPT !.age = k] \in EntryType /\ [r EXCEPT !.age = k].seq = r.seq
          /\ [r EXCEPT !.age = k].age = k /\ [r EXCEPT !.age = k].retransmits = r.retransmits
      BY <3>1, <3>2 DEF EntryType
    <3> HIDE DEF A
    <3> QED BY <3>2, <3>3, <3>4 DEF r, k
  <2>3. retx' = [i \in 1 .. Len(retx) |-> A(i)]
    BY <1>0
  <2> HIDE DEF A
  <2> QED BY <2>1, <2>2, <2>3
<1>4. timer \in Int /\ timer >= -1 /\ timer' \in Int /\ timer' >= -1 /\ timer' <= Most(timer, -1)
      /\ (timer' = -1 <=> timer = -1)
  BY <1>0 DEF Types, Most, None
<1>5. Types'
  BY <1>0, <1>1, <1>3, <1>4 DEF Types, None
<1>6. TimerWithinRto'
  <2>1. retx' = << >> <=> retx = << >>
    BY <1>3
  <2>2. timer' <= TicksOf(est'.rto)
    <3> DEFINE k == TicksOf(est.rto)
    <3>1. k \in Nat /\ timer <= k
      BY RtoBounds DEF TimerWithinRto, RtoRange
    <3> HIDE DEF k
    <3>2. timer' <= k
      BY <1>4, <3>1 DEF Most
    <3> QED BY <1>0, <3>2 DEF k
  <2> QED BY <1>0, <1>4, <2>1, <2>2 DEF TimerWithinRto, None
<1>7. CopiesConserved' /\ SampleIsReal'
  BY <1>0, <1>1 DEF CopiesConserved, InTransit, Total, SampleIsReal, MinDelay
<1>8. Behind'
  BY <1>0, <1>2, <1>3 DEF Behind
<1>9. ASSUME NEW i \in 1 .. Len(retx'), retx'[i].retransmits = 0
      PROVE  /\ \A d \in Nat : <<d, retx'[i].seq>> \in ToReceiver' => retx'[i].age + d >= MinDelay
             /\ (retx'[i].seq \in parked' \/ retx'[i].seq < rcv_nxt') => retx'[i].age >= MinDelay
             /\ \A d, f \in Nat : <<d, f>> \in ToSender' /\ f > retx'[i].seq
                                    => retx'[i].age + d >= 2 * MinDelay
  <2> DEFINE s == retx[i].seq
             a == retx[i].age
  <2>1. s \in Nat /\ a \in Nat /\ retx'[i].seq = s /\ retx'[i].age = a + 1
        /\ retx[i].retransmits = 0 /\ i \in 1 .. Len(retx)
    BY <1>3, <1>9
  <2>2. /\ \A d \in Nat : <<d, s>> \in ToReceiver => a + d >= MinDelay
        /\ (s \in parked \/ s < rcv_nxt) => a >= MinDelay
        /\ \A d, f \in Nat : <<d, f>> \in ToSender /\ f > s => a + d >= 2 * MinDelay
    BY <2>1 DEF OnceSent
  <2> HIDE DEF s, a
  <2>3. ASSUME NEW d \in Nat, <<d, s>> \in ToReceiver' PROVE a + 1 + d >= MinDelay
    <3>1. PICK was \in Nat : was <= d + 1 /\ <<was, s>> \in ToReceiver
      BY <1>2, <2>1, <2>3
    <3>2. a + was >= MinDelay
      BY <2>2, <3>1
    <3> QED BY <2>1, <3>1, <3>2
  <2>4. ASSUME NEW d \in Nat, NEW f \in Nat, <<d, f>> \in ToSender', f > s
        PROVE  a + 1 + d >= 2 * MinDelay
    <3>1. PICK was \in Nat : was <= d + 1 /\ <<was, f>> \in ToSender
      BY <1>2, <2>4
    <3>2. a + was >= 2 * MinDelay
      BY <2>2, <2>4, <3>1
    <3> QED BY <2>1, <3>1, <3>2
  <2>5. (s \in parked' \/ s < rcv_nxt') => a + 1 >= MinDelay
    BY <1>0, <2>1, <2>2
  <2> QED BY <2>1, <2>3, <2>4, <2>5
<1>10. OnceSent'
  <2>1. MinDelay' = MinDelay
    BY DEF MinDelay
  <2> QED BY <1>9, <2>1 DEF OnceSent
<1> QED BY <1>5, <1>6, <1>7, <1>8, <1>10

\* The invariant holds in every state of every run.
LEMMA TimingInvAlways == Spec => []TimingInv
<1>1. Init => TimingInv
  <2> SUFFICES ASSUME Init PROVE TimingInv
    OBVIOUS
  <2>0. /\ pending = << >> /\ hands = [e \in Link |-> << >>] /\ queue = [e \in Link |-> << >>]
        /\ owed = 0 /\ una = 0 /\ nxt = 0 /\ retx = << >> /\ timer = -1
        /\ rcv_nxt = 0 /\ parked = {} /\ est = NewEstimator
    BY DEF Init, WireInit, None
  <2>1. est \in EstType /\ est.srtt = None /\ est.rto \in RtoRange /\ TicksOf(est.rto) \in Nat
    <3> DEFINE r == Clamped(INITIAL_RTO * SCALE)
    <3>1. INITIAL_RTO * SCALE \in Int
      BY RtoBounds DEF SCALE
    <3>2. r \in RtoRange /\ r \in Int /\ TicksOf(r) \in Nat
      BY <3>1, RtoBounds
    <3>3. est = [srtt |-> -1, rttvar |-> -1, rto |-> r]
      BY <2>0 DEF NewEstimator, None
    <3> HIDE DEF r
    <3> QED BY <3>2, <3>3 DEF EstType, None
  <2>2. WireTypes(pending, hands, queue)
    BY <2>0 DEF WireTypes
  <2>3. Types
    BY <2>0, <2>1, <2>2, TimingAssumption DEF Types, None
  <2>4. TimerWithinRto
    BY <2>0, <2>1 DEF TimerWithinRto, RtoRange, None
  <2>5. CopiesConserved
    BY <2>0 DEF CopiesConserved, InTransit, Link
  <2>6. ToReceiver = {} /\ ToSender = {}
    BY <2>0 DEF ToReceiver, ToSender, Copies, Link
  <2>7. Behind /\ OnceSent
    BY <2>0, <2>6 DEF Behind, OnceSent
  <2>8. SampleIsReal
    BY <2>1 DEF SampleIsReal
  <2> QED BY <2>3, <2>4, <2>5, <2>7, <2>8 DEF TimingInv
<1>2. TimingInv /\ [Next]_vars => TimingInv'
  <2> SUFFICES ASSUME TimingInv, [Next]_vars PROVE TimingInv'
    OBVIOUS
  <2>1. CASE UNCHANGED vars
    BY <2>1 DEF vars, wire, sender, receiver, TimingInv, Types, TimerWithinRto, CopiesConserved,
                InTransit, Behind, OnceSent, SampleIsReal, MinDelay, ToReceiver, ToSender
  <2>2. CASE Next
    BY <2>2, SendKeeps, OnDataKeeps, OnAckKeeps, OnTimeoutKeeps, ReaderKeeps, OutageKeeps,
       TimePassesKeeps DEF Next
  <2> QED BY <2>1, <2>2
<1> QED BY <1>1, <1>2, PTL DEF Spec

-----------------------------------------------------------------------------
(* Theorems                                                                *)

\* The retransmission timer is armed exactly while a segment is outstanding, for
\* no longer than the timeout, and the timeout stays between its bounds.
THEOREM TimerCorrect == Spec => []TimerWithinRto
<1>1. TimingInv => TimerWithinRto
  BY DEF TimingInv
<1> QED BY <1>1, TimingInvAlways, PTL

\* The two readers that pump one list neither lose nor double a frame.
THEOREM WireConserves == Spec => []CopiesConserved
<1>1. TimingInv => CopiesConserved
  BY DEF TimingInv
<1> QED BY <1>1, TimingInvAlways, PTL

\* Karn's rule: no answer to one transmission is taken for the answer to a
\* later one, so the smoothed round trip is no shorter than the wire's.
THEOREM SampleCorrect == Spec => []SampleIsReal
<1>1. TimingInv => SampleIsReal
  BY DEF TimingInv
<1> QED BY <1>1, TimingInvAlways, PTL

\* An acknowledgement that moves the window undoes the backoff, on a wire that
\* takes time: RTOEstimator.sample ignores a round trip of zero ticks, and
\* then the backoff stays.
THEOREM BackoffDropped == 0 \notin Delays => (Spec => BackoffUndone)
<1> SUFFICES ASSUME 0 \notin Delays PROVE Spec => BackoffUndone
  OBVIOUS
<1>1. TimingInv /\ [Next]_vars => [una' # una => est'.rto = FreshRto(est')]_vars
  <2> SUFFICES ASSUME TimingInv, Next, una' # una PROVE est'.rto = FreshRto(est')
    BY DEF vars, sender
  <2>1. OnAck
    BY DEF Next, Send, OnData, OnTimeout, Reader, Outage, TimePasses, sender
  <2>2. NewAck(Head(queue["a"])) /\ queue["a"] # << >>
    BY <2>1 DEF OnAck, DuplicateAck, CanReceive
  <2>3. Head(queue["a"]) \in Nat /\ <<0, Head(queue["a"])>> \in ToSender
    <3>1. WireTypes(pending, hands, queue) /\ "a" \in Link
      BY DEF TimingInv, Types, Link
    <3> QED BY <2>2, <3>1, TakenWire DEF ToSender
  <2> QED BY <2>2, <2>3, NewAckIs
<1> QED BY <1>1, TimingInvAlways, PTL DEF Spec, BackoffUndone
=============================================================================
