----------------------------- MODULE SeqNoLaws -----------------------------
(***************************************************************************)
(* Two sequence numbers wandering round the sequence space: b moves ahead  *)
(* of a as a connection sends, and both slide together as the space wraps. *)
(* The laws below are what the windows, the queues and the acknowledgement *)
(* tests assume of seqno.py.                                               *)
(***************************************************************************)
EXTENDS SeqNo

VARIABLES a, b

vars == <<a, b>>

Init == a \in SeqNum /\ b = a

Advance(k) == a' = a /\ b' = seq_add(b, k)

Slide(k) == a' = seq_add(a, k) /\ b' = seq_add(b, k)

Next == \E k \in 1 .. SEQ_MOD - 1 : Advance(k) \/ Slide(k)

Spec == Init /\ [][Next]_vars

TypeOK == a \in SeqNum /\ b \in SeqNum

Opposite == (b - a) % SEQ_MOD = SEQ_HALF

\* Two different numbers are ordered one way and not the other, and numbers
\* exactly half the space apart are not ordered at all: "answers False to all
\* four of <, <=, >, >=" (README).
Ordered ==
    /\ seq_lt(a, b) => ~seq_le(b, a) /\ ~seq_ge(a, b)
    /\ a # b /\ ~Opposite => seq_lt(a, b) \/ seq_gt(a, b)
    /\ Opposite => ~(\/ seq_lt(a, b) \/ seq_le(a, b)
                     \/ seq_gt(a, b) \/ seq_ge(a, b))

\* seq_diff is the step from b to a: adding it to b gives a, and its sign is
\* the order, so in-flight and overlap counts agree with the comparisons.
DiffIsDistance ==
    /\ seq_add(b, seq_diff(a, b)) = a
    /\ (seq_diff(a, b) > 0) = seq_gt(a, b)
    /\ seq_diff(a, b) \in -SEQ_HALF .. SEQ_HALF - 1

\* A window narrower than half the space is the interval of numbers less than
\* its width past its left edge, wherever it lies (seq_between).
WindowIsInterval ==
    \A w \in 0 .. SEQ_HALF - 1 :
        seq_between(b, a, seq_add(a, w)) = ((b - a) % SEQ_MOD < w)

\* Order and distance do not depend on where in the space the numbers are.
SlideKeepsOrder ==
    [][(\E k \in 1 .. SEQ_MOD - 1 : Slide(k))
          => /\ seq_lt(a', b') = seq_lt(a, b)
             /\ seq_diff(a', b') = seq_diff(a, b)]_vars
=============================================================================
