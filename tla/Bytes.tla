------------------------------- MODULE Bytes -------------------------------
(***************************************************************************)
(* The pieces of Python the queues are written with: min, max, slices of   *)
(* byte strings and lists filtered by position.  A byte string is a        *)
(* sequence.                                                               *)
(***************************************************************************)
EXTENDS Integers, Sequences, FiniteSets

Least(a, b) == IF a <= b THEN a ELSE b
Most(a, b) == IF a >= b THEN a ELSE b

\* data[:n], for n >= 0.
FirstBytes(data, n) == SubSeq(data, 1, Least(n, Len(data)))

\* data[n:]; a negative n counts from the end.
BytesFrom(data, n) ==
    SubSeq(data, (IF n >= 0 THEN n ELSE Most(Len(data) + n, 0)) + 1, Len(data))

\* The items at some of the places of a list, in their order.
Picked(items, places) ==
    LET Nth(k) == CHOOSE i \in places : Cardinality({j \in places : j <= i}) = k
    IN  [k \in 1 .. Cardinality(places) |-> items[Nth(k)]]
=============================================================================
