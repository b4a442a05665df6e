------------------------------- MODULE SeqNo -------------------------------
(***************************************************************************)
(* Wraparound-safe arithmetic on TCP sequence numbers                      *)
(* (minitcp/net/tcp/seqno.py).                                             *)
(*                                                                         *)
(* The code fixes the space at 2^32 (SEQ_MASK + 1).  Here the size of the  *)
(* space is a parameter, so that TLC can walk all the way round a small    *)
(* one and TLAPS can speak about every even one.  "& SEQ_MASK" is          *)
(* "% SEQ_MOD".                                                            *)
(*                                                                         *)
(* X_Slip next to X is X with a slip that a property must notice.          *)
(***************************************************************************)
EXTENDS Integers

CONSTANT SEQ_MOD

ASSUME SeqModAssumption == SEQ_MOD \in Nat /\ SEQ_MOD >= 2 /\ SEQ_MOD % 2 = 0

SEQ_HALF == SEQ_MOD \div 2

SeqNum == 0 .. (SEQ_MOD - 1)

seq_add(seq, offset) == (seq + offset) % SEQ_MOD

\* Signed distance from b to a, in -SEQ_HALF .. SEQ_HALF - 1.
seq_diff(a, b) ==
    LET diff == (a - b) % SEQ_MOD
    IN  IF diff >= SEQ_HALF THEN diff - SEQ_MOD ELSE diff

seq_lt_HalfIsLess(a, b) ==
    LET ahead == (b - a) % SEQ_MOD
    IN  0 < ahead /\ ahead <= SEQ_HALF

seq_lt_Plain(a, b) == a < b

seq_lt(a, b) ==
    LET ahead == (b - a) % SEQ_MOD
    IN  0 < ahead /\ ahead < SEQ_HALF

seq_le(a, b) == a = b \/ seq_lt(a, b)

seq_gt(a, b) == seq_lt(b, a)

seq_ge(a, b) == a = b \/ seq_lt(b, a)

seq_between(seq, low, high) == seq_ge(seq, low) /\ seq_lt(seq, high)
=============================================================================
