----------------------------- MODULE Reassembly -----------------------------
(***************************************************************************)
(* IPv4 fragmentation and reassembly (minitcp/net/ipv4.py: fragment and    *)
(* Reassembler), over a network that loses, repeats and reorders fragments *)
(* and may cut the same datagram for more than one MTU.                    *)
(*                                                                         *)
(* Datagram d is the d-th one host sends another, and its identification,  *)
(* which is all that tells their fragment sets apart, the d-th that        *)
(* _allocate_id gives out (minitcp/stack.py).  A byte is <<d, i>>, byte i  *)
(* of datagram d.  Time is abstracted to whether a set is past its         *)
(* timeout, which _expire notices at the next add(); the clock would let   *)
(* them age only in the order in which they were begun.                    *)
(*                                                                         *)
(* X_Slip next to X is X with a slip that a property must notice.          *)
(***************************************************************************)
EXTENDS Integers, Sequences, FiniteSets, Functions, Bytes

CONSTANTS
    Datagrams,            \* the datagrams sent, by number
    ID_MOD,               \* 2^16, the size of the identification's space
    Size,                 \* payload length of each
    Rooms,                \* mtu - header length, for each MTU on the way
    Unit,                 \* 8: the granularity of fragment_offset
    MaxSets               \* max_pending

ASSUME ReassemblyAssumption ==
    /\ Datagrams \subseteq Nat \ {0}
    /\ ID_MOD \in Nat \ {0, 1}
    /\ Size \in [Datagrams -> Nat \ {0}]
    /\ Rooms \subseteq Nat
    /\ {Unit, MaxSets} \subseteq Nat \ {0}
    /\ \A room \in Rooms : room >= Unit

\* _allocate_id counts from 1 and skips 0 when it comes round.
_allocate_id(d) == ((d - 1) % (ID_MOD - 1)) + 1

Content(d) == [i \in 1 .. Size[d] |-> <<d, i - 1>>]

-----------------------------------------------------------------------------
(* fragment(): the pieces of datagram d when room bytes of payload fit.    *)
MaxPayload(room) == (room \div Unit) * Unit

Pieces(d, room) ==
    LET whole == Content(d)
        step == MaxPayload(room)
        Piece(k) == FirstBytes(BytesFrom(whole, k * step), step)
    IN  IF Size[d] <= room
        THEN {[id |-> _allocate_id(d), offset |-> 0, more |-> FALSE, data |-> whole]}
        ELSE {[id     |-> _allocate_id(d),
               offset |-> (k * step) \div Unit,
               more   |-> k * step + Len(Piece(k)) < Size[d],
               data   |-> Piece(k)] :
                  k \in {k \in 0 .. Size[d] : k * step < Size[d]}}

\* is_fragmented
Fragmented(f) == f.more \/ f.offset # 0

Fragments == UNION {Pieces(d, room) : d \in Datagrams, room \in Rooms}

-----------------------------------------------------------------------------
VARIABLES
    sets,                 \* Reassembler._sets, keyed by identification
    stale,                \* the sets past their timeout
    up,                   \* the packet the last add() returned, or Nothing
    seen                  \* fragments each current set has been given

reassembler == <<sets, stale, up, seen>>

NoTotal == -1
Nothing == << >>

ReassemblerInit ==
    /\ sets = << >>
    /\ stale = {}
    /\ up = Nothing
    /\ seen = << >>

Without(f, keys) == [k \in DOMAIN f \ keys |-> f[k]]
With(f, key, value) ==
    [k \in DOMAIN f \cup {key} |-> IF k = key THEN value ELSE f[k]]

\* The set for datagram id after it is given f.
Extended(old, id, f) ==
    LET entry == IF id \in DOMAIN old THEN old[id]
                 ELSE [total |-> NoTotal, pieces |-> << >>]
        offset == f.offset * Unit
    IN  [total  |-> IF f.more THEN entry.total ELSE offset + Len(f.data),
         pieces |-> With(entry.pieces, offset, f.data)]

Complete_LastOnly(entry) == entry.total # NoTotal

\* Whether the pieces, taken in order of offset, leave no hole and reach the
\* end: each begins no later than the end of one that begins before it.
Complete(entry) ==
    LET starts == DOMAIN entry.pieces
        End(o) == o + Len(entry.pieces[o])
    IN  /\ entry.total # NoTotal
        /\ \A o \in starts : o = 0 \/ \E q \in starts : q < o /\ o <= End(q)
        /\ \E o \in starts : entry.total <= End(o)

\* The rebuilt payload: of the pieces that cover byte i, the one with the
\* highest offset was copied last.  A byte nothing covers is left zero.
Payload(entry) ==
    [i \in 1 .. entry.total |->
        LET over == {o \in DOMAIN entry.pieces :
                        o < i /\ i <= o + Len(entry.pieces[o])}
            last == CHOOSE o \in over : \A q \in over : q <= o
        IN  IF over = {} THEN <<>> ELSE entry.pieces[last][i - last]]

Full_OffByOne(live) == Cardinality(DOMAIN live) > MaxSets

\* No further fragment set is begun.
Full(live) == Cardinality(DOMAIN live) >= MaxSets

\* add() of a fragment, _expire and _try_complete included
Add(f) ==
    LET live == Without(sets, stale)
        given == Without(seen, stale)
        entry == Extended(live, f.id, f)
        arrived == (IF f.id \in DOMAIN given THEN given[f.id] ELSE {}) \cup {f}
    IN  /\ Fragmented(f)
        /\ stale' = {}
        /\ IF f.id \notin DOMAIN live /\ Full(live)
           THEN sets' = live /\ seen' = given /\ up' = Nothing
           ELSE IF Complete(entry)
           THEN /\ sets' = Without(live, {f.id})
                /\ seen' = Without(given, {f.id})
                /\ up' = Payload(entry)
           ELSE /\ sets' = With(live, f.id, entry)
                /\ seen' = With(given, f.id, arrived)
                /\ up' = Nothing

\* add() of a datagram that came whole
AddWhole(f) ==
    /\ ~Fragmented(f)
    /\ up' = f.data
    /\ UNCHANGED <<sets, stale, seen>>

\* The timeout of a set passes.
Age(id) ==
    /\ id \in DOMAIN sets \ stale
    /\ stale' = stale \cup {id}
    /\ UNCHANGED <<sets, up, seen>>

Receive == \E f \in Fragments : Add(f) \/ AddWhole(f)
Ageing == \E id \in DOMAIN sets : Age(id)

-----------------------------------------------------------------------------
\* The sets are what add() builds, and no more than max_pending of them.
SetsOK ==
    /\ DOMAIN sets \subseteq 1 .. ID_MOD - 1 /\ DOMAIN seen = DOMAIN sets
    /\ stale \subseteq DOMAIN sets
    /\ \A id \in DOMAIN sets : /\ sets[id].total \in Nat \cup {NoTotal}
                               /\ DOMAIN sets[id].pieces # {}
    /\ Cardinality(DOMAIN sets) <= MaxSets

\* What is handed up is a datagram that was sent, whole and unmixed, whatever
\* the order, the repetitions, the losses, the timeouts and the MTUs.
RebuiltIsOriginal ==
    up # Nothing => \E d \in Datagrams : up = Content(d)

\* The bytes that a set of fragments carries.
Carried(fs) == UNION {Range(f.data) : f \in fs}

\* "returns the rebuilt packet when complete" (Reassembler.add): no set is
\* left waiting that has been given every byte of its datagram and its end.
CompletedWhenComplete ==
    \A id \in DOMAIN sets :
        ~ /\ \E f \in seen[id] : ~f.more
          /\ \E d \in Datagrams : Range(Content(d)) \subseteq Carried(seen[id])
=============================================================================
