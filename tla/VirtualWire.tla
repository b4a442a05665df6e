---------------------------- MODULE VirtualWire ----------------------------
(***************************************************************************)
(* The test wire between two stacks: VirtualWire and SimulatedLink         *)
(* (minitcp/link/simulated.py), under the reader threads of both stacks    *)
(* (Stack._run).  Delayed frames wait in one list, and either reader, on   *)
(* its way to its own queue, moves what is due to whoever it is for.       *)
(*                                                                         *)
(* The clock is not in the state: a delay is what is left of it.  A        *)
(* corrupted frame counts as lost (what checksums miss: Codec).            *)
(*                                                                         *)
(* X_Slip next to X is X with a slip that a property must notice.          *)
(***************************************************************************)
EXTENDS Bytes

CONSTANTS
    Delays,               \* delay_ms with or without the extra of reorder
    MaxFaults             \* frames lost or doubled and links gone down

ASSUME WireAssumption ==
    Delays \subseteq Nat /\ Delays # {} /\ MaxFaults \in Nat

Link == {"a", "b"}
Other(e) == CHOOSE f \in Link : f # e

VARIABLES
    is_up,                \* of each link
    pending,              \* delayed frames, in the order they were sent
    hands,                \* due frames a reader has taken out of pending
    queue,                \* of each link: frames received, not yet read
    faults,               \* how often the wire has misbehaved
    owed                  \* copies on their way that nobody has read yet

wire == <<is_up, pending, hands, queue, faults, owed>>

WireInit ==
    /\ is_up = [e \in Link |-> TRUE]
    /\ pending = << >>
    /\ hands = [e \in Link |-> << >>]
    /\ queue = [e \in Link |-> << >>]
    /\ faults = 0 /\ owed = 0

\* send_frame raises LinkError on a link that is down.
CanSend(e) == is_up[e]

\* Nothing is sent; q and n are the queues and the copies owed by then.
Silent(q, n) == queue' = q /\ owed' = n /\ UNCHANGED <<pending, faults>>

\* transmit: no copy if the peer is down, none or two if the wire misbehaves;
\* all copies have the same delay, and without one they are queued at once.
Transmit(e, frame, q, n) ==
    \/ ~is_up[Other(e)] /\ Silent(q, n)
    \/ /\ is_up[Other(e)]
       /\ \E copies \in 0 .. 2, delay \in Delays :
             /\ IF copies = 1 THEN UNCHANGED faults
                ELSE faults < MaxFaults /\ faults' = faults + 1
             /\ owed' = n + copies
             /\ IF delay = 0
                THEN /\ queue' = [q EXCEPT ![Other(e)] =
                                     @ \o [i \in 1 .. copies |-> frame]]
                     /\ UNCHANGED pending
                ELSE /\ pending' = pending \o
                           [i \in 1 .. copies |->
                               [left |-> delay, to |-> Other(e), frame |-> frame]]
                     /\ queue' = q

IsDue_Strictly(item) == item.left < 0

IsDue(item) == item.left <= 0

DuePlaces(items) == {i \in 1 .. Len(items) : IsDue(items[i])}

NotTaken_All(items) == items

NotTaken(items) == Picked(items, (1 .. Len(items)) \ DuePlaces(items))

\* pump, in the thread of link e: the due frames leave the list under the lock
Pump(e) ==
    /\ hands[e] = << >> /\ DuePlaces(pending) # {}
    /\ hands' = [hands EXCEPT ![e] = Picked(pending, DuePlaces(pending))]
    /\ pending' = NotTaken(pending)
    /\ UNCHANGED <<is_up, queue, faults, owed>>

\* ... and are queued one by one after it.
_enqueue(e) ==
    /\ hands[e] # << >>
    /\ LET item == Head(hands[e])
       IN  queue' = [queue EXCEPT ![item.to] = Append(@, item.frame)]
    /\ hands' = [hands EXCEPT ![e] = Tail(@)]
    /\ UNCHANGED <<is_up, pending, faults, owed>>

\* recv_frame has pumped and takes the first frame of the link's own queue,
\* whether or not the link is up.
CanReceive(e) == hands[e] = << >> /\ queue[e] # << >>

Taken(e) == [queue EXCEPT ![e] = Tail(@)]

\* A link goes down, or comes back.  close() is a link that goes down and stays
\* down.
SetUp(e, up) ==
    /\ is_up[e] # up
    /\ is_up' = [is_up EXCEPT ![e] = up]
    /\ IF up THEN UNCHANGED faults
       ELSE faults < MaxFaults /\ faults' = faults + 1
    /\ UNCHANGED <<pending, hands, queue, owed>>

WaitsForTime == \E i \in 1 .. Len(pending) : ~IsDue(pending[i])

Aged(items) ==
    [i \in 1 .. Len(items) |-> [items[i] EXCEPT !.left = Most(@ - 1, 0)]]

-----------------------------------------------------------------------------
(* Properties                                                              *)

InTransit ==
    Len(pending) + Len(hands["a"]) + Len(hands["b"])
                 + Len(queue["a"]) + Len(queue["b"])

\* A copy is in one place at a time: two readers pumping one list neither lose
\* nor double a frame.
CopiesConserved == owed = InTransit

\* Every copy is read in the end, although the reader that moves it may be
\* that of the other link.
WireDrains == <>[](InTransit = 0)

\* "Endpoints with is_up set to False neither send nor receive" (simulated.py):
\* nothing is queued for a link that is down.
DownReceivesNothing ==
    [][\A e \in Link : ~is_up[e] => Len(queue'[e]) <= Len(queue[e])]_wire
=============================================================================
