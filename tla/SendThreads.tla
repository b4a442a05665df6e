---------------------------- MODULE SendThreads ----------------------------
(***************************************************************************)
(* Two threads in one established connection: the application calls send() *)
(* and the stack's reader thread handles acknowledgements, and both end in *)
(* _flush (minitcp/net/tcp/connection.py), which takes no lock.  A step is *)
(* what lies between two uses of the shared queues: peek at snd_nxt, hand  *)
(* the segment to the wire, track it, advance snd_nxt.                     *)
(*                                                                         *)
(* The wire is perfect, the window a constant, and the peer takes what is  *)
(* in order and acknowledges it.                                           *)
(***************************************************************************)
EXTENDS SendQueue

CONSTANTS
    ISS,                  \* number of the first byte
    Window,               \* effective_window
    PeerMss,              \* peer_mss
    ToWrite               \* bytes the application writes

Threads == {"app", "reader"}

VARIABLES
    sq, retx,             \* send_queue, retx_queue
    pc,                   \* where each thread is in _flush, or "idle"
    allowed, payload, seq,\* local variables of _flush and _transmit
    wrote,                \* bytes the application has written
    wire,                 \* segments on the way to the peer
    got,                  \* bytes the peer has taken
    acks                  \* acknowledgements on the way back

vars == <<sq, retx, pc, allowed, payload, seq, wrote, wire, got, acks>>

locals == <<allowed, payload, seq>>

Init ==
    /\ sq = NewSendQueue(ISS) /\ retx = << >>
    /\ pc = [t \in Threads |-> "idle"]
    /\ allowed = [t \in Threads |-> 0]
    /\ payload = [t \in Threads |-> << >>]
    /\ seq = [t \in Threads |-> ISS]
    /\ wrote = 0 /\ wire = << >> /\ got = << >> /\ acks = << >>

Goto(t, where) == pc' = [pc EXCEPT ![t] = where]

\* send(): write() into the queue, then _flush.
Send ==
    /\ pc["app"] = "idle" /\ wrote < ToWrite
    /\ \E n \in 1 .. ToWrite - wrote :
          LET accepted == Least(n, Room(sq))
          IN  /\ accepted > 0
              /\ sq' = Write(sq, [i \in 1 .. n |-> wrote + i])
              /\ wrote' = wrote + accepted
    /\ Goto("app", "loop")
    /\ UNCHANGED <<retx, locals, wire, got, acks>>

\* _process_ack of a new acknowledgement, up to its _flush.
OnAck ==
    /\ pc["reader"] = "idle" /\ acks # << >>
    /\ acks' = Tail(acks)
    /\ IF seq_gt(Head(acks), sq.una)
       THEN /\ sq' = Acknowledge(sq, Head(acks))
            /\ retx' = RetxAcknowledge(retx, Head(acks))
       ELSE UNCHANGED <<sq, retx>>
    /\ Goto("reader", "loop")
    /\ UNCHANGED <<locals, wrote, wire, got>>

\* The head of _flush's loop: what may be sent next, if anything.
PeekNext(t) ==
    LET room == Least(Window - InFlight(sq), PeerMss)
        data == Peek(sq, sq.nxt, room)
    IN  /\ pc[t] = "loop"
        /\ allowed' = [allowed EXCEPT ![t] = room]
        /\ payload' = [payload EXCEPT ![t] = data]
        /\ Goto(t, IF data = << >> THEN "idle" ELSE "transmit")
        /\ UNCHANGED <<sq, retx, seq, wrote, wire, got, acks>>

\* _transmit up to the wire: snd_nxt is read again.
Transmit(t) ==
    /\ pc[t] = "transmit"
    /\ seq' = [seq EXCEPT ![t] = sq.nxt]
    /\ wire' = Append(wire, [seq |-> sq.nxt, data |-> payload[t]])
    /\ Goto(t, "track")
    /\ UNCHANGED <<sq, retx, allowed, payload, wrote, got, acks>>

Track(t) ==
    /\ pc[t] = "track"
    /\ retx' = RetxAdd(retx, seq[t], {"ACK"}, payload[t])
    /\ Goto(t, "advance")
    /\ UNCHANGED <<sq, locals, wrote, wire, got, acks>>

Advance(t) ==
    /\ pc[t] = "advance"
    /\ sq' = [sq EXCEPT !.nxt = seq_add(@, Len(payload[t]))]
    /\ Goto(t, IF Len(payload[t]) < allowed[t] THEN "idle" ELSE "loop")
    /\ UNCHANGED <<retx, locals, wrote, wire, got, acks>>

\* The peer's receive queue, for segments in order.
PeerReceives ==
    LET seg == Head(wire)
        expected == seq_add(ISS, Len(got))
        fresh == IF seg.seq = expected THEN seg.data ELSE << >>
    IN  /\ wire # << >>
        /\ wire' = Tail(wire)
        /\ got' = got \o fresh
        /\ acks' = Append(acks, seq_add(expected, Len(fresh)))
        /\ UNCHANGED <<sq, retx, pc, locals, wrote>>

Next ==
    \/ Send \/ OnAck \/ PeerReceives
    \/ \E t \in Threads : PeekNext(t) \/ Transmit(t) \/ Track(t) \/ Advance(t)

Spec == Init /\ [][Next]_vars

-----------------------------------------------------------------------------
(* Properties                                                              *)

\* What the peer takes is what was written, whichever thread sends it: "the
\* gap between them is exactly what is in flight" (buffer.py), and the tests
\* compare what is received with what was sent.
TakenAsWritten == got = [i \in 1 .. Len(got) |-> i]

\* A byte counts as in flight only if it has been transmitted: once both
\* threads are out of _flush, the outstanding queue holds what lies between
\* snd_una and snd_nxt and nothing else.
FlightIsOutstanding ==
    (\A t \in Threads : pc[t] = "idle")
        => InFlight(sq) = BytesOutstanding(retx)
=============================================================================
