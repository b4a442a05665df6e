------------------------------ MODULE TCPPair ------------------------------
(***************************************************************************)
(* Two stacks, one TCP connection between them, and the wire in between.   *)
(*                                                                         *)
(* An active endpoint calls tcp_connect; a passive one has called          *)
(* tcp_listen and gets a child connection from an inbound SYN.  Each stack *)
(* hands a segment to the connection it has registered, else to its        *)
(* listener, else answers with an RST (minitcp/stack.py, _handle_tcp).     *)
(*                                                                         *)
(* The wire (minitcp/link/simulated.py) keeps the order of each direction  *)
(* except for MaxFaults faults: a segment lost, duplicated, overtaken, or  *)
(* delayed so long that a timer expires while there is still something on  *)
(* the way or an application has yet to make its next call.                *)
(*                                                                         *)
(* The bytes an application writes are 1, 2, 3, ... so that what the other *)
(* side reads can be compared with it.                                     *)
(***************************************************************************)
EXTENDS Connection

CONSTANTS
    A, B,                 \* the two endpoints
    Active,               \* the endpoints that call tcp_connect
    ISS,                  \* initial sequence number of each endpoint
    ToSend,               \* bytes each application writes
    Closers,              \* endpoints whose application closes by itself
    Readers,              \* endpoints whose application reads
    MaxFaults,            \* faults the wire commits
    FaultsFromStart,      \* FALSE: the wire is reliable during the handshake
    MaxNet,               \* timers and applications wait while this many
                          \* segments are on the way to the other side
    CloseDrained,         \* TRUE: applications close only once all is sent
    MayAbort              \* TRUE: applications may abort or time out

End == {A, B}
Other(p) == IF p = A THEN B ELSE A
Passive == End \ Active

ASSUME PairAssumption ==
    /\ A # B
    /\ Active \subseteq End /\ Active # {}
    /\ ISS \in [End -> SeqNum]
    /\ ToSend \in [End -> Nat]
    /\ Closers \subseteq End /\ Readers \subseteq End
    /\ {MaxFaults, MaxNet} \subseteq Nat
    /\ {FaultsFromStart, CloseDrained, MayAbort} \subseteq BOOLEAN

\* _transmit does not look at what RetransmitQueue.add returns, so a segment
\* that add refuses is sent and never resent.  The capacities leave no room for
\* that: what may be in flight (the send queue, or the widest window if that is
\* narrower) and one partly acknowledged segment before it fit in the queue and
\* in half of the sequence space.  The code's defaults are 65535 bytes of
\* window, 1 << 20 bytes of outstanding payload and 2^32 sequence numbers.
MostInFlight == Least(SendCapacity, Most(MAX_WINDOW_FIELD * 2^WScale, MSS))
LongestPayload == Most(Most(MSS, MIN_PEER_MSS), DEFAULT_PEER_MSS)

ASSUME SpaceAssumption ==
    /\ MostInFlight + LongestPayload <= RetxCapacity + 1
    /\ MostInFlight + 1 < SEQ_HALF /\ LongestPayload < SEQ_HALF

VARIABLES
    conn,                 \* the connection object of each endpoint
    known,                \* whether the stack's _connections holds it
    calling,              \* endpoints whose application is in tcp_connect
    listener,             \* state of the listener of each passive endpoint
    wire,                 \* segments on the way to each endpoint
    faults,               \* faults committed so far
    wrote,                \* bytes each application has written
    got                   \* bytes each application has read

vars == <<conn, known, calling, listener, wire, faults, wrote, got>>

Init ==
    /\ conn = [p \in End |-> NewConnection]
    /\ known = [p \in End |-> FALSE]
    /\ calling = {}
    /\ listener = [p \in End |-> IF p \in Passive THEN "LISTEN" ELSE "NONE"]
    /\ wire = [p \in End |-> << >>]
    /\ faults = 0
    /\ wrote = [p \in End |-> 0]
    /\ got = [p \in End |-> << >>]

-----------------------------------------------------------------------------
(* The stack around a call on p's connection that leaves it as c: what it  *)
(* transmitted goes on the wire, and a child that closed is forgotten (the *)
(* client's on_closed does not forget it).                                 *)
Store(p, c) == conn' = [conn EXCEPT ![p] = [c EXCEPT !.out = << >>]]

Sending(p, segs) == wire' = [wire EXCEPT ![Other(p)] = @ \o segs]

StaysKnown(p, c) == known[p] /\ ~(p \in Passive /\ c.state = "CLOSED")

Call(p, c) ==
    /\ Store(p, c)
    /\ Sending(p, c.out)
    /\ known' = [known EXCEPT ![p] = StaysKnown(p, c)]

MayEmit(p) == Len(wire[Other(p)]) < MaxNet

\* tcp_connect up to its wait
Connect(p) ==
    /\ p \in Active
    /\ conn[p] = NewConnection /\ ~known[p]
    /\ LET c == connect(conn[p], ISS[p])
       IN  Store(p, c) /\ Sending(p, c.out)
    /\ known' = [known EXCEPT ![p] = TRUE]
    /\ calling' = calling \cup {p}
    /\ UNCHANGED <<listener, faults, wrote, got>>

\* tcp_connect returns: the handshake is over, or it has failed and the stack
\* forgets the connection.
CanReturn(p) ==
    p \in calling /\ conn[p].state \notin {"SYN-SENT", "SYN-RECEIVED"}

ConnectReturns(p) ==
    /\ CanReturn(p)
    /\ calling' = calling \ {p}
    /\ known' = [known EXCEPT ![p] = @ /\ conn[p].state # "CLOSED"]
    /\ UNCHANGED <<conn, listener, wire, faults, wrote, got>>

WantsToSend(p) ==
    /\ p \notin calling /\ can_send(conn[p])
    /\ Room(conn[p].sq) > 0 /\ wrote[p] < ToSend[p]
CanSend(p) == WantsToSend(p) /\ MayEmit(p)

Send(p) ==
    /\ CanSend(p)
    /\ \E n \in 1 .. ToSend[p] - wrote[p] :
          LET data == [i \in 1 .. n |-> wrote[p] + i]
          IN  /\ Call(p, send(conn[p], data))
              /\ wrote' = [wrote EXCEPT ![p] = @ + Least(n, Room(conn[p].sq))]
    /\ UNCHANGED <<calling, listener, faults, got>>

\* The application reads all that is ready.
HasToRead(p) == p \in Readers \ calling /\ conn[p].rq.buf # << >>
CanRecv(p) == HasToRead(p) /\ MayEmit(p)

Recv(p) ==
    LET c == conn[p]
    IN  /\ CanRecv(p)
        /\ Call(p, recv(c, Len(c.rq.buf)))
        /\ got' = [got EXCEPT ![p] = @ \o ReadChunk(c.rq, Len(c.rq.buf))]
        /\ UNCHANGED <<calling, listener, faults, wrote>>

\* An application closes when it has written all it has to write: by itself,
\* or once it has read to the end of the peer's stream.
WantsToClose(p) ==
    /\ p \notin calling /\ can_send(conn[p])
    /\ wrote[p] = ToSend[p]
    /\ p \in Closers \/ (peer_closed(conn[p]) /\ conn[p].rq.buf = << >>)
    /\ CloseDrained => Unsent(conn[p].sq) = 0

CanClose(p) == WantsToClose(p) /\ MayEmit(p)

Close(p) ==
    /\ CanClose(p)
    /\ Call(p, close(conn[p]))
    /\ UNCHANGED <<calling, listener, faults, wrote, got>>

Abort(p) ==
    /\ MayAbort
    /\ p \notin calling /\ conn[p].state # "CLOSED"
    /\ Call(p, abort(conn[p]))
    /\ UNCHANGED <<calling, listener, faults, wrote, got>>

\* tcp_connect gives up waiting: abort() and _forget().
ConnectTimeout(p) ==
    /\ MayAbort
    /\ p \in calling
    /\ conn[p].state \in {"SYN-SENT", "SYN-RECEIVED"}
    /\ LET c == abort(conn[p])
       IN  Store(p, c) /\ Sending(p, c.out)
    /\ known' = [known EXCEPT ![p] = FALSE]
    /\ calling' = calling \ {p}
    /\ UNCHANGED <<listener, faults, wrote, got>>

-----------------------------------------------------------------------------
(* Arrival: _handle_tcp.  rest is what stays on the wire to p.             *)
Replying(p, rest, segs) ==
    wire' = [wire EXCEPT ![p] = rest, ![Other(p)] = @ \o segs]

ToConnection(p, seg, rest) ==
    LET c == on_segment(conn[p], seg)
    IN  /\ known[p]
        /\ Store(p, c)
        /\ Replying(p, rest, c.out)
        /\ known' = [known EXCEPT ![p] = StaysKnown(p, c)]
        /\ UNCHANGED <<listener, got>>

\* The child is registered; the application can take it at once.
_enqueue_accept(p) == known' = [known EXCEPT ![p] = TRUE]

\* A listener makes a child for a SYN.  An RST tears the listener down, and a
\* torn-down listener answers to address 0.0.0.0, which reaches no one.
ToListener(p, seg, rest) ==
    /\ ~known[p] /\ p \in Passive
    /\ IF listener[p] = "LISTEN" /\ "SYN" \in seg.flags
       THEN LET c == _begin_passive_open(NewConnection, seg, ISS[p])
            IN  /\ Store(p, c)
                /\ Replying(p, rest, c.out)
                /\ _enqueue_accept(p)
                /\ got' = [got EXCEPT ![p] = << >>]
                /\ UNCHANGED listener
       ELSE /\ listener' = [listener EXCEPT ![p] =
                               IF "RST" \in seg.flags THEN "CLOSED" ELSE @]
            /\ Replying(p, rest, << >>)
            /\ UNCHANGED <<conn, known, got>>

\* _send_reset
ToNobody(p, seg, rest) ==
    /\ ~known[p] /\ p \in Active
    /\ Replying(p, rest, IF "RST" \in seg.flags THEN << >> ELSE <<RstSegment>>)
    /\ UNCHANGED <<conn, known, listener, got>>

Dispatch(p, seg, rest) ==
    /\ \/ ToConnection(p, seg, rest)
       \/ ToListener(p, seg, rest)
       \/ ToNobody(p, seg, rest)
    /\ UNCHANGED <<calling, wrote>>

Deliver(p) ==
    /\ wire[p] # << >>
    /\ Dispatch(p, Head(wire[p]), Tail(wire[p]))
    /\ UNCHANGED faults

MayFail ==
    /\ faults < MaxFaults
    /\ FaultsFromStart \/ \A p \in End : conn[p].state \notin {"SYN-SENT", "SYN-RECEIVED"}
    /\ faults' = faults + 1

Lose(p) ==
    /\ wire[p] # << >>
    /\ MayFail
    /\ wire' = [wire EXCEPT ![p] = Tail(@)]
    /\ UNCHANGED <<conn, known, calling, listener, wrote, got>>

Duplicate(p) ==
    /\ wire[p] # << >>
    /\ MayFail
    /\ Dispatch(p, Head(wire[p]), wire[p])

Overtake(p) ==
    /\ Len(wire[p]) >= 2
    /\ MayFail
    /\ Dispatch(p, wire[p][2], <<Head(wire[p])>> \o SubSeq(wire[p], 3, Len(wire[p])))

-----------------------------------------------------------------------------
\* Nothing is on the wire and no application has anything left to do for now.
Quiet ==
    \A p \in End :
        /\ wire[p] = << >>
        /\ ~CanReturn(p)
        /\ ~HasToRead(p)
        /\ ~WantsToSend(p)
        /\ ~WantsToClose(p)

\* The stack ticks the connections it knows.
Tick(p) ==
    /\ known[p]
    /\ MayEmit(p)
    /\ \E due \in SUBSET Armed(conn[p]) \ {{}} :
          /\ Call(p, on_tick(conn[p], due))
          /\ IF Quiet \/ due = {"dack"} THEN UNCHANGED faults ELSE MayFail
    /\ UNCHANGED <<calling, listener, wrote, got>>

Next ==
    \E p \in End :
        \/ Connect(p) \/ ConnectReturns(p) \/ Send(p) \/ Recv(p) \/ Close(p)
        \/ Abort(p) \/ ConnectTimeout(p)
        \/ Deliver(p) \/ Lose(p) \/ Duplicate(p) \/ Overtake(p)
        \/ Tick(p)

Spec == Init /\ [][Next]_vars

(* The reader thread of each stack keeps delivering and ticking, and the   *)
(* applications keep making the calls they have to make; a timer is sure   *)
(* to expire only once all else is quiet.  This is weak fairness of each   *)
(* action; where an action is costly to evaluate, WF_vars is written out   *)
(* with the action's enabling condition.                                   *)
CanDeliver(p) == wire[p] # << >>
CanTick(p) == known[p] /\ MayEmit(p) /\ Quiet /\ Armed(conn[p]) # {}

FairSpec ==
    /\ Spec
    /\ \A p \in End :
          /\ WF_vars(Connect(p))
          /\ WF_vars(ConnectReturns(p))
          /\ []<>~CanDeliver(p) \/ []<><<Deliver(p)>>_vars
          /\ []<>~CanTick(p) \/ []<><<Tick(p)>>_vars
          /\ []<>~CanSend(p) \/ []<><<Send(p)>>_vars
          /\ []<>~CanRecv(p) \/ []<><<Recv(p)>>_vars
          /\ []<>~CanClose(p) \/ []<><<Close(p)>>_vars

-----------------------------------------------------------------------------
(* Properties                                                              *)

Segment(seg) ==
    /\ seg.seq \in SeqNum /\ seg.ack \in SeqNum
    /\ seg.flags \subseteq {"SYN", "ACK", "FIN", "RST"}
    /\ seg.win \in 0 .. MAX_WINDOW_FIELD
    /\ seg.data \in Seq(Nat)
    /\ seg.opt \in BOOLEAN

\* Every variable holds a value of its kind; in particular cwnd never leaves
\* the range Reno's caps give it.
TypeOK ==
    /\ \A p \in End :
          LET c == conn[p]
          IN  /\ c.state \in AllStates \ {"LISTEN"}
              /\ {c.iss, c.sq.una, c.sq.nxt, c.rq.nxt} \subseteq SeqNum
              /\ c.fin_seq \in SeqNum \cup {NoFin}
              /\ c.reno.cwnd \in MSS .. (MAX_CWND + 5 * MSS)
              /\ c.out = << >>
              /\ \A i \in 1 .. Len(wire[p]) : Segment(wire[p][i])
    /\ listener \in [End -> {"LISTEN", "CLOSED", "NONE"}]
    /\ known \in [End -> BOOLEAN] /\ calling \subseteq Active
    /\ wrote \in [End -> Nat]

\* snd_una never passes what the peer has really received in order: bytes are
\* dropped from the send queue only once they are safe.
AckedWasReceived ==
    \A p \in End :
        is_synchronised(conn[p]) /\ is_synchronised(conn[Other(p)])
            => seq_le(conn[p].sq.una, conn[Other(p)].rq.nxt)

\* Entry e covers the sequence number k past una, and a byte there is the byte
\* the send queue still holds.
Covers(e, sq, k) ==
    LET seq == seq_add(sq.una, k)
        i == seq_diff(seq, e.seq) + 1
    IN  /\ seq_between(seq, e.seq, seq_end(e))
        /\ i \in 1 .. Len(e.data) => /\ k < Len(sq.buf)
                                     /\ e.data[i] = sq.buf[k + 1]

\* Everything in flight can be retransmitted: snd_nxt never falls behind
\* snd_una, the outstanding queue covers what lies between them with the bytes
\* the send queue holds there, and the retransmission timer is running.
OutstandingCovered ==
    \A p \in End :
        LET c == conn[p]
        IN  c.state \notin {"CLOSED", "TIME-WAIT"} =>
              /\ seq_le(c.sq.una, c.sq.nxt)
              /\ \A k \in 0 .. InFlight(c.sq) - 1 :
                    \E i \in 1 .. Len(c.retx) : Covers(c.retx[i], c.sq, k)
              /\ c.rtx = (c.retx # << >>)

\* Data waiting to be sent or acknowledged always has a timer behind it, so a
\* lost window update or acknowledgement cannot stop the connection.
NeverStuck ==
    \A p \in End :
        LET c == conn[p]
        IN  c.state \notin {"CLOSED", "TIME-WAIT"} /\ c.sq.buf # << >>
                => c.rtx \/ c.persist

\* An endpoint believes the peer has finished only once it holds every byte
\* the peer wrote (_handle_fin must not jump a gap).
EndOfStream ==
    \A p \in End :
        peer_closed(conn[p])
            => Len(got[p]) + Len(conn[p].rq.buf) = wrote[Other(p)]

\* FIN-WAIT-2, and TIME-WAIT, mean that the peer has consumed our FIN.
FinSeenByPeer ==
    \A p \in End :
        conn[p].state \in {"FIN-WAIT-2", "TIME-WAIT"}
            => peer_closed(conn[Other(p)]) \/ conn[Other(p)].state = "CLOSED"

\* Nobody closes the listening socket, so it goes on listening: "the listener
\* stays in LISTEN so it can accept more" (_handle_segment_in_listen).
ListenerStays == \A p \in Passive : listener[p] = "LISTEN"

\* Whatever was written is read in the end.
Delivered == <>[](\A p \in End : Len(got[p]) = ToSend[Other(p)])

\* Both connections are closed in the end.
BothClosed == <>[](\A p \in End : conn[p].state = "CLOSED")

\* A handshake started by either side or by both completes (README: "Three-way
\* handshake, simultaneous open, passive open").
Opens == <>(\A p \in End : conn[p].state = "ESTABLISHED")

\* A connection attempt never stays half open: the SYN+ACK is answered, or
\* refused, or given up after MAX_RETRANSMITS.
HalfOpenEnds ==
    \A p \in End : conn[p].state = "SYN-RECEIVED" ~> conn[p].state # "SYN-RECEIVED"

\* A peer that stays shut is probed for as long as it answers, and the
\* connection is not given up (_on_persist_timeout: "Back off, but never give
\* up").  Stated for a perfect wire and applications that do not close.
SlowReaderIsKept == \A p \in End : known[p] => conn[p].state # "CLOSED"

\* Fast recovery is left again, by the acknowledgement it waits for or by a
\* timeout: a connection does not stay in it until it dies.
RecoveryEnds ==
    \A p \in End : conn[p].reno.state = "fast-recovery"
                        ~> conn[p].reno.state # "fast-recovery"

\* A partial acknowledgement, one that uncovers another loss, does not end the
\* recovery: "Another segment was lost; retransmit it and stay in recovery"
\* (congestion.py).  The peer holding bytes beyond a gap tells such a one.
PartialAckStaysInRecovery ==
    [][\A p \in End :
          /\ conn[p].reno.state = "fast-recovery"
          /\ conn'[p].sq.una # conn[p].sq.una
          /\ conn'[p].sq.una = conn[Other(p)].rq.nxt
          /\ conn[Other(p)].rq.ooo # << >>
          => conn'[p].reno.state = "fast-recovery"]_vars

\* The receive queue "keeps bytes until the application reads them"
\* (buffer.py): no step empties it but a read.
UnreadIsKept ==
    [][\A p \in End :
          conn[p].rq.buf # << >> /\ conn'[p].rq.buf = << >> => got'[p] # got[p]]_vars

\* Once both sides are open they agree on the shift of the window field.
WindowScaleAgreed ==
    (\A p \in End : conn[p].state = "ESTABLISHED")
        => \A p \in End : conn[p].snd_wscale = WScale

\* No flush leaves more in flight than min(cwnd, rwnd) (congestion.py).
WithinBothWindows ==
    [][\A p \in End :
          LET c == conn'[p]
          IN  /\ conn[p].state = "ESTABLISHED" /\ c.state = "ESTABLISHED"
              /\ c.sq.nxt # conn[p].sq.nxt
              /\ c.peer_window > 0
              => InFlight(c.sq) <= Least(c.reno.cwnd, c.peer_window)]_vars

-----------------------------------------------------------------------------
(* The connection seen by the applications: ByteStream.                    *)
Reading(p) ==
    CASE conn[p].state = "CLOSED" /\ conn[p] # NewConnection -> "dead"
      [] peer_closed(conn[p]) /\ conn[p].rq.buf = << >>      -> "eof"
      [] OTHER                                               -> "open"

Stream == INSTANCE ByteStream WITH
    Peer    <- [p \in End |-> Other(p)],
    closed  <- [p \in End |-> conn[p].fin_seq # NoFin],
    reading <- [p \in End |-> Reading(p)]

\* The pair of connections implements the byte stream that the applications
\* are promised.
ImplementsByteStream == Stream!Spec
=============================================================================
