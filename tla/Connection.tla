----------------------------- MODULE Connection -----------------------------
(***************************************************************************)
(* TCPConnection (minitcp/net/tcp/connection.py) as operators: each entry  *)
(* point of the class is a function from the connection before the call to *)
(* the connection after it.  The connection is a record                    *)
(*                                                                         *)
(*   state          one of the eleven TCP states                           *)
(*   iss            our initial sequence number                            *)
(*   sq, rq, retx, reno                                                    *)
(*                  send_queue, recv_queue, retx_queue, reno               *)
(*   peer_window, snd_wscale, peer_mss                                     *)
(*   rtx, dack, persist, tw                                                *)
(*                  whether the retransmission, delayed-acknowledgement,   *)
(*                  persist and TIME-WAIT timers are armed (_..._at is not *)
(*                  None); the moment they expire is left open             *)
(*   fin_seq        _fin_seq, or NoFin                                     *)
(*   out            the segments the call hands to transmit(), in order    *)
(*                                                                         *)
(* A segment is [seq, ack, flags, win, data, opt]; opt tells whether the   *)
(* SYN options are present.  PSH is left out: nothing reads it.  No field  *)
(* of an RST is read by its receiver, so every RST is the same segment.    *)
(*                                                                         *)
(* X_Slip next to X is X with a slip that a property must notice.          *)
(***************************************************************************)
EXTENDS ReceiveQueue, SendQueue, Reno

CONSTANTS
    DEFAULT_PEER_MSS,     \* 536, assumed of a peer that sends no option
    MIN_PEER_MSS,         \* 64, the floor of _apply_peer_options
    MAX_WINDOW_FIELD,     \* 0xFFFF
    WScale,               \* window_scale (rcv_wscale)
    DelayedAck            \* delayed_ack

ASSUME ConnectionAssumption ==
    /\ {DEFAULT_PEER_MSS, MIN_PEER_MSS, MAX_WINDOW_FIELD} \subseteq Nat \ {0}
    /\ WScale \in 0 .. 14 /\ 2^WScale \in Nat \ {0}
    /\ DelayedAck \in BOOLEAN

NoFin == -1

Synchronised == {"ESTABLISHED", "FIN-WAIT-1", "FIN-WAIT-2", "CLOSE-WAIT",
                 "CLOSING", "LAST-ACK", "TIME-WAIT"}
AllStates == Synchronised \cup {"CLOSED", "LISTEN", "SYN-SENT", "SYN-RECEIVED"}

is_synchronised(c) == c.state \in Synchronised
can_send(c) == c.state \in {"ESTABLISHED", "CLOSE-WAIT"}
peer_closed(c) ==
    c.state \in {"CLOSE-WAIT", "CLOSING", "LAST-ACK", "TIME-WAIT"}

NewConnection ==
    [state |-> "CLOSED", iss |-> 0,
     sq |-> NewSendQueue(0), rq |-> NewReceiveQueue(0),
     retx |-> << >>, reno |-> NewReno,
     peer_window |-> MAX_WINDOW_FIELD, snd_wscale |-> 0,
     peer_mss |-> DEFAULT_PEER_MSS,
     rtx |-> FALSE, dack |-> FALSE, persist |-> FALSE, tw |-> FALSE,
     fin_seq |-> NoFin, out |-> << >>]

RstSegment ==
    [seq |-> 0, ack |-> 0, flags |-> {"RST"}, win |-> 0, data |-> << >>,
     opt |-> FALSE]

-----------------------------------------------------------------------------
(* Outbound transmission                                                   *)

_advertised_window(c) == Least(RecvWindow(c.rq) \div 2^WScale, MAX_WINDOW_FIELD)

_arm_retransmit_timer_Never(c) == [c EXCEPT !.rtx = FALSE]

_arm_retransmit_timer(c) == [c EXCEPT !.rtx = c.retx # << >>]

\* _transmit with track=False
Emit(c, seq, flags, data, opt) ==
    [c EXCEPT !.out = Append(@, [seq |-> seq, ack |-> c.rq.nxt, flags |-> flags,
                                 win |-> _advertised_window(c), data |-> data,
                                 opt |-> opt])]

\* _transmit of a segment that occupies sequence space
EmitTracked(c, seq, flags, data, opt) ==
    _arm_retransmit_timer(
        [Emit(c, seq, flags, data, opt) EXCEPT
            !.retx = RetxAdd(@, seq, flags, data)])

_send_ack(c) ==
    LET c1 == [c EXCEPT !.dack = FALSE]
    IN  IF c.state \in {"CLOSED", "LISTEN"} THEN c1
        ELSE Emit(c1, c.sq.nxt, {"ACK"}, << >>, FALSE)

_send_fin(c) ==
    [EmitTracked(c, c.sq.nxt, {"ACK", "FIN"}, << >>, FALSE) EXCEPT
        !.fin_seq = c.sq.nxt,
        !.sq.nxt = seq_add(c.sq.nxt, 1)]

EmitRst(c) == [c EXCEPT !.out = Append(@, RstSegment)]

_reject(c, seg) == IF "RST" \in seg.flags THEN c ELSE EmitRst(c)

\* Send data as new bytes from snd_nxt on.
SendNew(c, data) ==
    [EmitTracked(c, c.sq.nxt, {"ACK"}, data, FALSE) EXCEPT
        !.sq.nxt = seq_add(c.sq.nxt, Len(data))]

\* What the next turn of _flush's loop would send: nothing ends the loop.
NextPayload(c) ==
    LET room == effective_window(c.reno, c.peer_window) - InFlight(c.sq)
    IN  Peek(c.sq, c.sq.nxt, Least(room, c.peer_mss))

_arm_persist_timer(c) ==
    [c EXCEPT !.persist = Unsent(c.sq) > 0 \/ InFlight(c.sq) > 0]

SendWhatFits(c) ==
    LET after[k \in 0 .. Len(c.sq.buf)] ==
            IF k = 0 THEN c
            ELSE LET before == after[k - 1]
                     payload == NextPayload(before)
                 IN  IF payload = << >> THEN before ELSE SendNew(before, payload)
    IN  after[Len(c.sq.buf)]

_flush_NoPersist(c) ==
    IF ~is_synchronised(c) \/ c.peer_window <= 0 THEN c
    ELSE SendWhatFits([c EXCEPT !.persist = FALSE])

_flush(c) ==
    IF ~is_synchronised(c) THEN c
    ELSE IF c.peer_window <= 0 THEN _arm_persist_timer(c)
    ELSE SendWhatFits([c EXCEPT !.persist = FALSE])

\* Resend the head of the outstanding queue.
ResendOldest(c) ==
    LET oldest == c.retx[1]
    IN  [Emit(c, oldest.seq, oldest.flags, oldest.data, FALSE) EXCEPT
            !.retx = MarkOldestRetransmitted(@)]

_retransmit_oldest(c, fast) ==
    IF c.retx = << >> THEN c
    ELSE IF fast THEN ResendOldest(c)
    ELSE [ResendOldest(c) EXCEPT !.rtx = TRUE]

-----------------------------------------------------------------------------
(* Teardown and TIME-WAIT                                                  *)

_teardown(c) ==
    [c EXCEPT !.state = "CLOSED", !.retx = << >>,
              !.sq = ClearSend(@), !.rq = ClearReceive(@),
              !.rtx = FALSE, !.dack = FALSE, !.tw = FALSE]

_handle_rst(c) == _teardown(c)

_enter_time_wait(c) ==
    [c EXCEPT !.state = "TIME-WAIT", !.tw = TRUE, !.retx = << >>, !.rtx = FALSE]

-----------------------------------------------------------------------------
(* Handshake                                                               *)

\* Both ends are configured alike, so the options a SYN carries are MSS and,
\* unless it is zero, WScale.
_apply_peer_options(c, opt) ==
    IF ~opt THEN c
    ELSE [c EXCEPT !.peer_mss = Most(MSS, MIN_PEER_MSS),
                   !.snd_wscale = IF WScale # 0 THEN Least(WScale, 14) ELSE @]

connect(c, iss) ==
    LET c1 == [c EXCEPT !.iss = iss, !.sq = NewSendQueue(iss),
                        !.rq = NewReceiveQueue(0), !.reno = NewReno]
    IN  [EmitTracked(c1, iss, {"SYN"}, << >>, TRUE) EXCEPT
            !.sq.nxt = seq_add(iss, 1), !.state = "SYN-SENT"]

_begin_passive_open_Untracked(c, seg, iss) ==
    LET c1 == [c EXCEPT !.iss = iss, !.sq = NewSendQueue(iss),
                        !.rq = NewReceiveQueue(seg.seq), !.reno = NewReno,
                        !.peer_window = seg.win]
        c2 == _apply_peer_options(c1, seg.opt)
    IN  [Emit(c2, iss, {"SYN", "ACK"}, << >>, TRUE) EXCEPT
            !.sq.nxt = seq_add(iss, 1), !.state = "SYN-RECEIVED"]

_begin_passive_open(c, seg, iss) ==
    LET c1 == [c EXCEPT !.iss = iss, !.sq = NewSendQueue(iss),
                        !.rq = NewReceiveQueue(seg.seq), !.reno = NewReno,
                        !.peer_window = seg.win]
        c2 == _apply_peer_options(c1, seg.opt)
    IN  [EmitTracked(c2, iss, {"SYN", "ACK"}, << >>, TRUE) EXCEPT
            !.sq.nxt = seq_add(iss, 1), !.state = "SYN-RECEIVED"]

_handle_simultaneous_open(c, seg) ==
    LET c1 == _apply_peer_options(
                 [c EXCEPT !.rq = NewReceiveQueue(seg.seq)], seg.opt)
        c2 == [c1 EXCEPT !.peer_window = seg.win]
    IN  [EmitTracked(c2, c.iss, {"SYN", "ACK"}, << >>, TRUE) EXCEPT
            !.state = "SYN-RECEIVED"]

-----------------------------------------------------------------------------
(* Acknowledgements                                                        *)

_update_peer_window(c, seg) ==
    [c EXCEPT !.peer_window = seg.win * 2^c.snd_wscale]

\* An acknowledgement that advances snd_una.
NewAck(c, seg) ==
    LET acked == seq_diff(seg.ack, c.sq.una)
        c1 == [c EXCEPT !.sq = Acknowledge(@, seg.ack),
                        !.retx = RetxAcknowledge(@, seg.ack),
                        !.reno = on_ack(@, acked, seg.ack)]
    IN  _flush(_arm_retransmit_timer(_update_peer_window(c1, seg)))

\* One that does not: a duplicate, or a window update.
OldAck(c, seg) ==
    LET c1 == _update_peer_window(c, seg)
        reopened == c.peer_window <= 0 /\ c1.peer_window > 0
        duplicate == seg.ack = c.sq.una /\ InFlight(c.sq) > 0
        fast == duplicate /\ IsThirdDuplicate(c.reno)
        c2 == IF duplicate
              THEN [c1 EXCEPT !.reno = on_duplicate_ack(@, seg.ack)] ELSE c1
        c3 == IF fast THEN _retransmit_oldest(c2, TRUE)
              ELSE IF reopened THEN _retransmit_oldest(c2, FALSE)
              ELSE c2
    IN  _flush(c3)

_process_ack(c, seg) ==
    IF seq_gt(seg.ack, c.sq.una) THEN NewAck(c, seg) ELSE OldAck(c, seg)

\* The handshake is answered only by an ack of our SYN.
AcksOurSyn(c, seg) == seq_ge(seg.ack, seq_add(c.iss, 1))

_handle_syn_ack(c, seg) ==
    IF ~AcksOurSyn(c, seg) THEN _reject(c, seg)
    ELSE LET c1 == _apply_peer_options(
                      [c EXCEPT !.rq = NewReceiveQueue(seg.seq)], seg.opt)
             c2 == _process_ack(_update_peer_window(c1, seg), seg)
         IN  [_send_ack(c2) EXCEPT !.state = "ESTABLISHED"]

_handle_final_ack_of_handshake(c, seg) ==
    IF ~AcksOurSyn(c, seg) THEN c
    ELSE [_process_ack(c, seg) EXCEPT !.state = "ESTABLISHED"]

_maybe_advance_after_ack_NotClosing(c, seg) ==
    IF \/ c.fin_seq = NoFin \/ "ACK" \notin seg.flags
       \/ ~seq_ge(seg.ack, seq_add(c.fin_seq, 1))
    THEN c
    ELSE CASE c.state = "FIN-WAIT-1" -> [c EXCEPT !.state = "FIN-WAIT-2"]
           [] c.state = "LAST-ACK"   -> _teardown(c)
           [] OTHER                  -> c

_maybe_advance_after_ack(c, seg) ==
    IF \/ c.fin_seq = NoFin \/ "ACK" \notin seg.flags
       \/ ~seq_ge(seg.ack, seq_add(c.fin_seq, 1))
    THEN c
    ELSE CASE c.state = "FIN-WAIT-1" -> [c EXCEPT !.state = "FIN-WAIT-2"]
           [] c.state = "CLOSING"    -> _enter_time_wait(c)
           [] c.state = "LAST-ACK"   -> _teardown(c)
           [] OTHER                  -> c

-----------------------------------------------------------------------------
(* Data and FIN                                                            *)

_handle_data(c, seg) ==
    LET c1 == [c EXCEPT !.rq = Insert(@, seg.seq, seg.data)]
        newly == c1.rq.nxt # c.rq.nxt
    IN  IF DelayedAck /\ newly THEN [c1 EXCEPT !.dack = TRUE] ELSE _send_ack(c1)

OurFinAcked_OnceSent(c) == c.fin_seq # NoFin

OurFinAcked(c) ==
    c.fin_seq # NoFin /\ seq_ge(c.sq.una, seq_add(c.fin_seq, 1))

\* The peer's FIN arrives with nothing missing before it.
ConsumeFin(c) ==
    LET c1 == _send_ack([c EXCEPT !.rq.nxt = seq_add(@, 1)])
    IN  CASE c.state = "ESTABLISHED" -> [c1 EXCEPT !.state = "CLOSE-WAIT"]
          [] c.state = "FIN-WAIT-1" /\ ~OurFinAcked(c) ->
                [c1 EXCEPT !.state = "CLOSING"]
          [] c.state = "FIN-WAIT-1" /\ OurFinAcked(c) -> _enter_time_wait(c1)
          [] c.state \in {"FIN-WAIT-2", "CLOSING"} -> _enter_time_wait(c1)
          [] OTHER -> c1

_handle_fin_JumpsGap(c, seg) ==
    LET fin_seq == seq_add(seg.seq, Len(seg.data))
    IN  IF seq_lt(fin_seq, c.rq.nxt) THEN _send_ack(c) ELSE ConsumeFin(c)

\* Too early or already consumed, it is only acknowledged.
_handle_fin(c, seg) ==
    LET fin_seq == seq_add(seg.seq, Len(seg.data))
    IN  IF seq_gt(fin_seq, c.rq.nxt) \/ seq_lt(fin_seq, c.rq.nxt)
        THEN _send_ack(c) ELSE ConsumeFin(c)

-----------------------------------------------------------------------------
(* on_segment                                                              *)

_acceptable(c, seg) ==
    IF seq_len(seg) = 0
    THEN /\ seq_ge(seg.seq, c.rq.nxt)
         /\ seq_lt(seg.seq, seq_add(c.rq.nxt, Capacity))
    ELSE Overlaps(c.rq, seg.seq, seq_len(seg))

\* A segment without SYN or RST for a synchronised connection.
OnSynchronised(c, seg) ==
    IF ~_acceptable(c, seg) THEN _send_ack(c)
    ELSE LET c1 == IF "ACK" \in seg.flags THEN _process_ack(c, seg) ELSE c
             c2 == _maybe_advance_after_ack(c1, seg)
             c3 == IF seg.data # << >> THEN _handle_data(c2, seg) ELSE c2
         IN  IF "FIN" \in seg.flags THEN _handle_fin(c3, seg) ELSE c3

OnSyn(c, seg) ==
    CASE c.state = "SYN-SENT" /\ "ACK" \in seg.flags -> _handle_syn_ack(c, seg)
      [] c.state = "SYN-SENT" /\ "ACK" \notin seg.flags ->
            _handle_simultaneous_open(c, seg)
      [] c.state = "SYN-RECEIVED" -> _retransmit_oldest(c, FALSE)
      [] OTHER -> _reject(c, seg)

\* on_segment of a connection that is not a listener
on_segment(c, seg) ==
    CASE c.state = "CLOSED" -> _reject(c, seg)
      [] c.state # "CLOSED" /\ "RST" \in seg.flags -> _handle_rst(c)
      [] c.state # "CLOSED" /\ "RST" \notin seg.flags /\ "SYN" \in seg.flags ->
            OnSyn(c, seg)
      [] OTHER ->
            CASE c.state = "SYN-SENT" -> c
              [] c.state = "SYN-RECEIVED" ->
                    IF "ACK" \in seg.flags
                    THEN _handle_final_ack_of_handshake(c, seg) ELSE c
              [] OTHER -> OnSynchronised(c, seg)

-----------------------------------------------------------------------------
(* The application's calls                                                 *)

send(c, data) == _flush([c EXCEPT !.sq = Write(@, data)])

recv(c, max_bytes) ==
    LET c1 == [c EXCEPT !.rq = AfterRead(@, max_bytes)]
    IN  IF c.state \in {"ESTABLISHED", "FIN-WAIT-1", "FIN-WAIT-2"}
        THEN _send_ack(c1) ELSE c1

abort(c) ==
    _teardown(IF c.state \in {"CLOSED", "LISTEN"} THEN c ELSE EmitRst(c))

close(c) ==
    CASE c.state = "ESTABLISHED" -> [_send_fin(c) EXCEPT !.state = "FIN-WAIT-1"]
      [] c.state = "CLOSE-WAIT"  -> [_send_fin(c) EXCEPT !.state = "LAST-ACK"]
      [] c.state \in {"SYN-SENT", "SYN-RECEIVED"} -> abort(c)
      [] c.state \in {"FIN-WAIT-1", "FIN-WAIT-2", "CLOSING", "LAST-ACK",
                      "TIME-WAIT"} -> c
      [] c.state \in {"CLOSED", "LISTEN"} -> [c EXCEPT !.state = "CLOSED"]

-----------------------------------------------------------------------------
(* on_tick: the timers that are due, in the order the code tests them      *)

_on_retransmit_timeout(c) ==
    IF c.retx = << >> THEN [c EXCEPT !.rtx = FALSE]
    ELSE IF c.retx[1].retransmits >= MAX_RETRANSMITS THEN _teardown(c)
    ELSE [ResendOldest(c) EXCEPT !.reno = on_timeout(@), !.rtx = TRUE]

\* One byte of new data, when nothing is outstanding to resend.
Probe(c) ==
    IF c.retx # << >> THEN ResendOldest(c)
    ELSE LET payload == Peek(c.sq, c.sq.nxt, 1)
         IN  IF payload = << >> THEN c ELSE SendNew(c, payload)

_on_persist_timeout(c) ==
    IF c.peer_window > 0 THEN _flush([c EXCEPT !.persist = FALSE])
    ELSE IF ~is_synchronised(c) THEN [c EXCEPT !.persist = FALSE]
    ELSE [Probe(c) EXCEPT !.persist = TRUE]

\* The timers that are armed.
Armed(c) ==
    {t \in {"dack", "rtx", "persist", "tw"} :
        CASE t = "dack" -> c.dack
          [] t = "rtx" -> c.rtx
          [] t = "persist" -> c.persist
          [] t = "tw" -> c.tw /\ c.state = "TIME-WAIT"}

\* due: the timers that have expired.  A timer that an earlier one disarms is
\* no longer due when its turn comes.
on_tick(c, due) ==
    LET c1 == IF "dack" \in due /\ c.dack THEN _send_ack(c) ELSE c
        c2 == IF "rtx" \in due /\ c1.rtx THEN _on_retransmit_timeout(c1) ELSE c1
        c3 == IF "persist" \in due /\ c2.persist
              THEN _on_persist_timeout(c2) ELSE c2
    IN  IF "tw" \in due /\ c3.tw /\ c3.state = "TIME-WAIT"
        THEN _teardown(c3) ELSE c3
=============================================================================
