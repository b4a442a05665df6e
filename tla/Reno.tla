-------------------------------- MODULE Reno --------------------------------
(***************************************************************************)
(* Reno congestion control (minitcp/net/tcp/congestion.py), as operators   *)
(* on a record [cwnd, ssthresh, state, dups, recover].                     *)
(*                                                                         *)
(* X_Slip next to X is X with a slip that a property must notice.          *)
(***************************************************************************)
EXTENDS SeqNo, Bytes

CONSTANTS
    MSS,
    INITIAL_WINDOW_CAP,
    MAX_CWND

ASSUME RenoAssumption ==
    {MSS, INITIAL_WINDOW_CAP, MAX_CWND} \subseteq Nat \ {0}

NewReno ==
    [cwnd     |-> Least(10 * MSS, Most(2 * MSS, INITIAL_WINDOW_CAP)),
     ssthresh |-> MAX_CWND,
     state    |-> "slow-start",
     dups     |-> 0,
     recover  |-> 0]

LeaveRecovery_Stays(reno) ==
    [reno EXCEPT !.cwnd = Most(reno.ssthresh, MSS), !.dups = 0]

LeaveRecovery(reno) ==
    [reno EXCEPT !.cwnd = Most(reno.ssthresh, MSS),
                 !.state = "congestion-avoidance",
                 !.dups = 0]

\* A partial acknowledgement during recovery.
Deflate(reno, acked) ==
    [reno EXCEPT !.cwnd = Most(reno.ssthresh, @ - acked) + acked]

GrowExponentially(reno, acked) ==
    LET cwnd == Least(reno.cwnd + acked, MAX_CWND)
    IN  [reno EXCEPT !.cwnd = cwnd,
                     !.dups = 0,
                     !.state = IF cwnd >= reno.ssthresh
                               THEN "congestion-avoidance" ELSE @]

GrowLinearly(reno, acked) ==
    [reno EXCEPT !.cwnd =
                    Least(@ + Most((MSS * acked) \div Most(@, 1), 1), MAX_CWND),
                 !.dups = 0]

on_ack(reno, acked, ack) ==
    CASE reno.state = "fast-recovery" /\ seq_ge(ack, reno.recover) ->
            LeaveRecovery(reno)
      [] reno.state = "fast-recovery" /\ ~seq_ge(ack, reno.recover) ->
            Deflate(reno, acked)
      [] reno.state = "slow-start" -> GrowExponentially(reno, acked)
      [] reno.state = "congestion-avoidance" -> GrowLinearly(reno, acked)

\* Whether this duplicate is the third, the one that asks for a retransmission.
IsThirdDuplicate(reno) == reno.state # "fast-recovery" /\ reno.dups = 2

Halved(reno) == Most(reno.cwnd \div 2, 2 * MSS)

on_duplicate_ack(reno, ack) ==
    IF reno.state = "fast-recovery"
    THEN [reno EXCEPT !.cwnd = Least(@ + MSS, MAX_CWND)]
    ELSE IF IsThirdDuplicate(reno)
    THEN [cwnd |-> Halved(reno) + 3 * MSS, ssthresh |-> Halved(reno),
          state |-> "fast-recovery", dups |-> 3, recover |-> ack]
    ELSE [reno EXCEPT !.dups = @ + 1]

on_timeout(reno) ==
    [reno EXCEPT !.ssthresh = Halved(reno), !.cwnd = MSS,
                 !.state = "slow-start", !.dups = 0]

effective_window(reno, receiver_window) ==
    Most(Least(reno.cwnd, receiver_window), MSS)
=============================================================================
