------------------------------- MODULE Timing -------------------------------
(***************************************************************************)
(* When a sender retransmits: RTOEstimator and the times of the            *)
(* RetransmitQueue (minitcp/net/tcp/retransmit.py), Karn's rule in         *)
(* _process_ack and the retransmission timer                               *)
(* (minitcp/net/tcp/connection.py), over a VirtualWire.  Stack "a" sends   *)
(* numbered segments to stack "b", which acknowledges each as it comes.    *)
(*                                                                         *)
(* Times are whole ticks, sent_at is kept as the age of an entry, and      *)
(* _retransmit_at as what is left until it.  The estimator's floats are    *)
(* integers counting 1/SCALE of a tick, exact for the first three samples. *)
(* What numbers do when they wrap: SeqNo and TCPPair.                      *)
(*                                                                         *)
(* X_Slip next to X is X with a slip that a property must notice.          *)
(***************************************************************************)
EXTENDS VirtualWire

CONSTANTS
    Segments,             \* how many segments the application sends
    INITIAL_RTO, MIN_RTO, MAX_RTO,
    DUP_THRESHOLD,        \* of fast retransmit: 3
    MAX_RETRANSMITS

ASSUME TimingAssumption ==
    /\ {Segments, MIN_RTO, DUP_THRESHOLD, MAX_RETRANSMITS} \subseteq Nat \ {0}
    /\ {INITIAL_RTO, MAX_RTO} \subseteq Nat
    /\ MIN_RTO <= MAX_RTO

SCALE == 64
None == -1

VARIABLES
    est,                  \* RTOEstimator: srtt, rttvar, rto
    una, nxt,             \* send_queue.una and .nxt
    retx,                 \* outstanding: records [seq, age, retransmits]
    timer,                \* ticks until _retransmit_at; None when not armed
    dups, recovering,     \* Reno's duplicate count and fast recovery
    torn,                 \* the sender has given up
    rcv_nxt, parked       \* at the receiver

sender == <<est, una, nxt, retx, timer, dups, recovering, torn>>
receiver == <<rcv_nxt, parked>>
vars == <<wire, sender, receiver>>

-----------------------------------------------------------------------------
(* RTOEstimator                                                            *)

Clamped(rto) == Least(Most(rto, MIN_RTO * SCALE), MAX_RTO * SCALE)

NewEstimator == [srtt |-> None, rttvar |-> None, rto |-> Clamped(INITIAL_RTO * SCALE)]

Distance(x, y) == IF x >= y THEN x - y ELSE y - x

\* The RTO the estimate alone gives, without any backoff.
FreshRto(e) ==
    IF e.srtt = None THEN Clamped(INITIAL_RTO * SCALE)
    ELSE Clamped(e.srtt + 4 * e.rttvar)

sample(e, rtt) ==
    IF rtt <= 0 THEN e
    ELSE LET r == rtt * SCALE
             new == IF e.srtt = None
                    THEN [e EXCEPT !.srtt = r, !.rttvar = r \div 2]
                    ELSE [e EXCEPT !.srtt = (7 * @ + r) \div 8,
                                   !.rttvar = (3 * @ + Distance(e.srtt, r)) \div 4]
         IN  [new EXCEPT !.rto = FreshRto(new)]

backoff_Uncapped(e) == [e EXCEPT !.rto = 2 * @]

backoff(e) == [e EXCEPT !.rto = Least(2 * @, MAX_RTO * SCALE)]

recompute_KeepsBackoff(e) == e

recompute(e) == [e EXCEPT !.rto = FreshRto(e)]

\* The first tick at which now >= now + rto holds.
TicksOf(rto) == (rto + SCALE - 1) \div SCALE

-----------------------------------------------------------------------------
Init ==
    /\ WireInit
    /\ est = NewEstimator
    /\ una = 0 /\ nxt = 0 /\ retx = << >> /\ timer = None
    /\ dups = 0 /\ recovering = FALSE /\ torn = FALSE
    /\ rcv_nxt = 0 /\ parked = {}

Entry(seq) == [seq |-> seq, age |-> 0, retransmits |-> 0]

\* mark_retransmitted, of the oldest entry
Marked(entries) == [entries EXCEPT ![1].age = 0, ![1].retransmits = @ + 1]

\* _flush sends one more segment in the application's thread: _transmit, track,
\* arm the timer.  On a link that is down nothing is tracked: send() raises.
Send ==
    /\ ~torn /\ nxt < Segments /\ CanSend("a")
    /\ Transmit("a", nxt, queue, owed)
    /\ retx' = Append(retx, Entry(nxt))
    /\ timer' = TicksOf(est.rto)
    /\ nxt' = nxt + 1
    /\ UNCHANGED <<is_up, hands, est, una, dups, recovering, torn, receiver>>

\* The reader of "b" reads a segment and answers with an acknowledgement, which
\* is lost if its link is down.
OnData ==
    /\ CanReceive("b")
    /\ LET seq == Head(queue["b"])
           have == parked \cup {seq} \cup 0 .. rcv_nxt - 1
           gap == CHOOSE n \in 0 .. Segments : n \notin have /\ 0 .. n - 1 \subseteq have
       IN  /\ rcv_nxt' = gap
           /\ parked' = {n \in have : n > gap}
           /\ IF CanSend("b") THEN Transmit("b", gap, Taken("b"), owed - 1)
              ELSE Silent(Taken("b"), owed - 1)
    /\ UNCHANGED <<is_up, hands, sender>>

First(places) == CHOOSE i \in places : \A j \in places : i <= j

NewEstimate_AnyEntry(e, entries, covered) ==
    sample(recompute(e), entries[First(covered)].age)

\* Karn's rule: the sample is the age of the first entry covered that was never
\* retransmitted, if there is one.
NewEstimate(e, entries, covered) ==
    LET never == {i \in covered : entries[i].retransmits = 0}
    IN  IF never = {} THEN recompute(e) ELSE sample(e, entries[First(never)].age)

\* The timer after _arm_retransmit_timer
Rearmed(entries, e) == IF entries = << >> THEN None ELSE TicksOf(e.rto)

\* _process_ack of a new acknowledgement.
NewAck(ack) ==
    LET covered == {i \in 1 .. Len(retx) : retx[i].seq < ack}
    IN  /\ una' = ack
        /\ retx' = Picked(retx, (1 .. Len(retx)) \ covered)
        /\ est' = NewEstimate(est, retx, covered)
        /\ timer' = Rearmed(retx', est')
        /\ dups' = 0 /\ recovering' = FALSE
        /\ Silent(Taken("a"), owed - 1)

\* _process_ack of a duplicate: the last of DUP_THRESHOLD resends the oldest
\* segment and leaves the timer alone.
DuplicateAck ==
    LET fast == nxt > una /\ ~recovering /\ dups + 1 = DUP_THRESHOLD
    IN  /\ dups' = IF nxt > una /\ ~recovering THEN dups + 1 ELSE dups
        /\ recovering' = (recovering \/ fast)
        /\ IF fast /\ retx # << >>
           THEN /\ retx' = Marked(retx)
                /\ IF CanSend("a")
                   THEN Transmit("a", retx[1].seq, Taken("a"), owed - 1)
                   ELSE Silent(Taken("a"), owed - 1)
           ELSE UNCHANGED retx /\ Silent(Taken("a"), owed - 1)
        /\ UNCHANGED <<est, una, timer>>

OnAck ==
    /\ CanReceive("a")
    /\ LET ack == Head(queue["a"])
       IN  IF torn
           THEN Silent(Taken("a"), owed - 1)
                /\ UNCHANGED <<est, una, retx, timer, dups, recovering>>
           ELSE IF ack > una THEN NewAck(ack)
           ELSE IF ack = una THEN DuplicateAck
           ELSE Silent(Taken("a"), owed - 1)
                /\ UNCHANGED <<est, una, retx, timer, dups, recovering>>
    /\ UNCHANGED <<is_up, hands, nxt, torn, receiver>>

\* on_tick with the retransmission timer due: _on_retransmit_timeout.  Should
\* the link be down, the LinkError ends it before the timer is armed anew, and
\* Stack.tick counts an error.
OnTimeout ==
    /\ hands["a"] = << >> /\ timer = 0
    /\ IF retx[1].retransmits >= MAX_RETRANSMITS
       THEN /\ torn' = TRUE /\ retx' = << >> /\ timer' = None
            /\ Silent(queue, owed)
            /\ UNCHANGED <<est, dups, recovering>>
       ELSE /\ est' = backoff(est)
            /\ retx' = Marked(retx)
            /\ dups' = 0 /\ recovering' = FALSE
            /\ IF CanSend("a")
               THEN /\ Transmit("a", retx[1].seq, queue, owed)
                    /\ timer' = TicksOf(est'.rto)
               ELSE Silent(queue, owed) /\ UNCHANGED timer
            /\ UNCHANGED torn
    /\ UNCHANGED <<is_up, hands, una, nxt, receiver>>

\* A tick of the clock, while there is something that waits for it.  Threads
\* may be slow: time also passes over what is due.
TimePasses ==
    /\ WaitsForTime \/ timer > 0
    /\ pending' = Aged(pending)
    /\ retx' = [i \in 1 .. Len(retx) |-> [retx[i] EXCEPT !.age = @ + 1]]
    /\ timer' = IF timer = None THEN None ELSE Most(timer - 1, 0)
    /\ UNCHANGED <<is_up, hands, queue, faults, owed, est, una, nxt,
                   dups, recovering, torn, receiver>>

Reader(e) ==
    (Pump(e) \/ _enqueue(e)) /\ UNCHANGED <<sender, receiver>>

Outage ==
    /\ \E e \in Link, up \in BOOLEAN : SetUp(e, up)
    /\ UNCHANGED <<sender, receiver>>

Next ==
    \/ Send \/ OnData \/ OnAck \/ OnTimeout
    \/ \E e \in Link : Reader(e)
    \/ Outage \/ TimePasses

Spec == Init /\ [][Next]_vars

\* The reader threads run and the clock goes on.  Outages need not end.
FairSpec ==
    /\ Spec
    /\ \A e \in Link : WF_vars(Reader(e))
    /\ WF_vars(OnData) /\ WF_vars(OnAck) /\ WF_vars(OnTimeout)
    /\ WF_vars(TimePasses)

-----------------------------------------------------------------------------
(* Properties                                                              *)

MinDelay == CHOOSE d \in Delays : \A other \in Delays : d <= other

\* Karn's rule does its work: whatever is lost, doubled, delayed or resent, the
\* smoothed round trip is never below the shortest the wire has, since no
\* sample is the answer to a transmission taken for the answer to a later one.
SampleIsReal == est.srtt # None => est.srtt >= 2 * MinDelay * SCALE

\* The timeout stays between its bounds through samples, backoffs and resets,
\* and the timer is armed exactly while a segment is outstanding, for no longer
\* than that.
TimerWithinRto ==
    /\ timer = None <=> retx = << >>
    /\ est.rto \in MIN_RTO * SCALE .. MAX_RTO * SCALE
    /\ timer <= TicksOf(est.rto)

\* "drops the backoff whenever an ACK moves the window forward" (README.md).
BackoffUndone == [][una' # una => est'.rto = FreshRto(est')]_vars

\* "exponential backoff" (README.md): a segment resent by the timer has been
\* out for the whole timeout of that moment.
RetriesSpaced ==
    [][OnTimeout /\ ~torn' => retx[1].age * SCALE >= est.rto]_vars
=============================================================================
