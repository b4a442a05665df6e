--------------------------- MODULE ArpResolution ---------------------------
(***************************************************************************)
(* Address resolution: ARPCache (minitcp/net/arp.py) and the parking of    *)
(* packets against an unresolved next hop (minitcp/stack.py).              *)
(*                                                                         *)
(* Any thread may call send_ipv4; the reader thread handles ARP frames and *)
(* ticks.  The cache and _arp_pending are each guarded by a lock, but the  *)
(* lock is released between the lookup, the parking and the request, and   *)
(* between the reader's store, its pop and each packet it emits: those are *)
(* the steps here.                                                         *)
(*                                                                         *)
(* The timeout is the same for every entry, so the cache is the sequence   *)
(* of the addresses it knows, the one stored longest ago first: that one   *)
(* expires first and is the one evicted.  When an entry expires is left    *)
(* open.                                                                   *)
(*                                                                         *)
(* Emitting raises ValueError for a packet whose total length exceeds 16   *)
(* bits, and LinkError where the link is down.                             *)
(*                                                                         *)
(* X_Slip next to X is X with a slip that a property must notice.          *)
(***************************************************************************)
EXTENDS Naturals, FiniteSets, SequencesExt

CONSTANTS
    Hosts,                \* next hops
    Packets,              \* the packets sent in this run
    NextHop,              \* the next hop of each packet (_next_hop)
    Oversized,            \* those to_bytes refuses
    Threads,              \* threads that call send_ipv4
    MaxArpPending,        \* max_arp_pending
    MaxEntries,           \* max_entries of the cache
    LinkMayFail,          \* TRUE: send_frame may raise
    MaxLost               \* ARP frames that are lost

ASSUME ArpAssumption ==
    /\ IsFiniteSet(Packets)
    /\ NextHop \in [Packets -> Hosts]
    /\ Oversized \subseteq Packets /\ LinkMayFail \in BOOLEAN
    /\ {MaxArpPending, MaxEntries} \subseteq Nat \ {0}
    /\ MaxLost \in Nat

VARIABLES
    cache,                \* ARPCache._entries
    pending,              \* _arp_pending, the packets parked for each host
    thread,               \* what each sending thread is about to do
    reader,               \* what the reader thread is about to do
    todo,                 \* packets not yet handed to send_ipv4
    emitted,              \* IPv4 frames put on the link, in order
    dropped,              \* packets refused by a full queue
    failed,               \* packets whose own emission raised
    discarded,            \* packets behind one of those in a flush
    requests, replies,    \* ARP frames on the link, for each host
    lost                  \* ARP frames lost, or never put on the link

fate == <<emitted, dropped, failed, discarded>>
vars == <<cache, pending, thread, reader, todo, fate, requests, replies, lost>>

Idle == [at |-> "idle"]

Init ==
    /\ cache = << >>
    /\ pending = [h \in Hosts |-> << >>]
    /\ thread = [t \in Threads |-> Idle]
    /\ reader = Idle
    /\ todo = Packets
    /\ emitted = << >>
    /\ dropped = {} /\ failed = {} /\ discarded = {}
    /\ requests = [h \in Hosts |-> 0]
    /\ replies = [h \in Hosts |-> 0]
    /\ lost = 0

-----------------------------------------------------------------------------
(* ARPCache                                                                *)
Known(h) == h \in ToSet(cache)

store_NeverEvicts(h) == cache' = Append(RemoveFirst(cache, h), h)

\* The new entry takes the oldest one's place in a full cache.
store(h) ==
    LET room == IF ~Known(h) /\ Len(cache) >= MaxEntries THEN Tail(cache) ELSE cache
    IN  cache' = Append(RemoveFirst(room, h), h)

\* expire(), called by tick: the entries whose time is up are the oldest.
Expire ==
    /\ reader = Idle
    /\ \E k \in 1 .. Len(cache) : cache' = SubSeq(cache, k + 1, Len(cache))
    /\ UNCHANGED <<pending, thread, reader, todo, fate, requests, replies,
                   lost>>

-----------------------------------------------------------------------------
(* send_ipv4                                                               *)

\* lookup(): a hit, a miss, or an entry whose time is up, which goes.
Lookup(t, p) ==
    /\ thread[t] = Idle /\ p \in todo
    /\ todo' = todo \ {p}
    /\ \/ /\ Known(NextHop[p])
          /\ thread' = [thread EXCEPT ![t] = [at |-> "emit", packet |-> p]]
          /\ UNCHANGED cache
       \/ /\ thread' = [thread EXCEPT ![t] = [at |-> "park", packet |-> p]]
          /\ cache' = RemoveFirst(cache, NextHop[p])
    /\ UNCHANGED <<pending, reader, fate, requests, replies, lost>>

\* to_bytes and _emit, for a thread or for the reader's flush.
Emits(p) ==
    /\ p \notin Oversized
    /\ emitted' = Append(emitted, p)
    /\ UNCHANGED <<dropped, failed, discarded>>

Raises(p) ==
    /\ p \in Oversized \/ LinkMayFail
    /\ failed' = failed \cup {p}
    /\ UNCHANGED <<emitted, dropped>>

\* What it raises is raised to the sender.
EmitNow(t) ==
    /\ thread[t].at = "emit"
    /\ \/ Emits(thread[t].packet)
       \/ Raises(thread[t].packet) /\ UNCHANGED discarded
    /\ thread' = [thread EXCEPT ![t] = Idle]
    /\ UNCHANGED <<cache, pending, reader, todo, requests, replies, lost>>

\* _park_pending, the part under the lock
Park(t) ==
    /\ thread[t].at = "park"
    /\ LET p == thread[t].packet
           h == NextHop[p]
       IN  IF Len(pending[h]) >= MaxArpPending
           THEN /\ dropped' = dropped \cup {p}
                /\ thread' = [thread EXCEPT ![t] = Idle]
                /\ UNCHANGED pending
           ELSE /\ pending' = [pending EXCEPT ![h] = Append(@, p)]
                /\ thread' = [thread EXCEPT ![t] = [at |-> "ask", host |-> h]]
                /\ UNCHANGED dropped
    /\ UNCHANGED <<cache, reader, todo, emitted, failed, discarded, requests,
                   replies, lost>>

Ask_UnlessKnown(t) ==
    /\ thread[t].at = "ask"
    /\ requests' = [requests EXCEPT ![thread[t].host] =
                       IF Known(thread[t].host) THEN @ ELSE @ + 1]
    /\ thread' = [thread EXCEPT ![t] = Idle]
    /\ UNCHANGED <<cache, pending, reader, todo, fate, replies, lost>>

\* _send_arp_request.  Where it raises, the sender is told and the packet stays
\* parked.
Ask(t) ==
    /\ thread[t].at = "ask"
    /\ \/ /\ requests' = [requests EXCEPT ![thread[t].host] = @ + 1]
          /\ UNCHANGED lost
       \/ /\ LinkMayFail /\ lost < MaxLost
          /\ lost' = lost + 1 /\ UNCHANGED requests
    /\ thread' = [thread EXCEPT ![t] = Idle]
    /\ UNCHANGED <<cache, pending, reader, todo, fate, replies>>

-----------------------------------------------------------------------------
(* The peers run the same stack: a request for their address is answered.  *)
Answer(h) ==
    /\ requests[h] > 0
    /\ requests' = [requests EXCEPT ![h] = @ - 1]
    /\ replies' = [replies EXCEPT ![h] = @ + 1]
    /\ UNCHANGED <<cache, pending, thread, reader, todo, fate, lost>>

Lose(h) ==
    /\ lost < MaxLost /\ lost' = lost + 1
    /\ \/ /\ requests[h] > 0
          /\ requests' = [requests EXCEPT ![h] = @ - 1] /\ UNCHANGED replies
       \/ /\ replies[h] > 0
          /\ replies' = [replies EXCEPT ![h] = @ - 1] /\ UNCHANGED requests
    /\ UNCHANGED <<cache, pending, thread, reader, todo, fate>>

(* The reader thread                                                       *)

\* _handle_arp of a reply: store the sender, ...
OnReply(h) ==
    /\ reader = Idle /\ replies[h] > 0
    /\ replies' = [replies EXCEPT ![h] = @ - 1]
    /\ store(h)
    /\ reader' = [at |-> "pop", host |-> h]
    /\ UNCHANGED <<pending, thread, todo, fate, requests, lost>>

\* ... of a request of the peer's own: the sender is stored all the same.
OnRequest(h) ==
    /\ reader = Idle
    /\ store(h)
    /\ UNCHANGED <<pending, thread, reader, todo, fate, requests, replies,
                   lost>>

Pop_KeepsQueue ==
    /\ reader.at = "pop"
    /\ reader' = [at |-> "flush", queue |-> pending[reader.host]]
    /\ UNCHANGED <<cache, pending, thread, todo, fate, requests, replies,
                   lost>>

\* _flush_pending, the part under the lock
Pop ==
    /\ reader.at = "pop"
    /\ reader' = [at |-> "flush", queue |-> pending[reader.host]]
    /\ pending' = [pending EXCEPT ![reader.host] = << >>]
    /\ UNCHANGED <<cache, thread, todo, fate, requests, replies, lost>>

\* ... and the loop outside it, one packet a step.
Flush ==
    /\ reader.at = "flush"
    /\ \/ /\ reader.queue = << >>
          /\ reader' = Idle /\ UNCHANGED fate
       \/ /\ reader.queue # << >>
          /\ Emits(Head(reader.queue))
          /\ reader' = [reader EXCEPT !.queue = Tail(@)]
    /\ UNCHANGED <<cache, pending, thread, todo, requests, replies, lost>>

\* What emitting raises ends the loop; handle_frame or _run counts it and drops
\* it, and with it the packets behind the one that could not be sent.
FlushRaises ==
    /\ reader.at = "flush" /\ reader.queue # << >>
    /\ Raises(Head(reader.queue))
    /\ discarded' = discarded \cup ToSet(Tail(reader.queue))
    /\ reader' = Idle
    /\ UNCHANGED <<cache, pending, thread, todo, requests, replies, lost>>

Next ==
    \/ \E t \in Threads : \/ \E p \in Packets : Lookup(t, p)
                          \/ EmitNow(t) \/ Park(t) \/ Ask(t)
    \/ \E h \in Hosts : Answer(h) \/ Lose(h) \/ OnReply(h) \/ OnRequest(h)
    \/ Pop \/ Flush \/ FlushRaises \/ Expire

Spec == Init /\ [][Next]_vars

(* Threads run, and a frame on the link arrives.                           *)
FairSpec ==
    /\ Spec
    /\ \A t \in Threads : WF_vars(EmitNow(t) \/ Park(t) \/ Ask(t))
    /\ \A h \in Hosts : WF_vars(Answer(h)) /\ SF_vars(OnReply(h))
    /\ WF_vars(Pop \/ Flush \/ FlushRaises)

-----------------------------------------------------------------------------
Sending(t) == IF thread[t].at \in {"emit", "park"} THEN <<thread[t].packet>> ELSE << >>
Flushing == IF reader.at = "flush" THEN reader.queue ELSE << >>

\* How often packet p occurs in a sequence.
Times(p, seq) == Cardinality({i \in 1 .. Len(seq) : seq[i] = p})

\* The variables hold values of their kinds, within the two limits.
TypeOK ==
    /\ ToSet(cache) \subseteq Hosts /\ Len(cache) <= MaxEntries
    /\ \A h \in Hosts : /\ pending[h] \in Seq(Packets)
                        /\ Len(pending[h]) <= MaxArpPending
    /\ UNION {todo, dropped, failed, discarded} \subseteq Packets
    /\ emitted \in Seq(Packets)
    /\ requests \in [Hosts -> Nat] /\ replies \in [Hosts -> Nat]

\* Every packet is in exactly one place, whichever way the sending threads and
\* the reader's flush interleave and whichever emission raises: none is sent
\* twice, and none is lost but to a full queue, to its own emission, or in a
\* flush behind one for the same next hop that could not be sent.
Conserved ==
    \A p \in Packets :
        LET InQueues == Cardinality({h \in Hosts : Times(p, pending[h]) > 0})
            InHands == Cardinality({t \in Threads : Sending(t) = <<p>>})
        IN  /\ 1 = InQueues + InHands + Times(p, Flushing) + Times(p, emitted)
                   + (IF p \in todo THEN 1 ELSE 0)
                   + (IF p \in dropped THEN 1 ELSE 0)
                   + (IF p \in failed THEN 1 ELSE 0)
                   + (IF p \in discarded THEN 1 ELSE 0)
            /\ \A h \in Hosts : Times(p, pending[h]) <= 1
            /\ p \in discarded => \E q \in failed : NextHop[q] = NextHop[p]

\* A parked packet is never forgotten: a request for its next hop is about to
\* be sent, is on the way, or its answer is, unless the link lost one.  So a
\* reply handled between a thread's lookup and its parking does no harm.
ParkedIsAsked ==
    \A h \in Hosts :
        pending[h] # << >> =>
            \/ lost > 0
            \/ requests[h] + replies[h] > 0
            \/ \E t \in Threads : thread[t] = [at |-> "ask", host |-> h]
            \/ reader = [at |-> "pop", host |-> h]

\* "it will be sent automatically once that arrives" (send_ipv4): every packet
\* handed over is in the end sent or refused, or it or one before it could not
\* be sent, unless an ARP frame was lost.
AllSettled ==
    \A p \in Packets :
        p \notin todo ~>
            \/ Times(p, emitted) = 1
            \/ p \in dropped \cup failed \cup discarded
            \/ lost > 0

\* The same line without the exception: a flush discards no packet that could
\* have been sent.
ParkedIsSent == discarded \subseteq Oversized

\* "A burst of packets to a new peer therefore costs one ARP exchange, not one
\* per packet" (stack.py).
OneExchange == \A h \in Hosts : requests[h] + replies[h] <= 1
=============================================================================
