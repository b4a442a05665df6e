# mini-tcp in TLA+

A verification project for mini-tcp (`src/minitcp`), a user-space TCP/IP stack in Python: models of its components, the
TLC runs that check them on small instances, and TLAPS proofs of what holds for every size.

## 1. The system

| Component | State it keeps | Operations | Talks to |
|---|---|---|---|
| sequence arithmetic `net/tcp/seqno.py` | none | add, difference, order, window test on 32-bit numbers | everything in `net/tcp` |
| receive path `net/tcp/buffer.py`, `reorder.py` | next expected number, in-order bytes, parked payloads, a running count of them | insert, read, clear | connection (reader thread), application (`read`) |
| send path `buffer.py`, `retransmit.py` | `una`, `nxt`, unacknowledged bytes, outstanding segments | write, peek, acknowledge, add, mark | connection |
| congestion control `congestion.py` | `cwnd`, `ssthresh`, phase, duplicate count, `recover` | new ack, duplicate ack, timeout | connection |
| RTO estimator `retransmit.py` | smoothed RTT and variance, the timeout | sample, back off, recompute | connection |
| connection `connection.py`, `state.py` | one of eleven states, the four queues, peer window and options, four timers, FIN number | connect, listen, send, recv, close, abort, on_segment, on_tick | stack through `transmit` and callbacks |
| stack `stack.py` | tables of connections, listeners, accept queues, parked packets, ports, ids | handle_frame, tick, tcp_*, udp_*, send_ipv4 | link, ARP cache, reassembler, connections |
| ARP cache `net/arp.py` | expiring, bounded map of addresses | lookup, store, expire | stack |
| fragmentation `net/ipv4.py` | fragment sets by datagram, each with a timeout | fragment, add | stack |
| simulated link `link/simulated.py` | delayed frames, one queue and an up/down flag per link | transmit with loss, duplication, delay, reordering and corruption; pump; close | reader threads of both stacks |
| codecs `ethernet.py`, `arp.py`, `ipv4.py`, `icmp.py`, `udp.py`, `segment.py`, `checksum.py` | none | to_bytes, parse | stack |
| socket facade `socket.py` | the connection or bound port, a queue of datagrams and its event | bind, connect, accept, recv, recvfrom, close | stack, from any application thread |
| TUN, pcap, dissection | little or none | I/O and formatting | stack |

One reader thread per stack receives frames and ticks timers; application threads call into the stack and straight into the
connections. The connection has no lock; the stack's lock protects its tables only.

What is hard: sequence numbers that wrap; one capacity shared by unread, parked and overlapping data; lost, repeated and
reordered segments in every state of the opening and closing handshakes; four timers that must between them never leave a
side waiting for ever; windows that close; application calls and thread steps between two steps of the reader. The list, at
the lines where each bites, is `hazards` in `PROJECT.json`.

What makes each part correct:

* receive path: the bytes delivered are the stream, the memory bound holds and its counter is exact, the window cannot be locked shut;
* send path: what is acknowledged was received, what is in flight can be resent;
* connection: end of stream is seen only behind the last byte, everything is delivered, both sides close, no handshake stays half open;
* address resolution: no packet lost or sent twice by a race, a packet that cannot be sent costs at most those behind it for the same next hop, none parked without a request behind it;
* reassembly: what is rebuilt is what was sent, as soon as it is all there;
* tables and sockets: a live connection is found under its key, a connect that is refused or times out leaves nothing behind, a blocked call wakes, no datagram is lost between threads;
* retransmission times: only unambiguous samples, a timeout within its bounds, no backoff that outlives its cause;
* link and codecs: frames are conserved, what is parsed is what was serialised, damage is noticed, parsing ends.

## 2. Modules

| Module | Models | Extends |
|---|---|---|
| `Bytes` | Python's `min`, `max`, slices and lists filtered by position | |
| `ListProofs` | lemmas about those, about least numbers and about loops, shared by the proofs | `Bytes` |
| `SeqNo` | `seqno.py`, over a space of any even size | |
| `SeqNoLaws` | two numbers walking round the space, and the laws they obey | `SeqNo` |
| `SeqNoProofs` | proofs of those laws | `SeqNoLaws` |
| `ReceiveQueue` | `ReceiveQueue` and `ReorderQueue`, as operators on a record | `SeqNo`, `Bytes` |
| `ReceiveStream` | a receiver: segments arrive, the application reads between the turns of the drain loop, FIN, teardown | `ReceiveQueue` |
| `ReceiveStreamProofs` | proofs about `ReceiveStream` | `ReceiveStream` |
| `SendQueue` | `SendQueue` and `RetransmitQueue`, as operators | `SeqNo`, `Bytes` |
| `Reno` | `RenoCongestion`, as operators | `SeqNo`, `Bytes` |
| `Connection` | `TCPConnection`: each entry point is a function from the connection before the call to the one after it, with the segments it transmits | the three above |
| `TCPPair` | two stacks with one connection between them, their applications and the wire | `Connection` |
| `TCPPairProofs` | proofs about `TCPPair`, and so about `Connection` and the queues under it | `TCPPair`, `ListProofs` |
| `ByteStream` | what a connection promises its applications (the abstract specification) | |
| `ArpResolution` | `ARPCache` and the parking of packets in `stack.py` | |
| `ArpProofs` | proofs about `ArpResolution` | `ArpResolution` |
| `Reassembly` | `fragment`, `Reassembler` and the identifications of `_allocate_id` | `Bytes` |
| `Datagrams` | a datagram's way up: reassembler, table of handlers, socket queue and event, `recvfrom` | `Reassembly` |
| `DatagramsProofs` | proofs about `Reassembly` and `Datagrams` | `Datagrams`, `ListProofs` |
| `StackSockets` | the stack's TCP tables, ephemeral ports, accept queue and read events, and stream sockets in several threads | |
| `StackSocketsProofs` | proofs about `StackSockets` | `StackSockets` |
| `SendThreads` | `_flush` of one connection entered by two threads | `SendQueue` |
| `ReadThreads` | `ReceiveQueue.read` statement by statement under `_accept` | `Bytes` |
| `VirtualWire` | `VirtualWire` and `SimulatedLink` under two reader threads | `Bytes` |
| `Timing` | `RTOEstimator`, Karn's rule, backoff and the retransmission timer, over that wire | `VirtualWire` |
| `TimingProofs` | proofs about `VirtualWire` and `Timing` | `Timing`, `ListProofs` |
| `WireFormat` | `to_bytes` and `parse` of every header, the checksums and the TCP options, as operators | |
| `Codec` | one frame from serialising through a flipped bit to its handler (`handle_frame`), options one at a time | `WireFormat` |
| `MC...` | constants of the TLC runs | |

An operator keeps its source name where there is one. `X_Slip` beside `X` is `X` with a plausible slip; each property is
shown to notice one.

`Connection` takes an entry point as one step. The order of everything inside (window update before flush, acknowledgement
before data before FIN, the order in which `on_tick` tests its timers) is the code's. Time is abstracted to whether a timer
is armed: an armed timer may expire. In `TCPPair` it expires for free only when nothing is on the wire and no application has
a call to make; an expiry at any other moment is a premature timeout and counts as one of the wire's faults. This is the usual
case of an RTO longer than a round trip, and it keeps a perfect wire from being retransmitted to death.

`ArpResolution` is finer: a step is what happens under one lock, since any thread may send while the reader handles a reply.
`ReceiveStream` is finer too: `read` may fall between two turns of `_accept`'s loop. `SendThreads`, `ReadThreads`, `Datagrams`
and `StackSockets` take as a step what lies between two uses of state that threads share without a lock, or one use of a
table under the stack's lock.

`StackSockets` sees of a connection its state, whether it has unread bytes and the events of `tcp_connect`; how segments
bring the state about is `TCPPair`'s subject, so the remote hosts there may send whatever a connection in its state can be
sent. A thread between `_allocate_port` and its registration is not lapped by a whole turn of the port counter (16384 ports
in the code): `NotLapped`. A caller's own `local_port` is outside the model, since the code does not check it at all.

`Timing` counts whole ticks and keeps ages and remaining times instead of a clock, so its state space is finite. The
estimator's floats are integers counting 1/64 tick; three samples of whole ticks are exact in them.

`WireFormat` keeps every field that has a say in parsing, one word each, in words of `WordBits` bits (16 in the code, 5 in
the runs): lengths, kinds, checksums and their arithmetic are the code's, the fields nobody reads are left out. Bit flips are
those of `_flip_one_bit`, applied to a word.

## 3. Runs

The runs of connections use a sequence space of 16 numbers and initial numbers near its end, so that it wraps within a handful
of bytes; `overlap` uses 24, since its segments overshoot the window.

| Run | Bounds | Shows |
|---|---|---|
| `seqno` | all 256 pairs | order and its invariance when both numbers advance |
| `overlap` | 9 bytes, segments of every cut up to 4, overshooting the window by 2 | `StreamIntegrity`, `MemoryBound`, `HeldExact`, `FinComplete` |
| `grid` | 20 bytes, more than a turn of the space, segments on one grid; fair | nothing stale stays parked, everything is delivered |
| `transfer` | 2 bytes, 2 faults, aborts and connect timeouts anywhere; fair | acknowledged was received, in flight can be resent, no half-open connection, refinement of `ByteStream` |
| `recovery` | 6 bytes through a 5-byte window, 1 fault after the handshake; fair | fast recovery ends, a timer behind every waiting byte, delivery |
| `close` | both write and close, delayed ACKs, window scale 1, 1 fault after the handshake; fair | end of stream never early, FIN-WAIT-2 means the peer has the FIN, both closed |
| `race` | 2 threads, 3 packets for one next hop, queue of 2, cache of 1 that another host competes for, 1 lost ARP frame, 1 packet too large to send, a link that may raise; fair | packets conserved, parked means asked, every packet in the end sent or refused, or it or one before it could not be sent, unless an ARP frame was lost |
| `datagrams` | 3 datagrams of 6, 4 and 1 bytes, 2 MTUs, room for 1 set, 2 sockets that bind and close, a thread in `recvfrom`, 2 datagrams handed on; fair | what is rebuilt was sent; datagrams are neither lost, repeated nor turned round; nothing but a timeout is raised; a waiting thread wakes |
| `sockets` | 2 threads, 3 ephemeral ports, 2 connections of either kind, 1 remote address, a link that may raise; fair | live connections are found, a refused or timed out connect is closed and forgotten, a returned one was open, `recv` returns |
| `timing` | 2 segments, delays of 1 or 2 ticks, 1 fault (loss, copy or link down), timeouts of 2 to 4 ticks; fair | frames conserved by two pumping readers, samples unambiguous, timeout and timer bounded, backoff undone, the wire drains |
| `codec` | 5-bit words; every kind of message, all sequence numbers, payloads of 0 to 2 words, 5 option sets, every foreign option area of up to 4 words over 7 values; each undamaged and with each bit flipped; fair | what arrives was sent, echo and ARP requests are answered, damage is caught, parsing ends |
| `flushrace` | 4 bytes, window 2, segments of 1 | a violation, see section 4 |

Every invariant of the runs but `AckedWasReceived`, `EndOfStream` and `FinSeenByPeer`, which relate the two ends of a
connection, and those of `codec` is proved as well, and so is `BackoffUndone` (section 6). `SeqNoLaws` also defines `DiffIsDistance` and `WindowIsInterval`, which are proved. `TCPPair.TypeOK` holds in `transfer` too.

Why the bounds are enough: the faults the code distinguishes are a missing, repeated, late or early segment in each state,
and two of them reach every retransmission path including a repair that is itself lost; three in-flight segments after a gap
give the three duplicate acknowledgements fast retransmit needs; a window of a few bytes closes and reopens within the
stream. `MaxNet` only holds back timers and applications, never deliveries. `MAX_RETRANSMITS` stands for 15: it is 6, above
what the faults allowed can use up, in the runs that ask whether everything is delivered and closed, and 2 where giving up is
one of the behaviours checked. `CHECK_DEADLOCK FALSE` is given where a connection or a stream comes to its end.
In `sockets` three ports are the fewest for which the search goes round and still skips one, and two connections are what a
displaced registration needs. In `datagrams` one set less than there are fragmented datagrams fills the table, and the
pieces of 6 bytes for the two MTUs overlap. In `timing` one fault gives a retransmission whose original may still arrive,
which is what Karn's rule is about; with `DUP_THRESHOLD` 2 a copy brings the fast retransmission as well.

## 4. Disagreements with the documentation

Twenty-seven small instances show a line of the documentation, a comment or a test that the code does not live up to. One is
a run of the project, quoted under `findings` in `PROJECT.json`. The others are to be run by hand: `<module>_<name>.cfg`
where there is such a file, otherwise the configuration named, changed as the first column says (INVARIANT or PROPERTY is then
the property named, the specification `Spec`). TLC refutes the property in each. Lines are those of `src/`, with `tcp/` for
`minitcp/net/tcp/`.

| Configuration, property | What is said | What the code does |
|---|---|---|
| `flushrace` (run), `TakenAsWritten` | `tests/test_stack.py:141` `self.assertEqual(bytes(received), payload)` | `send()` and the reader's `_process_ack` are both in `_flush`: the bytes peeked at one `snd_nxt` go out under the next (`tcp/connection.py:665`, `:670`) |
| phantom: `flushrace`, `FlightIsOutstanding` | `tcp/buffer.py:7` "the gap between them is exactly what is in flight" | the same race advances `snd_nxt` over bytes nobody transmitted |
| `ReadThreads_compaction`, `UnreadWithinCapacity` | `tcp/buffer.py:172` "Never grow past capacity, whatever the peer chooses to send." | between the two statements of the compaction `available` is negative and the window larger than the capacity (`tcp/buffer.py:210`) |
| eofrace: `sockets`, `EofMeansEnd` | `minitcp/socket.py:10` "recv returns b"" to mean end of stream" | data and FIN that arrive between `recv`'s look at the queue and its look at the state are taken for the end (`minitcp/socket.py:204`) |
| deadconnect: `sockets` with `SynMayExpire = TRUE`, `ReturnedWasOpen` | `minitcp/stack.py:496` "Open a connection and block until the handshake completes." | `on_closed` sets `established` before `failed`; woken in between, `tcp_connect` returns a dead connection (`minitcp/stack.py:513`) |
| undrained: `transfer` with `ToSendA = 4`, `SendCapacity = 4`, `MaxFaults = 0`, `MayAbort = FALSE`, `CloseDrained = FALSE`, `EndOfStream` | `tests/test_loopback.py:371` "Data sent just before close must not be discarded." | `close()` with bytes still unsent sends the FIN over them (`tcp/connection.py:681`) |
| `lostack`, `Delivered` | `README.md:9` "survive 35% packet loss" | after a lost final ACK, the repeated SYN+ACK is reset by the client (`tcp/connection.py:364`) |
| `deadlistener`, `ListenerStays` | `tcp/connection.py:406` "the listener stays in LISTEN so it can accept more" | an RST for no connection tears the listener down (`tcp/connection.py:343`) |
| `simultaneous`, `Opens` | `README.md:94` "Three-way handshake, simultaneous open, passive open" | a simultaneous open never completes (`tcp/connection.py:453`) |
| `slowreader`, `SlowReaderIsKept` | `tcp/connection.py:850` "Back off, but never give up" | probes use up the segment's retry count: a peer slow to read is given up although it answers (`tcp/connection.py:867`) |
| scale: `close` with `FaultsFromStart = TRUE`, `WindowScaleAgreed` | `tests/test_loopback.py:516` "the shift has to be applied identically on both sides" | a repeated SYN or SYN+ACK carries no options (`tcp/connection.py:882`) |
| `overshoot`, `WithinBothWindows` | `tcp/congestion.py:6` "The sender may only have min(cwnd, rwnd) bytes in flight." | a window below one MSS is rounded up to one (`tcp/congestion.py:150`) |
| refused: `recovery` with `ToSendA = 9`, `SEQ_MOD = 32`, `IssA = 28`, `SendCapacity = 3`, `RetxCapacity = 3`, `MSS = 2`, `DEFAULT_PEER_MSS = 2`, `INITIAL_WINDOW_CAP = 8`, `MAX_CWND = 8`, `MaxFaults = 0`, and `SpaceAssumption` taken out of `TCPPair`, `OutstandingCovered` | `tcp/retransmit.py:168` "which the caller should treat as backpressure rather than as success" | `_transmit` does not look at what `add` returns (`tcp/connection.py:738`): behind a partly acknowledged segment a full flight does not fit, and what is refused is sent but never resent |
| `unread`, `UnreadIsKept` | `tcp/buffer.py:12` "keeps bytes until the application reads them" | teardown discards acknowledged data not yet read (`tcp/connection.py:976`) |
| `partialack`, `PartialAckStaysInRecovery` | `tcp/congestion.py:88` "A partial ACK. Another segment was lost; retransmit it and stay in recovery." | any new ACK ends fast recovery (`tcp/congestion.py:121`) |
| `stale`, `EarlyDataPulledIn` | `tcp/buffer.py:119` "Anything that arrives early is parked and pulled in automatically once the gap ahead of it fills." | a parked segment that a differently cut retransmission passes stays parked (`tcp/buffer.py:189`) |
| `wrap`, `StreamIntegrity` | `tcp/reorder.py:59` "Drop everything that starts before *seq*, i.e. already delivered." | nobody calls it, so the same segment is delivered again one turn of the space later (`tcp/buffer.py:189`) |
| burst: `race` with `MaxLost = 0`, `OneExchange` | `minitcp/stack.py:16` "A burst of packets to a new peer therefore costs one ARP exchange, not one per packet." | each parked packet sends its own request (`minitcp/stack.py:426`) |
| toolong: `race` with `LinkMayFail = FALSE` and `MaxLost = 0`, `ParkedIsSent` | `minitcp/stack.py:387` "in which case it will be sent automatically once that arrives" | what one parked packet raises ends the flush, and the packets behind it, popped already, are dropped with it (`minitcp/stack.py:431`) |
| `recut`, `CompletedWhenComplete` | `minitcp/net/ipv4.py:384` "returns the rebuilt packet when complete"; `README.md:76` "overlapping" | a shorter fragment at the same offset replaces a longer one (`minitcp/net/ipv4.py:402`) |
| idwrap: `datagrams` with `SizeThree = 6`, `ID_MOD = 3`, `MaxSets = 2`, `RebuiltIsOriginal` | `minitcp/net/ipv4.py:384` "returns the rebuilt packet when complete" | once identifications come round within the timeout, fragments of two datagrams make one packet (`minitcp/stack.py:657`) |
| rebind: `datagrams` with `PortTwo = 1`, `PortClaimed` | `minitcp/socket.py:80` "binding is really about claiming a port" | a second bind takes the port, and either socket's close unbinds whoever has it (`minitcp/stack.py:562`) |
| tworeaders: `datagrams` with `Receivers = {r1, r2}`, `OnlyTimeouts` | `minitcp/socket.py:12` "A timeout of None blocks indefinitely; anything else raises TimeoutError." | two threads pass the check for one datagram, and the second raises `IndexError` (`minitcp/socket.py:232`) |
| `zerosum`, `TcpDamageCaught` | `tests/test_fuzz.py:275` "Any single-bit flip in the TCP header or payload must be caught." | a TCP checksum of zero is sent as it is and read as none (`tcp/segment.py:358`, `:410`) |
| `outage`, `RetriesSpaced` | `README.md:100` "exponential backoff" | a link that is down raises in the middle of the timeout, the timer stays due, and every tick of the outage uses up a retry (`tcp/connection.py:882`) |
| coarse: `timing` with `Delays = {0}`, timeouts 3, 3 and 6, `DUP_THRESHOLD = 3`, `MAX_RETRANSMITS = 2`, `BackoffUndone` | `README.md:247` "drops the backoff whenever an ACK moves the window forward" | a sample of no length is ignored, and with it the reset of the timeout (`tcp/retransmit.py:64`) |
| partition: `outage`, `DownReceivesNothing` | `minitcp/link/simulated.py:62` "Endpoints with is_up set to False neither send nor receive" | a delayed frame is delivered to a link that went down meanwhile (`minitcp/link/simulated.py:161`) |

Passing runs avoid these by their constants: faults only after the handshake where the handshake is not the subject,
applications that close once drained (`CloseDrained`), one passive side, one segmentation where staleness is asked about,
one receiver per datagram socket, identifications and ports that do not lap a waiting user, a SYN that outlives
`tcp_connect`'s wait (`SynMayExpire`).

## 5. Fairness

`TCPPair.FairSpec`: the reader thread of each stack loops for ever over frames and ticks (`Stack._run`), so a frame on the
wire is delivered and an armed timer fires once all else is quiet; applications make the calls they have to make, and
`tcp_connect` returns. All of it is weak fairness: `WF_vars` for `Connect` and `ConnectReturns`, and the same formula with the
enabling condition spelled out for the actions whose `ENABLED` is costly to evaluate. Faults, premature timeouts and aborts
are never fair.
`ReceiveStream.FairSpec`: the peer retransmits, so a segment that can be received again and again arrives (strong: the drain
loop keeps disabling it). `ArpResolution.FairSpec`: threads run and frames arrive; a reply is handled even if the reader is
busy with others in between (strong fairness of `OnReply`).
`Datagrams.FairSpec`: a thread in `recvfrom` and the reader thread inside a delivery go on; nobody is obliged to send.
`StackSockets.FairSpec`: a thread inside `recv` goes on with it, its 50 ms wait included; arrivals and calls are left open.
`Timing.FairSpec`: both reader threads, the tick and the clock go on; outages need not end, and sends need not happen.
`Codec.FairSpec`: the reader thread goes on with a frame it has taken.
The last four are weak fairness, which a thread of a running process has.

## 6. Proofs

`SeqNoProofs`, for every even size of the space, 2^32 included: `SeqNoCorrect` (order, signed distance, interval) and
`SlideCorrect` (both numbers moved alike). The argument is that `%` differs from its argument by whole turns (`Remainder`),
so distance round the space is unchanged by a slide (`SlideDistance`). The only assumption is `SeqModAssumption`.

`ReceiveStreamProofs`, for every capacity, stream, segmentation and overshoot: `TypeCorrect`, `CounterExact` and
`MemoryBounded`. `MemoryBound` counts the bytes really parked and is not inductive: the code decides by its counter. `IInv`
adds that the counter is exact, that what is parked is finite, and that unread bytes plus counter stay within capacity. Each
operation of the queue has a lemma (`AppendKeeps`, `ParkKeeps`, `TakeKeeps`, `ReadKeeps`, `ClearKeeps`) that keeps this,
and `OneMoreEntry`/`OneEntryLess` say how the count of a union of disjoint entries changes. Assumptions:
`SeqModAssumption`, `CapacityAssumption`, `StreamAssumption`.

In the same module, `StreamCorrect` and `FinCorrect` (what is delivered is a prefix of the stream, and the FIN counts only
behind its last byte) for streams shorter than the sequence space or cut on one grid, and `PulledIn` for those on one grid.
`StreamInv` is what they need: a parked payload is the stream at some position whose number is its key, and where the next
expected number stands in the stream. The hypotheses cannot be dropped: the instances `wrap` and `stale` of section 4 are
outside them and refute the properties.

`ArpProofs`, for every number of threads, hosts and packets, cache and queue size: `TypeCorrect`, `NeverForgotten`,
`PacketsConserved`. `Conserved` counts a packet where it may wait (`todo`, a thread, a queue, the reader's hands) and where it
may end (emitted, refused, failed, discarded). The inductive form (`Counts`) says that these counts add up to one, that a packet
is parked only under its own next hop, so that the packets of one flush have one next hop, and that behind every discarded
packet there is a failed one with the same. When an emission in a flush raises, one packet goes to `failed` and the tail of the
queue to `discarded`. The lemmas are on how often a packet occurs in a sequence that grows at its end or loses its head.

`StackSocketsProofs`, for every number of threads, peers and ports: `LiveReachable`, `RaisedForgotten`, `ReturnedOpen`. What
displaces a connection depends on what threads hold between two uses of the table, so `TablesInv` says that an allocated port
is nobody else's, that a connecting thread has its object to itself and that every entry stands under its own key. `OpenInv`
follows the two events of `tcp_connect`. `RaisedForgotten` is about a connect that was refused or timed out; it holds whatever
other sends raise. A connect that ends in `LinkError` leaves its entries (section 7) and is not in it.
`ReturnedOpen` supposes that a SYN outlives the wait (`~SynMayExpire`); the instance deadconnect of section 4 shows why.

`TimingProofs`, for all delays, timeouts and numbers of segments, faults and outages: `WireConserves`, `TimerCorrect`,
`SampleCorrect`, `BackoffDropped`. Conservation needs that the frames two pumping readers pick are places of one list and that
removing them shortens it by as many. `SampleCorrect` needs that a frame cannot be acknowledged before it has travelled both
ways (`Behind`) and that a segment that may be sampled was sent once (`OnceSent`). `BackoffDropped` is an action property and
supposes that no frame arrives in the tick it is sent in; the instance coarse of section 4 shows why.

`DatagramsProofs`, for every number of datagrams, sizes, MTUs, fragment sets, sockets and receivers: `TypeCorrect` (with the
bound on fragment sets), `RebuiltCorrect`, `NothingLost`, `TimeoutsOnly`, `PortKept`. A set that is not yet complete holds
pieces of one datagram, each at its place (`Unmixed`); that `_try_complete` accepts no set with a hole is `Covered`: the first
piece that begins at or after a byte touches one before it, which covers the byte. `RebuiltCorrect` supposes that
identifications are distinct, `TimeoutsOnly` that a socket has one reader, `PortKept` that sockets bind different ports; the
instances idwrap, tworeaders and rebind of section 4 show why. `TypeCorrect` and `NothingLost` suppose nothing.

`TCPPairProofs`, for every choice of applications, window, segment and queue sizes and numbers of faults:
`RetransmittableCorrect` (`OutstandingCovered`) and `TimerBehindData` (`NeverStuck`). Both are about the sending half of one
connection, whatever segments reach it, so the inductive invariant says of each connection, unless it is closed or in
TIME-WAIT, that it is `Good`:

* `SendOK`: `snd_nxt` is ahead of `snd_una` by no more than may be in flight (`MostInFlight`, and one more once the FIN is
  sent); every outstanding segment ends in that range, is no longer than a segment and has, from `snd_una` on, the bytes the
  send queue holds there; every number of the range is in one; no byte is in two. Coverage alone is not inductive: an
  acknowledgement may end inside a segment, which then stays with a part before `snd_una`, and a new segment is kept only if
  the outstanding bytes leave room for it. `BytesBound` is the counting argument for that room: the segments lie apart, so
  their bytes are no more than what is in flight and one partly acknowledged segment.
* The retransmission timer runs exactly while something is outstanding, and with bytes in the send queue something is
  outstanding or the persist timer runs (`Fed`). Every `_flush` leaves this so: with an open window and nothing in flight its
  loop sends at least one segment, with a closed one it arms the persist timer.
* Before the handshake is over nothing is buffered and only the SYN is out (`Opening`), as the first flush, or an expired
  persist timer, finds a connection that may not send yet.

The invariant also types every field of a connection and every segment on the wire. Each operation has its lemma, from
`AckKeeps`, `SendKeeps`, `MarkKeeps` and `WriteKeeps` for the queues over `FlushIs`, `ProcessAckIs`, `OnSegmentIs`, `SendIs`,
`CloseIs` and `OnTickIs` for the connection to one lemma per group of actions; the loops of `_flush` and of the receive queue
are taken by `LoopExists` and `LoopKeeps`. TLC checked the invariant on the constants of `transfer`, `recovery`, `close`,
`simultaneous` and four other instances before the proof. Assumptions: the ranges of the constants, and `SpaceAssumption`:
one segment more than may be in flight fits into the outstanding queue and into half of the sequence space. The code's
defaults are inside it (65535 bytes of window, 1460 of segment, a queue of 2^20); a `window_scale` of 4 and more with buffers
to match is outside, and the instance refused of section 4 shows what happens there.

The assumptions are the `ASSUME`s of the modules, which TLC evaluates in the runs: ranges of the constants, of `Delays`
that there is one, and `SpaceAssumption`.

Only model-checked: liveness and what needs `ENABLED` (outside the proof system's reach); of `TCPPair`, `AckedWasReceived`,
`EndOfStream`, `FinSeenByPeer` and the refinement of `ByteStream`, which are about both ends at once and hold for the numbers
of faults of the runs only (with more of them, a SYN repeated after the child has gone opens another, and an old segment of
the client completes its handshake: `transfer` with `MaxFaults = 6` refutes `AckedWasReceived` in TLC's simulation mode); and
`Codec` (checksums are folds over a frame, so what they
compute is induction over data).

## 7. Not modelled

TUN (operating-system I/O), capture and dissection (formatting for a reader), the example programs, statistics counters,
`Stack.start` and `stop`. Of the sockets: `send` and `sendall`, loops around the call `TCPPair` has; `sendto`, which may
return 0 for a packet that was parked; options and address conversion. Of the codecs: fields the receiver never looks at
(TTL, TOS, urgent pointer) and byte order. Of the TCP segments: SACK blocks, which the code parses and never uses. Broadcasts,
which skip address resolution.

A link that raises: in `ArpResolution` every emission may (a packet too large raises as well), in `StackSockets` every SYN, RST
and FIN that an application's thread sends. A `tcp_connect` that ends in `LinkError`, from its SYN or from the RST of its
`abort()`, leaves its connection and its read event in the tables (`minitcp/stack.py:520`, `:522`); no line of the repository
promises otherwise. What the reader thread cannot send in `StackSockets` is a step not taken; a window update that
raises in `recv`, after its bytes were taken, changes the tables no more than one that is sent. In `TCPPair` a link loses
segments and never raises; `Timing` has the timeout that a raising link interrupts (`outage`).

Entry points of one connection interleave at whole calls only in `TCPPair`; `SendThreads` and `ReadThreads` split two of
them, `connect()` (which transmits before it sets SYN_SENT) is not split.

Things the code has and never uses, met while modelling: `ReorderQueue.discard_before`, `SendQueue.rewind`,
`RetransmitQueue.purge_before`, `RenoCongestion.on_partial_ack`, the listener's `backlog`, `fragment` (the stack sends every
packet whole), and `_signal_readable` for connections a client opened.
Connections that clients opened stay in the stack's tables after they close, and `close()` of a datagram socket does not wake
a thread blocked in its `recvfrom`.

## 8. Plan

Done: everything above. Next, in order:

1. Proofs that relate the two ends of a connection: `AckedWasReceived` and the prefix half of `ByteStream`, for a single
   incarnation of each connection, streams shorter than half the sequence space and applications that close once drained.
   The invariant would place every segment on the wire in the stream it belongs to. Then the bounds of `Reno`.
2. `connect()` split at its transmission, in a module like `SendThreads`.
3. `Stack.start` and `stop` around the reader thread.
