---------------------------- MODULE StackSockets ----------------------------
(***************************************************************************)
(* The tables of one stack (minitcp/stack.py) and the stream sockets on    *)
(* top of them (minitcp/socket.py): ephemeral ports, connections by four-  *)
(* tuple, the listener and its accept queue, read events; application      *)
(* threads in connect, accept, recv and close, and the reader thread that  *)
(* handles segments and timers and calls back.                             *)
(*                                                                         *)
(* A connection object is what the stack sees of a TCPConnection:          *)
(*                                                                         *)
(*   kind, port, peer     made by tcp_connect or by the listener; its key  *)
(*   state                FIN-WAIT-1 stands for FIN-WAIT-2 too, TIME-WAIT  *)
(*                        for CLOSING                                      *)
(*   buf                  bytes in the receive queue                       *)
(*   established, failed  the events of the tcp_connect that made it       *)
(*   readable             its read event                                   *)
(*   opened               whether the handshake was ever completed         *)
(*                                                                         *)
(* The stack's lock is released between the steps below.  The remote hosts *)
(* send whatever a connection in its state can be sent.                    *)
(*                                                                         *)
(* What a thread sends raises LinkError where the link is down.  What the  *)
(* reader sends and cannot is a step not taken: a SYN-ACK, or an ACK of    *)
(* one or of a FIN, goes out before the state and the tables change.       *)
(*                                                                         *)
(* X_Slip next to X is X with a slip that a property must notice.          *)
(***************************************************************************)
EXTENDS Integers, Sequences, FiniteSets

CONSTANTS
    Peers,                \* remote addresses, with their port
    MaxConns,             \* connection objects that can be made
    Threads,              \* application threads
    FIRST_EPHEMERAL_PORT, LAST_EPHEMERAL_PORT,
    ListenPort,           \* the port the server socket is bound to
    MaxBuffered,          \* bytes a receive queue holds
    SynMayExpire,         \* TRUE: a SYN may be given up before tcp_connect
                          \* times out
    LinkMayFail           \* TRUE: send_frame may raise

ASSUME SocketsAssumption ==
    /\ {FIRST_EPHEMERAL_PORT, LAST_EPHEMERAL_PORT} \subseteq Nat
    /\ FIRST_EPHEMERAL_PORT < LAST_EPHEMERAL_PORT
    /\ ListenPort \in Nat \ (FIRST_EPHEMERAL_PORT .. LAST_EPHEMERAL_PORT)
    /\ {MaxConns, MaxBuffered} \subseteq Nat \ {0}
    /\ {SynMayExpire, LinkMayFail} \subseteq BOOLEAN

Conns == 1 .. MaxConns
NoConn == 0
Ephemeral == FIRST_EPHEMERAL_PORT .. LAST_EPHEMERAL_PORT

VARIABLES
    obj,                  \* the connection objects
    connections,          \* _connections: a function on the keys in use
    read_events,          \* the connections _read_events has an event for
    listening,            \* whether ListenPort is in _listeners
    accept_queue,         \* _accept_queues[ListenPort]
    next_port,            \* _next_port
    notifying,            \* the connection whose on_closed is half done
    pc,                   \* where each thread is
    of,                   \* the connection each thread works on
    port                  \* the port allocated to it, until it is registered

tables == <<connections, read_events, listening, accept_queue, next_port>>
vars == <<obj, tables, notifying, pc, of, port>>

Unmade ==
    [kind |-> "none", port |-> ListenPort, peer |-> "none", state |-> "CLOSED",
     buf |-> 0, established |-> FALSE, failed |-> FALSE, readable |-> FALSE,
     opened |-> FALSE]

Init ==
    /\ obj = [c \in Conns |-> Unmade]
    /\ connections = << >> /\ read_events = {}
    /\ listening = FALSE /\ accept_queue = << >>
    /\ next_port = FIRST_EPHEMERAL_PORT
    /\ notifying = NoConn
    /\ pc = [t \in Threads |-> "idle"]
    /\ of = [t \in Threads |-> NoConn]
    /\ port = [t \in Threads |-> ListenPort]

Goto(t, where) == pc' = [pc EXCEPT ![t] = where]
Change(c, new) == obj' = [obj EXCEPT ![c] = new]
Key(o) == <<o.port, o.peer>>
\* The object the next constructor call makes.
Fresh(c) == obj[c] = Unmade /\ \A d \in 1 .. c - 1 : obj[d] # Unmade
Registered(c) == \E k \in DOMAIN connections : connections[k] = c

\* _teardown, and the events that the callbacks of a client set.
Closed(o) ==
    [o EXCEPT !.state = "CLOSED", !.buf = 0, !.established = o.kind = "client",
              !.failed = o.kind = "client"]

peer_closed(o) == o.state \in {"CLOSE-WAIT", "LAST-ACK", "TIME-WAIT"}

-----------------------------------------------------------------------------
(* The tables                                                              *)

Register(c, key) ==
    /\ connections' = [k \in DOMAIN connections \cup {key} |->
                          IF k = key THEN c ELSE connections[k]]
    /\ read_events' = read_events \cup {c}

_forget_KeepsEntry(c) ==
    /\ read_events' = read_events \ {c}
    /\ UNCHANGED connections

_forget(c) ==
    /\ connections' = [k \in {k \in DOMAIN connections : connections[k] # c} |->
                          connections[k]]
    /\ read_events' = read_events \ {c}

\* What closing does to the tables: on_closed of a child forgets it, the one
\* tcp_connect installs only sets its events.
ForgetChild(c) ==
    IF obj[c].kind = "child" THEN _forget(c)
    ELSE UNCHANGED <<connections, read_events>>

_port_in_use_Listeners(p) == listening /\ p = ListenPort

_port_in_use(p) ==
    \/ listening /\ p = ListenPort
    \/ \E k \in DOMAIN connections : k[1] = p

\* The port k places after next_port, round the range.
PortAt(k) ==
    FIRST_EPHEMERAL_PORT +
        ((next_port - FIRST_EPHEMERAL_PORT + k) % Cardinality(Ephemeral))

\* _allocate_port tries one port fewer than the range holds and leaves
\* next_port behind the last one tried.
Tries == 0 .. (LAST_EPHEMERAL_PORT - FIRST_EPHEMERAL_PORT - 1)

Found(k) ==
    /\ ~_port_in_use(PortAt(k))
    /\ \A j \in 0 .. k - 1 : _port_in_use(PortAt(j))

\* A thread between two statements of tcp_connect, the port allocated and not
\* registered, is not overtaken by a whole turn of next_port, 16384 in the
\* code.
NotLapped(p) == \A t \in Threads : pc[t] = "allocated" => port[t] # p

-----------------------------------------------------------------------------
(* tcp_listen and tcp_accept                                               *)

tcp_listen(t) ==
    /\ pc[t] = "idle" /\ ~listening
    /\ listening' = TRUE /\ accept_queue' = << >>
    /\ UNCHANGED <<obj, connections, read_events, next_port, notifying, pc, of,
                   port>>

\* The wait is a polling loop; the child may be in any state by now.
tcp_accept(t) ==
    /\ pc[t] = "idle" /\ listening /\ accept_queue # << >>
    /\ of' = [of EXCEPT ![t] = Head(accept_queue)]
    /\ accept_queue' = Tail(accept_queue)
    /\ Goto(t, "open")
    /\ UNCHANGED <<obj, connections, read_events, listening, next_port,
                   notifying, port>>

-----------------------------------------------------------------------------
(* tcp_connect                                                             *)

\* _allocate_port, for tcp_connect or for a datagram sent from no port.
Allocate(t) ==
    /\ pc[t] = "idle"
    /\ \E k \in Tries :
          /\ Found(k) /\ NotLapped(PortAt(k))
          /\ next_port' = PortAt(k + 1)
          /\ \/ /\ port' = [port EXCEPT ![t] = PortAt(k)]
                /\ Goto(t, "allocated")
             \/ UNCHANGED <<port, pc>>
    /\ UNCHANGED <<obj, connections, read_events, listening, accept_queue,
                   notifying, of>>

\* StackError: no ephemeral ports available.
AllocateFails(t) ==
    /\ pc[t] = "idle"
    /\ \A k \in Tries : _port_in_use(PortAt(k))
    /\ next_port' = PortAt(Cardinality(Ephemeral) - 1)
    /\ UNCHANGED <<obj, connections, read_events, listening, accept_queue,
                   notifying, pc, of, port>>

\* The object is made and entered in the tables.
ConnectRegisters(t) ==
    /\ pc[t] = "allocated"
    /\ \E c \in Conns, peer \in Peers :
          /\ Fresh(c)
          /\ LET new == [Unmade EXCEPT !.kind = "client", !.port = port[t],
                                       !.peer = peer]
             IN  Change(c, new) /\ Register(c, Key(new))
          /\ of' = [of EXCEPT ![t] = c]
    /\ port' = [port EXCEPT ![t] = ListenPort]
    /\ Goto(t, "registered")
    /\ UNCHANGED <<listening, accept_queue, next_port, notifying>>

\* connect() sends the SYN before it leaves CLOSED.
ConnectSendsSyn(t) ==
    /\ pc[t] = "registered"
    /\ Change(of[t], [obj[of[t]] EXCEPT !.state = "SYN-SENT"])
    /\ Goto(t, "waiting")
    /\ UNCHANGED <<tables, notifying, of, port>>

\* The SYN, or the RST of the abort() below, raises: tcp_connect raises it on,
\* and neither the connection nor the tables change any more.
ConnectLinkFails(t) ==
    /\ LinkMayFail
    /\ pc[t] = "registered" \/ (pc[t] = "waiting" /\ ~obj[of[t]].established)
    /\ Goto(t, "link_error")
    /\ UNCHANGED <<obj, tables, notifying, of, port>>

Refused_Never(o) == FALSE

\* established was set by on_closed and not by the handshake.
Refused(o) == o.failed /\ o.state # "ESTABLISHED"

ConnectReturns(t) ==
    /\ pc[t] = "waiting" /\ obj[of[t]].established
    /\ IF Refused(obj[of[t]])
       THEN _forget(of[t]) /\ Goto(t, "raised")
       ELSE UNCHANGED <<connections, read_events>> /\ Goto(t, "open")
    /\ UNCHANGED <<obj, listening, accept_queue, next_port, notifying, of, port>>

\* The wait is over without an event: abort(), and then _forget().
ConnectTimesOut(t) ==
    /\ pc[t] = "waiting" /\ ~obj[of[t]].established
    /\ Change(of[t], Closed(obj[of[t]]))
    /\ Goto(t, "aborted")
    /\ UNCHANGED <<tables, notifying, of, port>>

ConnectForgets(t) ==
    /\ pc[t] = "aborted"
    /\ _forget(of[t])
    /\ Goto(t, "raised")
    /\ UNCHANGED <<obj, listening, accept_queue, next_port, notifying, of, port>>

-----------------------------------------------------------------------------
(* socket.recv: take what is there, else look for the end of the stream,   *)
(* else wait for the read event for at most 50 ms.                         *)

RecvTakes(t) ==
    LET c == of[t]
    IN  /\ pc[t] \in {"open", "recv"}
        /\ Change(c, [obj[c] EXCEPT !.buf = 0])
        /\ Goto(t, IF obj[c].buf > 0 THEN "open" ELSE "check")
        /\ UNCHANGED <<tables, notifying, of, port>>

RecvChecks(t) ==
    LET o == obj[of[t]]
    IN  /\ pc[t] = "check"
        /\ Goto(t, IF o.state = "CLOSED" \/ peer_closed(o) THEN "eof" ELSE "wait")
        /\ UNCHANGED <<obj, tables, notifying, of, port>>

\* wait_readable: no event or data there returns at once.
wait_readable(t) ==
    LET c == of[t]
    IN  /\ pc[t] = "wait"
        /\ Goto(t, IF c \notin read_events \/ obj[c].buf > 0
                   THEN "recv" ELSE "blocked")
        /\ UNCHANGED <<obj, tables, notifying, of, port>>

WaitEnds_OnlyIfSet(t) ==
    /\ pc[t] = "blocked" /\ obj[of[t]].readable
    /\ Goto(t, "recv")
    /\ UNCHANGED <<obj, tables, notifying, of, port>>

\* The event is set, or 50 ms have passed.
WaitEnds(t) ==
    /\ pc[t] = "blocked"
    /\ Goto(t, "recv")
    /\ UNCHANGED <<obj, tables, notifying, of, port>>

-----------------------------------------------------------------------------
(* socket.close: tcp_close, and the socket lets go of the connection,      *)
(* closed or not.  If the FIN or the RST of tcp_close raises, abort().     *)

AfterClose(o) ==
    CASE o.state = "ESTABLISHED"  -> "FIN-WAIT-1"
      [] o.state = "CLOSE-WAIT"   -> "LAST-ACK"
      [] o.state = "SYN-RECEIVED" -> "CLOSED"
      [] OTHER                    -> o.state

Close(t) ==
    LET c == of[t]
        o == obj[c]
        Sends == AfterClose(o) # o.state
    IN  /\ pc[t] \in {"open", "eof"}
        /\ \/ /\ AfterClose(o) # "CLOSED"
              /\ Change(c, [o EXCEPT !.state = AfterClose(o)])
              /\ UNCHANGED <<connections, read_events>>
           \/ /\ AfterClose(o) = "CLOSED" \/ (LinkMayFail /\ Sends)
              /\ Change(c, Closed(o)) /\ ForgetChild(c)
           \/ /\ LinkMayFail /\ Sends
              /\ UNCHANGED <<obj, connections, read_events>>
        /\ Goto(t, "idle")
        /\ of' = [of EXCEPT ![t] = NoConn]
        /\ UNCHANGED <<listening, accept_queue, next_port, notifying, port>>

\* A connect that raised leaves nothing behind in the socket.
Discard(t) ==
    /\ pc[t] \in {"raised", "link_error"}
    /\ Goto(t, "idle")
    /\ of' = [of EXCEPT ![t] = NoConn]
    /\ UNCHANGED <<obj, tables, notifying, port>>

-----------------------------------------------------------------------------
(* The reader thread.  _handle_tcp hands a segment to the connection with  *)
(* its key; a SYN with none goes to the listener.                          *)

ReaderFree == notifying = NoConn

\* A segment for c.
Arrives(c, from, new) ==
    /\ ReaderFree
    /\ Registered(c) /\ obj[c].state \in from
    /\ Change(c, new)

SynAckArrives(c) ==
    /\ Arrives(c, {"SYN-SENT"},
               [obj[c] EXCEPT !.state = "ESTABLISHED", !.established = TRUE,
                              !.opened = TRUE])
    /\ UNCHANGED <<tables, notifying, pc, of, port>>

\* The connection of a listener has no on_established.
HandshakeAckArrives(c) ==
    /\ Arrives(c, {"SYN-RECEIVED"},
               [obj[c] EXCEPT !.state = "ESTABLISHED", !.opened = TRUE])
    /\ UNCHANGED <<tables, notifying, pc, of, port>>

\* on_data, which tcp_connect leaves unset, is _signal_readable.
Signalled(c) == obj[c].kind = "child" /\ c \in read_events

DataArrives(c) ==
    /\ obj[c].buf < MaxBuffered
    /\ Arrives(c, {"ESTABLISHED", "FIN-WAIT-1"},
               [obj[c] EXCEPT !.buf = @ + 1,
                              !.readable = @ \/ Signalled(c)])
    /\ UNCHANGED <<tables, notifying, pc, of, port>>

FinArrives(c) ==
    /\ Arrives(c, {"ESTABLISHED", "FIN-WAIT-1"},
               [obj[c] EXCEPT !.state = IF @ = "ESTABLISHED" THEN "CLOSE-WAIT"
                                        ELSE "TIME-WAIT"])
    /\ UNCHANGED <<tables, notifying, pc, of, port>>

LastAckArrives(c) ==
    /\ Arrives(c, {"LAST-ACK"}, Closed(obj[c]))
    /\ ForgetChild(c)
    /\ UNCHANGED <<listening, accept_queue, next_port, notifying, pc, of, port>>

Live == {"SYN-SENT", "SYN-RECEIVED", "ESTABLISHED", "CLOSE-WAIT", "FIN-WAIT-1",
         "LAST-ACK", "TIME-WAIT"}

\* _handle_rst: on_reset sets failed before on_closed sets established.
RstArrives(c) ==
    /\ Arrives(c, Live, Closed(obj[c]))
    /\ ForgetChild(c)
    /\ UNCHANGED <<listening, accept_queue, next_port, notifying, pc, of, port>>

\* on_tick: TIME-WAIT is over, or retransmission is given up.  on_closed of a
\* client sets established first and failed after it.
TimerCloses(c) ==
    /\ Arrives(c, IF SynMayExpire THEN Live ELSE Live \ {"SYN-SENT"},
               [Closed(obj[c]) EXCEPT !.failed = obj[c].failed])
    /\ ForgetChild(c)
    /\ notifying' = IF obj[c].kind = "client" THEN c ELSE NoConn
    /\ UNCHANGED <<listening, accept_queue, next_port, pc, of, port>>

ClosedSetsFailed ==
    /\ ~ReaderFree
    /\ Change(notifying, [obj[notifying] EXCEPT !.failed = TRUE])
    /\ notifying' = NoConn
    /\ UNCHANGED <<tables, pc, of, port>>

_enqueue_accept(c, key) ==
    /\ Register(c, key)
    /\ accept_queue' = Append(accept_queue, c)

\* The child goes into the accept queue with its handshake still to complete.
SynArrives(peer) ==
    /\ ReaderFree /\ listening
    /\ <<ListenPort, peer>> \notin DOMAIN connections
    /\ \E c \in Conns :
          /\ Fresh(c)
          /\ Change(c, [Unmade EXCEPT !.kind = "child", !.peer = peer,
                                      !.state = "SYN-RECEIVED"])
          /\ _enqueue_accept(c, <<ListenPort, peer>>)
    /\ UNCHANGED <<listening, next_port, notifying, pc, of, port>>

-----------------------------------------------------------------------------
RecvStep(t) == RecvTakes(t) \/ RecvChecks(t) \/ wait_readable(t) \/ WaitEnds(t)

Next ==
    \/ \E t \in Threads :
          \/ tcp_listen(t) \/ tcp_accept(t) \/ Allocate(t) \/ AllocateFails(t)
          \/ ConnectRegisters(t) \/ ConnectSendsSyn(t) \/ ConnectReturns(t)
          \/ ConnectTimesOut(t) \/ ConnectForgets(t) \/ ConnectLinkFails(t)
          \/ RecvStep(t) \/ Close(t) \/ Discard(t)
    \/ \E c \in Conns :
          \/ SynAckArrives(c) \/ HandshakeAckArrives(c) \/ DataArrives(c)
          \/ FinArrives(c) \/ LastAckArrives(c) \/ RstArrives(c) \/ TimerCloses(c)
    \/ ClosedSetsFailed
    \/ \E peer \in Peers : SynArrives(peer)

Spec == Init /\ [][Next]_vars

\* A thread inside recv goes on with it.  What arrives, and whether an
\* application calls at all, is left open.
FairSpec ==
    Spec /\ \A t \in Threads : WF_vars(pc[t] # "open" /\ RecvStep(t))

-----------------------------------------------------------------------------
(* Properties                                                              *)

\* Segments and ticks find every connection that is not closed: no other
\* registration, of a thread connecting or of the listener, takes its place in
\* _connections, whatever ports come round and whoever is forgotten meanwhile.
LiveIsReachable ==
    \A c \in Conns :
        obj[c].state \in Live =>
            /\ Key(obj[c]) \in DOMAIN connections
            /\ connections[Key(obj[c])] = c

\* A call of tcp_connect that raises TimeoutError or ConnectionRefusedError
\* leaves a closed connection and no trace in the tables: its port and its
\* four-tuple are free again.  (One that raises LinkError leaves its entries.)
RaisedIsForgotten ==
    \A t \in Threads :
        pc[t] = "raised" =>
            /\ obj[of[t]].state = "CLOSED"
            /\ ~Registered(of[t]) /\ of[t] \notin read_events

\* tcp_connect returns only connections whose handshake was completed: "Open a
\* connection and block until the handshake completes" (stack.py).
ReturnedWasOpen ==
    \A t \in Threads :
        pc[t] \in {"open", "recv", "check", "wait", "blocked", "eof"}
        /\ obj[of[t]].kind = "client" => obj[of[t]].opened

\* recv does not sleep on data or on the end of the stream, although the read
\* event of a client is never set and closing sets none.
RecvReturns ==
    \A t \in Threads :
        (pc[t] \in {"recv", "check", "wait", "blocked"}
            /\ (obj[of[t]].buf > 0 \/ obj[of[t]].state = "CLOSED"
                    \/ peer_closed(obj[of[t]])))
        ~> pc[t] \in {"open", "eof"}

\* recv reports the end of the stream only when nothing is left to read: "recv
\* returns b'' to mean end of stream" (socket.py).
EofMeansEnd == \A t \in Threads : pc[t] = "eof" => obj[of[t]].buf = 0
=============================================================================
