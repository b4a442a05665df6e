----------------------------- MODULE Datagrams -----------------------------
(***************************************************************************)
(* A datagram's way up: the reassembler's packet, _handle_udp in the       *)
(* reader thread (minitcp/stack.py), the handler a socket has bound, the   *)
(* socket's queue and event, and recvfrom in the threads that wait on it   *)
(* (minitcp/socket.py).                                                    *)
(*                                                                         *)
(* The queue and the event share no lock: a step is one use of either.     *)
(* The table of handlers is used under the stack's lock, a step each time; *)
(* the handler it yields is called outside.                                *)
(*                                                                         *)
(* X_Slip next to X is X with a slip that a property must notice.          *)
(***************************************************************************)
EXTENDS Reassembly

CONSTANTS
    Sockets, Receivers,   \* datagram sockets, and threads that call recvfrom
    SocketOf,             \* the socket each receiver reads
    PortOf,               \* the port each socket binds
    DstPort,              \* the port each datagram is for
    MaxHandled            \* bound on the datagrams handed to sockets

ASSUME DatagramsAssumption ==
    /\ SocketOf \in [Receivers -> Sockets]
    /\ DOMAIN PortOf = Sockets /\ DOMAIN DstPort = Datagrams
    /\ MaxHandled \in Nat

VARIABLES
    handlers,             \* Stack._udp_handlers: socket by port
    life,                 \* of a socket: "new", "bound" or "closed"
    queue, event,         \* _udp_queue and _udp_event of each socket
    reader, target,       \* what the reader thread is at, and for which socket
    pc,                   \* where each receiver is in recvfrom
    returned, arrived     \* what recvfrom returned, what was handed to a socket

socket == <<handlers, life, queue, event, reader, target, pc, returned, arrived>>
vars == <<reassembler, socket>>

NoSocket == "none"

SocketInit ==
    /\ handlers = << >>
    /\ life = [s \in Sockets |-> "new"]
    /\ queue = [s \in Sockets |-> << >>]
    /\ event = [s \in Sockets |-> FALSE]
    /\ reader = "receiving" /\ target = NoSocket
    /\ pc = [r \in Receivers |-> "idle"]
    /\ returned = [s \in Sockets |-> << >>]
    /\ arrived = [s \in Sockets |-> << >>]

-----------------------------------------------------------------------------
(* The socket's owner                                                      *)

\* bind: udp_bind puts the handler in the table, whoever was there.
Bind(s) ==
    /\ life[s] = "new"
    /\ life' = [life EXCEPT ![s] = "bound"]
    /\ handlers' = With(handlers, PortOf[s], s)
    /\ UNCHANGED <<queue, event, reader, target, pc, returned, arrived>>

\* udp_unbind takes out whatever handler the port has.
Unbound(table, port) == Without(table, {port})

Close(s) ==
    /\ life[s] = "bound"
    /\ life' = [life EXCEPT ![s] = "closed"]
    /\ handlers' = Unbound(handlers, PortOf[s])
    /\ UNCHANGED <<queue, event, reader, target, pc, returned, arrived>>

-----------------------------------------------------------------------------
(* The reader thread                                                       *)

\* handle_frame with a fragment or a whole datagram, as far as the reassembler
HandleFrame ==
    /\ reader = "receiving"
    /\ Receive
    /\ reader' = IF up' = Nothing THEN "receiving" ELSE "lookup"
    /\ UNCHANGED <<handlers, life, queue, event, target, pc, returned, arrived>>

\* The steps of _on_udp
OnUdpSteps_SetFirst == <<"set", "append">>

OnUdpSteps == <<"append", "set">>

\* The port, at the head of the datagram, is that of its first byte.
PortWanted == DstPort[up[1][1]]

\* _handle_udp: no handler, no delivery
LookUp ==
    /\ reader = "lookup"
    /\ IF PortWanted \in DOMAIN handlers
       THEN /\ Len(arrived[handlers[PortWanted]]) < MaxHandled
            /\ target' = handlers[PortWanted]
            /\ reader' = OnUdpSteps[1]
       ELSE reader' = "receiving" /\ UNCHANGED target
    /\ UNCHANGED <<handlers, life, queue, event, pc, returned, arrived>>

Following(step) == IF step = OnUdpSteps[1] THEN OnUdpSteps[2] ELSE "receiving"

AppendDatagram ==
    /\ reader = "append"
    /\ queue' = [queue EXCEPT ![target] = Append(@, up[1][1])]
    /\ arrived' = [arrived EXCEPT ![target] = Append(@, up[1][1])]
    /\ reader' = Following("append")
    /\ UNCHANGED <<handlers, life, event, target, pc, returned>>

SetEvent ==
    /\ reader = "set"
    /\ event' = [event EXCEPT ![target] = TRUE]
    /\ reader' = Following("set")
    /\ UNCHANGED <<handlers, life, queue, target, pc, returned, arrived>>

-----------------------------------------------------------------------------
(* recvfrom                                                                *)

Goto(r, where) == pc' = [pc EXCEPT ![r] = where]

\* _check_open
RecvFrom(r) ==
    /\ pc[r] = "idle" /\ life[SocketOf[r]] # "closed"
    /\ Goto(r, "check")
    /\ UNCHANGED <<handlers, life, queue, event, reader, target, returned, arrived>>

\* while not self._udp_queue
Check(r) ==
    /\ pc[r] = "check"
    /\ Goto(r, IF queue[SocketOf[r]] = << >> THEN "wait" ELSE "pop")
    /\ UNCHANGED <<handlers, life, queue, event, reader, target, returned, arrived>>

\* event.wait() returns
Wake(r) ==
    /\ pc[r] = "wait" /\ event[SocketOf[r]]
    /\ Goto(r, "clear")
    /\ UNCHANGED <<handlers, life, queue, event, reader, target, returned, arrived>>

\* ... or times out: recvfrom raises TimeoutError
TimeOut(r) ==
    /\ pc[r] = "wait" /\ ~event[SocketOf[r]]
    /\ Goto(r, "idle")
    /\ UNCHANGED <<handlers, life, queue, event, reader, target, returned, arrived>>

AfterClear_NoLoop == "pop"

\* while, not if
AfterClear == "check"

Clear(r) ==
    /\ pc[r] = "clear"
    /\ event' = [event EXCEPT ![SocketOf[r]] = FALSE]
    /\ Goto(r, AfterClear)
    /\ UNCHANGED <<handlers, life, queue, reader, target, returned, arrived>>

Popped_Newest(q) == [datagram |-> q[Len(q)], left |-> SubSeq(q, 1, Len(q) - 1)]

Popped(q) == [datagram |-> Head(q), left |-> Tail(q)]

\* popleft, of a queue that was not empty when it was looked at; IndexError is
\* what comes of one that is now.
Pop(r) ==
    LET s == SocketOf[r]
    IN  /\ pc[r] = "pop"
        /\ IF queue[s] = << >>
           THEN Goto(r, "IndexError") /\ UNCHANGED <<queue, returned>>
           ELSE /\ queue' = [queue EXCEPT ![s] = Popped(@).left]
                /\ returned' = [returned EXCEPT ![s] =
                                  Append(@, Popped(queue[s]).datagram)]
                /\ Goto(r, "idle")
        /\ UNCHANGED <<handlers, life, event, reader, target, arrived>>

-----------------------------------------------------------------------------
ReaderStep == LookUp \/ AppendDatagram \/ SetEvent
ReceiverStep(r) == Check(r) \/ Wake(r) \/ Clear(r) \/ Pop(r)

SocketNext ==
    \/ \E s \in Sockets : Bind(s) \/ Close(s)
    \/ ReaderStep
    \/ \E r \in Receivers : RecvFrom(r) \/ TimeOut(r) \/ ReceiverStep(r)

Next ==
    \/ HandleFrame
    \/ Ageing /\ UNCHANGED socket
    \/ SocketNext /\ UNCHANGED reassembler

Init == ReassemblerInit /\ SocketInit

Spec == Init /\ [][Next]_vars

\* The threads run; nothing need arrive, bind, close, call or time out.
FairSpec ==
    /\ Spec
    /\ WF_vars(ReaderStep /\ UNCHANGED reassembler)
    /\ \A r \in Receivers : WF_vars(ReceiverStep(r) /\ UNCHANGED reassembler)

-----------------------------------------------------------------------------
(* Properties                                                              *)

\* Every variable holds a value of its kind; no more fragment sets than
\* max_pending.
TypeOK ==
    /\ SetsOK
    /\ DOMAIN handlers \subseteq {PortOf[s] : s \in Sockets}
    /\ life \in [Sockets -> {"new", "bound", "closed"}]
    /\ event \in [Sockets -> BOOLEAN]
    /\ reader \in {"receiving", "lookup", "append", "set"}
    /\ pc \in [Receivers -> {"idle", "check", "wait", "clear", "pop", "IndexError"}]

\* recvfrom "never loses a datagram that arrived while the application was
\* busy" (socket.py), nor repeats one, nor turns their order.
NoneLost == \A s \in Sockets : arrived[s] = returned[s] \o queue[s]

\* "binding is really about claiming a port" (socket.py): a bound socket is the
\* one its port's datagrams go to until it is closed.
PortClaimed ==
    \A s \in Sockets : life[s] = "bound" =>
        PortOf[s] \in DOMAIN handlers /\ handlers[PortOf[s]] = s

\* "A timeout of None blocks indefinitely; anything else raises TimeoutError"
\* (socket.py): nothing else is raised.
OnlyTimeouts == \A r \in Receivers : pc[r] # "IndexError"

\* A thread blocked in recvfrom wakes once there is a datagram for it, however
\* the reader's append and set fall between its check, wait and clear.
ReceiverWakes ==
    \A r \in Receivers :
        pc[r] = "wait" /\ queue[SocketOf[r]] # << >> ~> pc[r] # "wait"
=============================================================================
