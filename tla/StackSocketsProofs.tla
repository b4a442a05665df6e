------------------------- MODULE StackSocketsProofs -------------------------
(***************************************************************************)
(* The tables of the stack for every number of threads, connections, peers *)
(* and ephemeral ports: a live connection is found under its key, a        *)
(* connect that was refused or timed out has left the tables, and one that *)
(* returned was opened.                                                    *)
(*                                                                         *)
(* None of the three is inductive.  What takes the place of a connection   *)
(* in _connections is decided by what threads hold outside the table: a    *)
(* port that is allocated and not registered, and an object that is        *)
(* registered and has not sent its SYN.  TablesInv says whom those belong  *)
(* to; OpenInv says where the events of tcp_connect come from.             *)
(***************************************************************************)
EXTENDS StackSockets, FiniteSetTheorems, SequenceTheorems, TLAPS

\* A connection object.
ConnType ==
    [kind : {"none", "client", "child"}, port : Nat, peer : Peers \cup {"none"},
     state : Live \cup {"CLOSED"}, buf : Nat, established : BOOLEAN,
     failed : BOOLEAN, readable : BOOLEAN, opened : BOOLEAN]

\* A thread after the registration in tcp_connect, and one with a socket.
Connecting == {"registered", "waiting", "aborted", "raised", "link_error"}
Using == {"open", "recv", "check", "wait", "blocked", "eof"}

\* The kinds of the variables.
Types ==
    /\ obj \in [Conns -> ConnType]
    /\ accept_queue \in Seq(Conns)
    /\ next_port \in Ephemeral
    /\ notifying \in Conns \cup {NoConn}
    /\ pc \in [Threads -> {"idle", "allocated"} \cup Connecting \cup Using]
    /\ of \in [Threads -> Conns \cup {NoConn}]
    /\ port \in [Threads -> Nat]

\* An object not made yet is blank; a child has the listener's port and a
\* client an ephemeral one; only a closed one has failed.
Made(o) ==
    /\ o.kind = "none" => o = Unmade
    /\ o.kind = "child" => o.port = ListenPort
    /\ o.kind = "client" => o.port \in Ephemeral
    /\ o.failed => o.state = "CLOSED"

\* Every object is entered under its own key only.
Entry(k) ==
    /\ connections[k] \in Conns
    /\ obj[connections[k]].kind # "none"
    /\ k = Key(obj[connections[k]])

\* Connection c is what its key finds.
Reachable(c) == Key(obj[c]) \in DOMAIN connections /\ connections[Key(obj[c])] = c

\* A port allocated and not registered is nobody else's.
Reserved(t) ==
    pc[t] = "allocated" =>
        /\ port[t] \in Ephemeral
        /\ \A k \in DOMAIN connections : k[1] # port[t]
        /\ \A u \in Threads \ {t} : pc[u] = "allocated" => port[u] # port[t]

\* A thread in tcp_connect has its object to itself.
Worker(t) ==
    /\ pc[t] \in {"idle", "allocated"} => of[t] = NoConn
    /\ pc[t] \in Connecting \cup Using => of[t] \in Conns /\ obj[of[t]].kind # "none"
    /\ pc[t] \in Connecting =>
          obj[of[t]].kind = "client" /\ \A u \in Threads \ {t} : of[u] # of[t]
    /\ pc[t] \in {"registered", "aborted", "raised"} => obj[of[t]].state = "CLOSED"
    /\ pc[t] = "registered" =>
          Reachable(of[t]) /\ ~obj[of[t]].established /\ ~obj[of[t]].failed
    /\ pc[t] = "raised" => ~Registered(of[t]) /\ of[t] \notin read_events

\* Each for all objects, entries and threads; the accept queue holds children,
\* and on_closed stops only between the two events of a client.
Objects == \A c \in Conns : Made(obj[c])
Entries == \A k \in DOMAIN connections : Entry(k)
Reservations == \A t \in Threads : Reserved(t)
Workers == \A t \in Threads : Worker(t)
Queue == \A i \in 1 .. Len(accept_queue) : obj[accept_queue[i]].kind = "child"
Notified ==
    notifying # NoConn =>
        /\ obj[notifying].kind = "client" /\ obj[notifying].state = "CLOSED"
        /\ obj[notifying].established

\* The inductive invariant of the tables.
TablesInv ==
    Types /\ Objects /\ Entries /\ LiveIsReachable /\ Reservations /\ Workers
    /\ Queue /\ Notified

-----------------------------------------------------------------------------
(* Objects and tables                                                      *)

\* _teardown leaves an object its identity.
LEMMA ClosedIs ==
    ASSUME NEW o \in ConnType
    PROVE  /\ Closed(o) \in ConnType
           /\ Closed(o).kind = o.kind /\ Closed(o).port = o.port
           /\ Closed(o).peer = o.peer /\ Closed(o).state = "CLOSED"
           /\ Closed(o).opened = o.opened
           /\ Closed(o).established = (o.kind = "client")
           /\ Closed(o).failed = (o.kind = "client")
BY DEF ConnType, Closed

\* A blank object is one of the right kind.
LEMMA UnmadeIs == Unmade \in ConnType
BY SocketsAssumption DEF Unmade, ConnType

\* The port the allocator tries is an ephemeral one, wherever it starts.
LEMMA PortAtEphemeral ==
    ASSUME next_port \in Ephemeral, NEW k \in Nat
    PROVE  PortAt(k) \in Ephemeral
<1> DEFINE F == FIRST_EPHEMERAL_PORT
           L == LAST_EPHEMERAL_PORT
           n == Cardinality(Ephemeral)
           d == next_port - F + k
<1>1. F \in Nat /\ L \in Nat /\ F < L
  BY SocketsAssumption
<1>2. n = L - F + 1
  BY <1>1, FS_Interval DEF Ephemeral
<1>3. n \in Nat \ {0} /\ d \in Nat
  BY <1>1, <1>2 DEF Ephemeral
<1>4. PortAt(k) = F + (d % n)
  BY DEF PortAt
<1> HIDE DEF n, d
<1>5. d % n \in 0 .. n - 1
  BY <1>3
<1> QED BY <1>1, <1>2, <1>4, <1>5 DEF Ephemeral

\* Object c becomes new without a change of identity.
Touched(c, new) ==
    /\ c \in Conns /\ obj[c].kind # "none"
    /\ obj' = [obj EXCEPT ![c] = new]
    /\ new \in ConnType /\ new.kind = obj[c].kind
    /\ new.port = obj[c].port /\ new.peer = obj[c].peer
    /\ new.failed => new.state = "CLOSED"

\* Nothing but object c, and its place in the tables, changes.
Frame(c) ==
    /\ \A d \in Conns \ {c} :
          /\ obj'[d] = obj[d]
          /\ Reachable(d) => Reachable(d)'
          /\ Registered(d)' => Registered(d)
          /\ d \in read_events' => d \in read_events
    /\ obj[c].kind # "none" => obj'[c].kind = obj[c].kind

\* The tables stay, or c leaves them.
LEMMA TouchTables ==
    ASSUME TablesInv, NEW c, NEW new, Touched(c, new),
           \/ UNCHANGED <<connections, read_events>> /\ (new.state \in Live => Reachable(c))
           \/ _forget(c) /\ new.state \notin Live
    PROVE  /\ obj' \in [Conns -> ConnType] /\ obj'[c] = new
           /\ Objects' /\ Entries' /\ LiveIsReachable' /\ Frame(c)
           /\ DOMAIN connections' \subseteq DOMAIN connections
           /\ \A d \in Conns : obj'[d].kind = obj[d].kind
<1>1. /\ obj' \in [Conns -> ConnType] /\ obj'[c] = new /\ c \in Conns
      /\ \A d \in Conns \ {c} : obj'[d] = obj[d]
  BY DEF Touched, TablesInv, Types
<1>2. \A d \in Conns : obj'[d].kind = obj[d].kind /\ Key(obj'[d]) = Key(obj[d])
                       /\ obj'[d].port = obj[d].port
  BY <1>1 DEF Touched, Key
<1>3. Objects'
  <2> SUFFICES ASSUME NEW d \in Conns PROVE Made(obj'[d])
    BY DEF Objects
  <2>1. CASE d = c
    BY <1>1, <1>2, <2>1 DEF Touched, TablesInv, Objects, Made
  <2>2. CASE d # c
    BY <1>1, <2>2 DEF TablesInv, Objects
  <2> QED BY <2>1, <2>2
<1>4. CASE UNCHANGED <<connections, read_events>> /\ (new.state \in Live => Reachable(c))
  <2>1. Entries'
    BY <1>2, <1>4 DEF TablesInv, Entries, Entry
  <2>2. \A d \in Conns : Reachable(d) => Reachable(d)'
    BY <1>2, <1>4 DEF Reachable
  <2>3. Frame(c)
    BY <1>1, <1>2, <1>4, <2>2 DEF Frame, Registered
  <2>4. LiveIsReachable'
    BY <1>1, <1>4, <2>2 DEF TablesInv, LiveIsReachable, Reachable
  <2> QED BY <1>1, <1>2, <1>3, <1>4, <2>1, <2>3, <2>4
<1>5. CASE _forget(c) /\ new.state \notin Live
  <2>1. /\ DOMAIN connections' = {k \in DOMAIN connections : connections[k] # c}
        /\ \A k \in DOMAIN connections' : connections'[k] = connections[k]
        /\ read_events' = read_events \ {c}
    BY <1>5 DEF _forget
  <2>2. Entries'
    BY <1>2, <2>1 DEF TablesInv, Entries, Entry
  <2>3. \A d \in Conns \ {c} : Reachable(d) => Reachable(d)'
    BY <1>2, <2>1 DEF Reachable
  <2>4. Frame(c)
    BY <1>1, <1>2, <2>1, <2>3 DEF Frame, Registered
  <2>5. LiveIsReachable'
    BY <1>1, <1>5, <2>3 DEF TablesInv, LiveIsReachable, Reachable
  <2> QED BY <1>1, <1>2, <1>3, <2>1, <2>2, <2>4, <2>5
<1> QED BY <1>4, <1>5

\* A new object is entered under a key that is free.
LEMMA RegisterTables ==
    ASSUME TablesInv, NEW c \in Conns, NEW new \in ConnType, Fresh(c),
           obj' = [obj EXCEPT ![c] = new], new.kind # "none", Made(new),
           Key(new) \notin DOMAIN connections, Register(c, Key(new))
    PROVE  /\ obj' \in [Conns -> ConnType] /\ obj'[c] = new
           /\ Objects' /\ Entries' /\ LiveIsReachable' /\ Frame(c)
           /\ DOMAIN connections' = DOMAIN connections \cup {Key(new)}
           /\ Reachable(c)' /\ obj[c].kind = "none"
<1>1. /\ obj' \in [Conns -> ConnType] /\ obj'[c] = new
      /\ \A d \in Conns \ {c} : obj'[d] = obj[d]
  BY DEF TablesInv, Types
<1>2. /\ DOMAIN connections' = DOMAIN connections \cup {Key(new)}
      /\ connections'[Key(new)] = c
      /\ \A k \in DOMAIN connections : connections'[k] = connections[k]
      /\ read_events' = read_events \cup {c}
  BY DEF Register
<1>3. obj[c].kind = "none"
  BY DEF Fresh, Unmade
<1>4. Objects'
  BY <1>1 DEF TablesInv, Objects
<1>5. Entries'
  <2> SUFFICES ASSUME NEW k \in DOMAIN connections' PROVE Entry(k)'
    BY DEF Entries
  <2>1. CASE k = Key(new)
    BY <1>1, <1>2, <2>1 DEF Entry
  <2>2. CASE k # Key(new)
    <3>1. Entry(k) /\ k \in DOMAIN connections
      BY <1>2, <2>2 DEF TablesInv, Entries
    <3>2. connections[k] \in Conns \ {c}
      BY <1>3, <3>1 DEF Entry
    <3> QED BY <1>1, <1>2, <3>1, <3>2 DEF Entry
  <2> QED BY <2>1, <2>2
<1>6. \A d \in Conns \ {c} : Reachable(d) => Reachable(d)'
  BY <1>1, <1>2 DEF Reachable
<1>7. Frame(c)
  BY <1>1, <1>2, <1>3, <1>6 DEF Frame, Registered
<1>8. Reachable(c)'
  BY <1>1, <1>2 DEF Reachable
<1>9. LiveIsReachable'
  BY <1>1, <1>6, <1>8 DEF TablesInv, LiveIsReachable, Reachable
<1> QED BY <1>1, <1>2, <1>3, <1>4, <1>5, <1>7, <1>8, <1>9

\* A thread that took no part keeps what it has.
LEMMA WorkerStays ==
    ASSUME TablesInv, NEW c \in Conns, Frame(c), NEW u \in Threads,
           pc'[u] = pc[u], of'[u] = of[u],
           pc[u] \in {"registered", "aborted", "raised"} => of[u] # c,
           pc[u] \in Connecting => \A v \in Threads \ {u} : of'[v] # of[u]
    PROVE  Worker(u)'
<1>1. Worker(u)
  BY DEF TablesInv, Workers
<1>2. /\ \A d \in Conns \ {c} : obj'[d] = obj[d]
      /\ \A d \in Conns : obj[d].kind # "none" => obj'[d].kind = obj[d].kind
  BY DEF Frame
<1>3. pc'[u] \in {"idle", "allocated"} => of'[u] = NoConn
  BY <1>1 DEF Worker
<1>4. pc'[u] \in Connecting \cup Using => of'[u] \in Conns /\ obj'[of'[u]].kind # "none"
  BY <1>1, <1>2 DEF Worker
<1>5. pc'[u] \in Connecting =>
          obj'[of'[u]].kind = "client" /\ \A v \in Threads \ {u} : of'[v] # of'[u]
  BY <1>1, <1>2 DEF Worker
<1>6. /\ pc'[u] \in {"registered", "aborted", "raised"} => obj'[of'[u]].state = "CLOSED"
      /\ pc'[u] = "registered" =>
            Reachable(of[u])' /\ ~obj'[of'[u]].established /\ ~obj'[of'[u]].failed
  BY <1>1, <1>2 DEF Worker, Connecting, Frame
<1>7. pc'[u] = "raised" => ~Registered(of[u])' /\ of'[u] \notin read_events'
  BY <1>1 DEF Worker, Connecting, Frame
<1> QED BY <1>3, <1>4, <1>5, <1>6, <1>7 DEF Worker, Reachable, Registered

\* The reservations outlast every step that leaves the threads alone and enters
\* no ephemeral port.
LEMMA ReservedStays ==
    ASSUME TablesInv, UNCHANGED <<pc, port>>,
           \A k \in DOMAIN connections' :
               k \in DOMAIN connections \/ k[1] \notin Ephemeral
    PROVE  Reservations'
BY DEF TablesInv, Reservations, Reserved

\* Where the objects keep their kinds the accept queue keeps its children.
LEMMA QueueStays ==
    ASSUME TablesInv, UNCHANGED accept_queue,
           \A d \in Conns : obj[d].kind # "none" => obj'[d].kind = obj[d].kind
    PROVE  Queue'
<1> SUFFICES ASSUME NEW i \in 1 .. Len(accept_queue)
             PROVE  obj'[accept_queue[i]].kind = "child"
  BY DEF Queue
<1>1. accept_queue[i] \in Conns
  BY ElementOfSeq DEF TablesInv, Types
<1> QED BY <1>1 DEF TablesInv, Queue

-----------------------------------------------------------------------------
(* The reader thread                                                       *)

\* An object found in the table is found under its key.
LEMMA RegisteredReachable ==
    ASSUME TablesInv, NEW c \in Conns, Registered(c)
    PROVE  Reachable(c) /\ obj[c].kind # "none"
BY DEF TablesInv, Entries, Entry, Registered, Reachable

\* A segment or a timer changes a connection that is in the table and live.
LEMMA ReaderStep ==
    ASSUME TablesInv, NEW c \in Conns, NEW new, Registered(c), obj[c].state \in Live,
           obj' = [obj EXCEPT ![c] = new],
           new \in ConnType, new.kind = obj[c].kind,
           new.port = obj[c].port, new.peer = obj[c].peer,
           new.failed => new.state = "CLOSED",
           \/ UNCHANGED <<connections, read_events>>
           \/ ForgetChild(c) /\ new.state = "CLOSED",
           UNCHANGED <<accept_queue, next_port, pc, of, port>>,
           \/ notifying' = NoConn
           \/ notifying' = c /\ obj[c].kind = "client" /\ new.state = "CLOSED"
              /\ new.established
    PROVE  TablesInv'
<1>1. Reachable(c) /\ Touched(c, new)
  BY RegisteredReachable DEF Touched
<1>2. \/ UNCHANGED <<connections, read_events>> /\ (new.state \in Live => Reachable(c))
      \/ _forget(c) /\ new.state \notin Live
  BY <1>1 DEF ForgetChild, Live
<1>3. /\ obj' \in [Conns -> ConnType] /\ obj'[c] = new
      /\ Objects' /\ Entries' /\ LiveIsReachable' /\ Frame(c)
      /\ DOMAIN connections' \subseteq DOMAIN connections
      /\ \A d \in Conns : obj'[d].kind = obj[d].kind
  BY <1>1, <1>2, TouchTables
<1>4. Types'
  BY <1>3 DEF TablesInv, Types
<1>5. Workers'
  <2> SUFFICES ASSUME NEW u \in Threads PROVE Worker(u)'
    BY DEF Workers
  <2>1. pc[u] \in {"registered", "aborted", "raised"} => of[u] # c
    BY DEF TablesInv, Workers, Worker, Live
  <2>2. pc[u] \in Connecting => \A v \in Threads \ {u} : of'[v] # of[u]
    BY DEF TablesInv, Workers, Worker
  <2> QED BY <1>3, <2>1, <2>2, WorkerStays
<1>6. Reservations'
  BY <1>3, ReservedStays
<1>7. Queue'
  BY <1>3, QueueStays
<1>8. Notified'
  BY <1>3 DEF Notified
<1> QED BY <1>3, <1>4, <1>5, <1>6, <1>7, <1>8 DEF TablesInv

\* Segments and timers keep the invariant.
LEMMA ReaderKeeps ==
    ASSUME TablesInv, NEW c \in Conns,
           \/ SynAckArrives(c) \/ HandshakeAckArrives(c) \/ DataArrives(c)
           \/ FinArrives(c) \/ LastAckArrives(c) \/ RstArrives(c) \/ TimerCloses(c)
    PROVE  TablesInv'
<1>a. obj[c] \in ConnType
  BY DEF TablesInv, Types
<1>b. obj[c].failed => obj[c].state = "CLOSED"
  BY DEF TablesInv, Objects, Made
<1>1. CASE SynAckArrives(c)
  <2> DEFINE new == [obj[c] EXCEPT !.state = "ESTABLISHED", !.established = TRUE,
                                   !.opened = TRUE]
  <2>1. /\ new \in ConnType /\ new.kind = obj[c].kind
        /\ new.port = obj[c].port /\ new.peer = obj[c].peer
        /\ new.failed = obj[c].failed
    BY <1>a DEF ConnType, Live
  <2>2. /\ Registered(c) /\ obj[c].state \in Live /\ ~obj[c].failed
        /\ obj' = [obj EXCEPT ![c] = new]
        /\ UNCHANGED <<connections, read_events, accept_queue, next_port, pc, of, port>>
        /\ notifying' = NoConn
    BY <1>b, <1>1 DEF SynAckArrives, Arrives, ReaderFree, Change, tables, Live
  <2> HIDE DEF new
  <2> QED BY <2>1, <2>2, ReaderStep
<1>2. CASE HandshakeAckArrives(c)
  <2> DEFINE new == [obj[c] EXCEPT !.state = "ESTABLISHED", !.opened = TRUE]
  <2>1. /\ new \in ConnType /\ new.kind = obj[c].kind
        /\ new.port = obj[c].port /\ new.peer = obj[c].peer
        /\ new.failed = obj[c].failed
    BY <1>a DEF ConnType, Live
  <2>2. /\ Registered(c) /\ obj[c].state \in Live /\ ~obj[c].failed
        /\ obj' = [obj EXCEPT ![c] = new]
        /\ UNCHANGED <<connections, read_events, accept_queue, next_port, pc, of, port>>
        /\ notifying' = NoConn
    BY <1>b, <1>2 DEF HandshakeAckArrives, Arrives, ReaderFree, Change, tables, Live
  <2> HIDE DEF new
  <2> QED BY <2>1, <2>2, ReaderStep
<1>3. CASE DataArrives(c)
  <2> DEFINE read == obj[c].readable \/ Signalled(c)
             more == obj[c].buf + 1
             new == [obj[c] EXCEPT !.buf = more, !.readable = read]
  <2>1. read \in BOOLEAN /\ more \in Nat
    BY <1>a DEF ConnType
  <2> HIDE DEF read, more
  <2>2. /\ new \in ConnType /\ new.kind = obj[c].kind
        /\ new.port = obj[c].port /\ new.peer = obj[c].peer
        /\ new.failed = obj[c].failed
    BY <1>a, <2>1 DEF ConnType
  <2>3. /\ Registered(c) /\ obj[c].state \in Live /\ ~obj[c].failed
        /\ obj' = [obj EXCEPT ![c] = new]
        /\ UNCHANGED <<connections, read_events, accept_queue, next_port, pc, of, port>>
        /\ notifying' = NoConn
    BY <1>b, <1>3 DEF DataArrives, Arrives, ReaderFree, Change, tables, Live, read, more
  <2> HIDE DEF new
  <2> QED BY <2>2, <2>3, ReaderStep
<1>4. CASE FinArrives(c)
  <2> DEFINE next == IF obj[c].state = "ESTABLISHED" THEN "CLOSE-WAIT" ELSE "TIME-WAIT"
             new == [obj[c] EXCEPT !.state = next]
  <2>1. next \in Live
    BY DEF Live
  <2>2. obj' = [obj EXCEPT ![c] = new]
    BY <1>4 DEF FinArrives, Arrives, Change
  <2> HIDE DEF next
  <2>3. /\ new \in ConnType /\ new.kind = obj[c].kind
        /\ new.port = obj[c].port /\ new.peer = obj[c].peer
        /\ new.failed = obj[c].failed
    BY <1>a, <2>1 DEF ConnType
  <2>4. /\ Registered(c) /\ obj[c].state \in Live /\ ~obj[c].failed
        /\ UNCHANGED <<connections, read_events, accept_queue, next_port, pc, of, port>>
        /\ notifying' = NoConn
    BY <1>b, <1>4 DEF FinArrives, Arrives, ReaderFree, tables, Live
  <2> HIDE DEF new
  <2> QED BY <2>2, <2>3, <2>4, ReaderStep
<1>5. CASE LastAckArrives(c) \/ RstArrives(c)
  <2>1. /\ Registered(c) /\ obj[c].state \in Live /\ obj' = [obj EXCEPT ![c] = Closed(obj[c])]
        /\ ForgetChild(c) /\ notifying' = NoConn
        /\ UNCHANGED <<accept_queue, next_port, pc, of, port>>
    BY <1>5 DEF LastAckArrives, RstArrives, Arrives, ReaderFree, Change, Live
  <2> QED BY <1>a, <2>1, ClosedIs, ReaderStep
<1>6. CASE TimerCloses(c)
  <2> DEFINE new == [Closed(obj[c]) EXCEPT !.failed = obj[c].failed]
  <2>1. /\ new \in ConnType /\ new.kind = obj[c].kind /\ new.state = "CLOSED"
        /\ new.port = obj[c].port /\ new.peer = obj[c].peer
        /\ new.failed = obj[c].failed /\ new.established = (obj[c].kind = "client")
    BY <1>a, ClosedIs DEF ConnType
  <2>2. /\ Registered(c) /\ obj[c].state \in Live /\ ~obj[c].failed
        /\ obj' = [obj EXCEPT ![c] = new]
        /\ ForgetChild(c)
        /\ notifying' = IF obj[c].kind = "client" THEN c ELSE NoConn
        /\ UNCHANGED <<accept_queue, next_port, pc, of, port>>
    BY <1>b, <1>6 DEF TimerCloses, Arrives, Change, Live
  <2> HIDE DEF new
  <2> QED BY <2>1, <2>2, ReaderStep
<1> QED BY <1>1, <1>2, <1>3, <1>4, <1>5, <1>6

\* The second half of on_closed.
LEMMA NotifyKeeps ==
    ASSUME TablesInv, ClosedSetsFailed
    PROVE  TablesInv'
<1> DEFINE c == notifying
           new == [obj[c] EXCEPT !.failed = TRUE]
<1>1. /\ c \in Conns /\ obj[c].kind = "client" /\ obj[c] \in ConnType
      /\ obj[c].state = "CLOSED" /\ obj[c].established
  BY DEF ClosedSetsFailed, ReaderFree, TablesInv, Types, Notified
<1>2. /\ obj' = [obj EXCEPT ![c] = new] /\ notifying' = NoConn
      /\ UNCHANGED <<connections, read_events, accept_queue, next_port, pc, of, port>>
  BY DEF ClosedSetsFailed, Change, tables
<1>3. /\ new \in ConnType /\ new.kind = obj[c].kind /\ new.state = obj[c].state
      /\ new.port = obj[c].port /\ new.peer = obj[c].peer
  BY <1>1 DEF ConnType
<1> HIDE DEF c, new
<1>4. Touched(c, new) /\ (new.state \in Live => Reachable(c))
  BY <1>1, <1>2, <1>3 DEF Touched, TablesInv, LiveIsReachable, Reachable
<1>5. /\ obj' \in [Conns -> ConnType] /\ obj'[c] = new
      /\ Objects' /\ Entries' /\ LiveIsReachable' /\ Frame(c)
      /\ DOMAIN connections' \subseteq DOMAIN connections
      /\ \A d \in Conns : obj'[d].kind = obj[d].kind
  BY <1>2, <1>4, TouchTables
<1>6. \A d \in Conns : obj'[d].state = obj[d].state /\ Key(obj'[d]) = Key(obj[d])
  BY <1>1, <1>2, <1>3, <1>5 DEF TablesInv, Types, Key
<1>7. Workers'
  <2> SUFFICES ASSUME NEW u \in Threads PROVE Worker(u)'
    BY DEF Workers
  <2>1. Worker(u) /\ (pc[u] = "registered" => of[u] # c)
    BY <1>1 DEF TablesInv, Workers, Worker
  <2>2. /\ pc'[u] = "registered" =>
             Reachable(of[u])' /\ ~obj'[of'[u]].established /\ ~obj'[of'[u]].failed
        /\ Registered(of[u])' = Registered(of[u])
    BY <1>2, <1>5, <2>1 DEF Frame, Worker, Connecting, Registered
  <2> QED BY <1>2, <1>5, <1>6, <2>1, <2>2 DEF Worker, Connecting
<1> QED BY <1>2, <1>5, <1>7, ReservedStays, QueueStays DEF TablesInv, Types, Notified

\* A SYN for the listener: its key is free and its port is not ephemeral.
LEMMA SynKeeps ==
    ASSUME TablesInv, NEW peer \in Peers, SynArrives(peer)
    PROVE  TablesInv'
<1> DEFINE new == [Unmade EXCEPT !.kind = "child", !.peer = peer, !.state = "SYN-RECEIVED"]
<1>1. PICK c \in Conns : /\ Fresh(c) /\ obj' = [obj EXCEPT ![c] = new]
                         /\ Register(c, <<ListenPort, peer>>)
                         /\ accept_queue' = Append(accept_queue, c)
  BY DEF SynArrives, Change, _enqueue_accept
<1>2. /\ <<ListenPort, peer>> \notin DOMAIN connections
      /\ UNCHANGED <<next_port, notifying, pc, of, port>>
  BY DEF SynArrives
<1>3. /\ new \in ConnType /\ new.kind = "child" /\ new.port = ListenPort
      /\ new.peer = peer /\ ~new.failed
  BY UnmadeIs DEF Unmade, ConnType, Live
<1> HIDE DEF new
<1>4. Key(new) = <<ListenPort, peer>> /\ Made(new)
  BY <1>3 DEF Key, Made
<1>5. /\ obj' \in [Conns -> ConnType] /\ obj'[c] = new
      /\ Objects' /\ Entries' /\ LiveIsReachable' /\ Frame(c)
      /\ DOMAIN connections' = DOMAIN connections \cup {Key(new)}
      /\ Reachable(c)' /\ obj[c].kind = "none"
  BY <1>1, <1>2, <1>3, <1>4, RegisterTables
<1>6. \A d \in Conns : obj[d].kind # "none" => obj'[d].kind = obj[d].kind
  BY <1>5 DEF Frame
<1>7. accept_queue' \in Seq(Conns) /\ Queue'
  <2>1. accept_queue \in Seq(Conns) /\ Len(accept_queue) \in Nat
    BY LenProperties DEF TablesInv, Types
  <2>2. /\ accept_queue' \in Seq(Conns) /\ Len(accept_queue') = Len(accept_queue) + 1
        /\ accept_queue'[Len(accept_queue) + 1] = c
        /\ \A i \in 1 .. Len(accept_queue) : accept_queue'[i] = accept_queue[i]
    BY <1>1, <2>1, AppendProperties
  <2>3. ASSUME NEW i \in 1 .. Len(accept_queue') PROVE obj'[accept_queue'[i]].kind = "child"
    <3>1. CASE i = Len(accept_queue) + 1
      BY <1>3, <1>5, <2>2, <3>1
    <3>2. CASE i # Len(accept_queue) + 1
      <4>1. i \in 1 .. Len(accept_queue)
        BY <2>1, <2>2, <3>2
      <4>2. accept_queue[i] \in Conns /\ obj[accept_queue[i]].kind = "child"
        BY <2>1, <4>1, ElementOfSeq DEF TablesInv, Queue
      <4> QED BY <1>6, <2>2, <4>1, <4>2
    <3> QED BY <3>1, <3>2
  <2> QED BY <2>2, <2>3 DEF Queue
<1>8. Types'
  BY <1>2, <1>5, <1>7 DEF TablesInv, Types
<1>9. Workers'
  <2> SUFFICES ASSUME NEW u \in Threads PROVE Worker(u)'
    BY DEF Workers
  <2>1. pc[u] \in {"registered", "aborted", "raised"} => of[u] # c
    BY <1>5 DEF TablesInv, Workers, Worker, Connecting
  <2>2. pc[u] \in Connecting => \A v \in Threads \ {u} : of'[v] # of[u]
    BY <1>2 DEF TablesInv, Workers, Worker
  <2> QED BY <1>2, <1>5, <2>1, <2>2, WorkerStays
<1>10. Reservations'
  <2>1. Key(new)[1] \notin Ephemeral
    BY <1>4, SocketsAssumption DEF Ephemeral
  <2> QED BY <1>2, <1>5, <2>1, ReservedStays
<1>11. Notified'
  <2>1. notifying # NoConn => notifying \in Conns \ {c}
    BY <1>5 DEF TablesInv, Types, Notified
  <2> QED BY <1>2, <1>5, <2>1 DEF TablesInv, Notified, Frame
<1> QED BY <1>5, <1>7, <1>8, <1>9, <1>10, <1>11 DEF TablesInv

-----------------------------------------------------------------------------
(* The application threads                                                 *)

\* A thread changes the object it works on and goes to its next statement.
LEMMA ThreadStep ==
    ASSUME TablesInv, NEW t \in Threads, NEW new, NEW where,
           pc[t] \in Connecting \cup Using,
           obj' = [obj EXCEPT ![of[t]] = new],
           new \in ConnType, new.kind = obj[of[t]].kind,
           new.port = obj[of[t]].port, new.peer = obj[of[t]].peer,
           new.failed => new.state = "CLOSED",
           \/ /\ UNCHANGED <<connections, read_events>>
              /\ new.state \in Live => Reachable(of[t])
           \/ _forget(of[t]) /\ new.state \notin Live,
           pc' = [pc EXCEPT ![t] = where],
           \/ where = "idle" /\ of' = [of EXCEPT ![t] = NoConn]
           \/ where \in Using /\ UNCHANGED of
           \/ where \in {"waiting", "link_error"} /\ pc[t] \in Connecting /\ UNCHANGED of
           \/ where = "aborted" /\ pc[t] \in Connecting /\ UNCHANGED of
              /\ new.state = "CLOSED"
           \/ where = "raised" /\ pc[t] \in Connecting /\ UNCHANGED of /\ _forget(of[t])
              /\ new.state = "CLOSED",
           UNCHANGED <<accept_queue, next_port, port, notifying>>,
           notifying = of[t] => new.state = "CLOSED" /\ new.established
    PROVE  TablesInv'
<1> DEFINE c == of[t]
<1>1. c \in Conns /\ Touched(c, new)
  BY DEF Touched, TablesInv, Workers, Worker
<1>2. /\ obj' \in [Conns -> ConnType] /\ obj'[c] = new
      /\ Objects' /\ Entries' /\ LiveIsReachable' /\ Frame(c)
      /\ DOMAIN connections' \subseteq DOMAIN connections
      /\ \A d \in Conns : obj'[d].kind = obj[d].kind
  <2> HIDE DEF c
  <2> QED BY <1>1, TouchTables DEF c
<1>3. /\ pc'[t] = where
      /\ \A u \in Threads \ {t} : pc'[u] = pc[u] /\ of'[u] = of[u]
  BY DEF TablesInv, Types
<1>4. Types'
  <2>1. pc' \in [Threads -> {"idle", "allocated"} \cup Connecting \cup Using]
    BY DEF TablesInv, Types, Connecting
  <2>2. of' \in [Threads -> Conns \cup {NoConn}]
    BY DEF TablesInv, Types
  <2> QED BY <1>2, <2>1, <2>2 DEF TablesInv, Types
<1>5. ASSUME NEW u \in Threads \ {t} PROVE Worker(u)'
  <2>1. pc[u] \in {"registered", "aborted", "raised"} => of[u] # c
    BY DEF TablesInv, Workers, Worker, Connecting
  <2>2. pc[u] \in Connecting => \A v \in Threads \ {u} : of'[v] # of[u]
    <3> SUFFICES ASSUME pc[u] \in Connecting, NEW v \in Threads \ {u} PROVE of'[v] # of[u]
      OBVIOUS
    <3>1. of[v] # of[u] /\ of[u] # NoConn
      BY DEF TablesInv, Workers, Worker, Conns, NoConn
    <3>2. of'[v] \in {of[v], NoConn}
      BY DEF TablesInv, Types
    <3> QED BY <3>1, <3>2
  <2> HIDE DEF c
  <2> QED BY <1>1, <1>2, <1>3, <2>1, <2>2, WorkerStays
<1>6. Worker(t)'
  <2>1. CASE where = "idle" /\ of' = [of EXCEPT ![t] = NoConn]
    <3>1. of'[t] = NoConn
      BY <2>1 DEF TablesInv, Types
    <3> QED BY <1>3, <2>1, <3>1 DEF Worker, Connecting, Using
  <2>2. CASE where \in Using /\ UNCHANGED of
    BY <1>1, <1>2, <1>3, <2>2 DEF Worker, Connecting, Using, TablesInv, Workers
  <2>3. CASE /\ where \in {"waiting", "aborted", "raised", "link_error"}
             /\ pc[t] \in Connecting /\ UNCHANGED of
    <3>1. obj[c].kind = "client" /\ \A u \in Threads \ {t} : of[u] # of[t]
      BY <2>3 DEF TablesInv, Workers, Worker
    <3>2. where = "raised" => ~Registered(of[t])' /\ of[t] \notin read_events'
      BY <2>3 DEF _forget, Registered, Using
    <3>3. where \in {"aborted", "raised"} => obj'[c].state = "CLOSED"
      BY <1>2, <2>3 DEF Using
    <3> QED BY <1>1, <1>2, <1>3, <2>3, <3>1, <3>2, <3>3
         DEF Worker, Connecting, Using, Registered
  <2> QED BY <2>1, <2>2, <2>3
<1>7. Workers'
  BY <1>5, <1>6 DEF Workers
<1>8. Reservations'
  <2>1. \A u \in Threads : pc'[u] = "allocated" => pc[u] = "allocated" /\ port'[u] = port[u]
    BY <1>3 DEF Connecting, Using
  <2> QED BY <1>2, <2>1 DEF TablesInv, Reservations, Reserved
<1>9. Queue'
  BY <1>2, QueueStays
<1>10. Notified'
  <2>1. CASE notifying = c
    BY <1>2, <2>1 DEF TablesInv, Notified
  <2>2. CASE notifying # c
    BY <1>2, <2>2 DEF TablesInv, Types, Notified, Frame
  <2> QED BY <2>1, <2>2
<1> QED BY <1>2, <1>4, <1>7, <1>8, <1>9, <1>10 DEF TablesInv

\* tcp_connect after the registration.
LEMMA ConnectKeeps ==
    ASSUME TablesInv, NEW t \in Threads,
           \/ ConnectSendsSyn(t) \/ ConnectReturns(t) \/ ConnectTimesOut(t)
           \/ ConnectForgets(t) \/ ConnectLinkFails(t)
    PROVE  TablesInv'
<1> DEFINE c == of[t]
<1>a. pc[t] \in Connecting
  BY DEF ConnectSendsSyn, ConnectReturns, ConnectTimesOut, ConnectForgets,
         ConnectLinkFails, Connecting
<1>b. /\ c \in Conns /\ obj[c] \in ConnType /\ obj[c].kind = "client"
      /\ obj[c].failed => obj[c].state = "CLOSED"
      /\ obj[c].state \in Live => Reachable(c)
      /\ notifying = c => obj[c].state = "CLOSED" /\ obj[c].established
  BY <1>a DEF TablesInv, Types, Workers, Worker, Objects, Made, LiveIsReachable,
              Reachable, Notified, Conns, NoConn
<1>c. obj = [obj EXCEPT ![c] = obj[c]]
  BY <1>b DEF TablesInv, Types
<1>1. CASE ConnectSendsSyn(t)
  <2> DEFINE new == [obj[c] EXCEPT !.state = "SYN-SENT"]
  <2>1. /\ new \in ConnType /\ new.kind = obj[c].kind /\ new.state = "SYN-SENT"
        /\ new.port = obj[c].port /\ new.peer = obj[c].peer /\ new.failed = obj[c].failed
    BY <1>b DEF ConnType, Live
  <2>2. Reachable(c) /\ ~obj[c].failed /\ ~obj[c].established
    BY <1>1 DEF ConnectSendsSyn, TablesInv, Workers, Worker
  <2>3. /\ obj' = [obj EXCEPT ![c] = new] /\ pc' = [pc EXCEPT ![t] = "waiting"]
        /\ UNCHANGED <<connections, read_events, of, accept_queue, next_port, port, notifying>>
    BY <1>1 DEF ConnectSendsSyn, Change, Goto, tables
  <2> HIDE DEF new
  <2> QED BY <1>a, <1>b, <2>1, <2>2, <2>3, ThreadStep
<1>2. CASE ConnectReturns(t)
  <2>1. CASE Refused(obj[c])
    <3>1. /\ obj' = [obj EXCEPT ![c] = obj[c]] /\ pc' = [pc EXCEPT ![t] = "raised"]
          /\ _forget(c)
          /\ UNCHANGED <<of, accept_queue, next_port, port, notifying>>
      BY <1>c, <1>2, <2>1 DEF ConnectReturns, Goto
    <3>2. obj[c].state = "CLOSED" /\ obj[c].state \notin Live
      BY <1>b, <2>1 DEF Refused, Live
    <3> QED BY <1>a, <1>b, <3>1, <3>2, ThreadStep
  <2>2. CASE ~Refused(obj[c])
    <3>1. /\ obj' = [obj EXCEPT ![c] = obj[c]] /\ pc' = [pc EXCEPT ![t] = "open"]
          /\ UNCHANGED <<connections, read_events, of, accept_queue, next_port, port,
                         notifying>>
      BY <1>c, <1>2, <2>2 DEF ConnectReturns, Goto
    <3>2. "open" \in Using
      BY DEF Using
    <3> QED BY <1>a, <1>b, <3>1, <3>2, ThreadStep
  <2> QED BY <2>1, <2>2
<1>3. CASE ConnectTimesOut(t)
  <2>1. /\ Closed(obj[c]) \in ConnType
        /\ Closed(obj[c]).kind = obj[c].kind /\ Closed(obj[c]).port = obj[c].port
        /\ Closed(obj[c]).peer = obj[c].peer /\ Closed(obj[c]).state = "CLOSED"
        /\ Closed(obj[c]).established = (obj[c].kind = "client")
    BY <1>b, ClosedIs
  <2>2. /\ obj' = [obj EXCEPT ![c] = Closed(obj[c])] /\ pc' = [pc EXCEPT ![t] = "aborted"]
        /\ UNCHANGED <<connections, read_events, of, accept_queue, next_port, port, notifying>>
    BY <1>3 DEF ConnectTimesOut, Change, Goto, tables
  <2>3. "CLOSED" \notin Live
    BY DEF Live
  <2> QED BY <1>a, <1>b, <2>1, <2>2, <2>3, ThreadStep
<1>4. CASE ConnectForgets(t)
  <2>1. /\ obj' = [obj EXCEPT ![c] = obj[c]] /\ pc' = [pc EXCEPT ![t] = "raised"]
        /\ _forget(c)
        /\ UNCHANGED <<of, accept_queue, next_port, port, notifying>>
    BY <1>c, <1>4 DEF ConnectForgets, Goto
  <2>2. obj[c].state = "CLOSED" /\ obj[c].state \notin Live
    BY <1>4 DEF ConnectForgets, TablesInv, Workers, Worker, Live
  <2> QED BY <1>a, <1>b, <2>1, <2>2, ThreadStep
<1>5. CASE ConnectLinkFails(t)
  <2>1. /\ obj' = [obj EXCEPT ![c] = obj[c]] /\ pc' = [pc EXCEPT ![t] = "link_error"]
        /\ UNCHANGED <<connections, read_events, of, accept_queue, next_port, port, notifying>>
    BY <1>c, <1>5 DEF ConnectLinkFails, Goto, tables
  <2> QED BY <1>a, <1>b, <2>1, ThreadStep
<1> QED BY <1>1, <1>2, <1>3, <1>4, <1>5

\* recv and close, and what a connect that raised leaves.
LEMMA SocketKeeps ==
    ASSUME TablesInv, NEW t \in Threads, RecvStep(t) \/ Close(t) \/ Discard(t)
    PROVE  TablesInv'
<1> DEFINE c == of[t]
<1>a. pc[t] \in Connecting \cup Using
  BY DEF RecvStep, RecvTakes, RecvChecks, wait_readable, WaitEnds, Close, Discard,
         Connecting, Using
<1>b. /\ c \in Conns /\ obj[c] \in ConnType
      /\ obj[c].failed => obj[c].state = "CLOSED"
      /\ obj[c].state \in Live => Reachable(c)
      /\ notifying = c => /\ obj[c].state = "CLOSED" /\ obj[c].established
                          /\ obj[c].kind = "client"
  BY <1>a DEF TablesInv, Types, Workers, Worker, Objects, Made, LiveIsReachable,
              Reachable, Notified, Conns, NoConn
<1>c. obj = [obj EXCEPT ![c] = obj[c]]
  BY <1>b DEF TablesInv, Types
<1>1. CASE RecvTakes(t)
  <2> DEFINE new == [obj[c] EXCEPT !.buf = 0]
             where == IF obj[c].buf > 0 THEN "open" ELSE "check"
  <2>1. /\ new \in ConnType /\ new.kind = obj[c].kind /\ new.state = obj[c].state
        /\ new.port = obj[c].port /\ new.peer = obj[c].peer /\ new.failed = obj[c].failed
        /\ new.established = obj[c].established
    BY <1>b DEF ConnType
  <2>2. /\ obj' = [obj EXCEPT ![c] = new] /\ pc' = [pc EXCEPT ![t] = where]
        /\ UNCHANGED <<connections, read_events, of, accept_queue, next_port, port, notifying>>
    BY <1>1 DEF RecvTakes, Change, Goto, tables
  <2>3. where \in Using
    BY DEF Using
  <2> HIDE DEF new, where
  <2> QED BY <1>a, <1>b, <2>1, <2>2, <2>3, ThreadStep
<1>2. CASE RecvChecks(t) \/ wait_readable(t) \/ WaitEnds(t)
  <2>1. PICK where \in Using : pc' = [pc EXCEPT ![t] = where]
    BY <1>2 DEF RecvChecks, wait_readable, WaitEnds, Goto, Using
  <2>2. /\ obj' = [obj EXCEPT ![c] = obj[c]]
        /\ UNCHANGED <<connections, read_events, of, accept_queue, next_port, port, notifying>>
    BY <1>c, <1>2 DEF RecvChecks, wait_readable, WaitEnds, tables
  <2> QED BY <1>a, <1>b, <2>1, <2>2, ThreadStep
<1>3. CASE Close(t)
  <2>0. /\ pc' = [pc EXCEPT ![t] = "idle"] /\ of' = [of EXCEPT ![t] = NoConn]
        /\ UNCHANGED <<accept_queue, next_port, port, notifying>>
    BY <1>3 DEF Close, Goto
  <2>1. CASE Change(c, Closed(obj[c])) /\ ForgetChild(c)
    <3>1. /\ obj' = [obj EXCEPT ![c] = Closed(obj[c])]
          /\ UNCHANGED <<connections, read_events>> \/ _forget(c)
      BY <2>1 DEF Change, ForgetChild
    <3>2. /\ Closed(obj[c]) \in ConnType
          /\ Closed(obj[c]).kind = obj[c].kind /\ Closed(obj[c]).port = obj[c].port
          /\ Closed(obj[c]).peer = obj[c].peer /\ Closed(obj[c]).state = "CLOSED"
          /\ Closed(obj[c]).established = (obj[c].kind = "client")
      BY <1>b, ClosedIs
    <3>3. "CLOSED" \notin Live
      BY DEF Live
    <3> QED BY <1>a, <1>b, <2>0, <3>1, <3>2, <3>3, ThreadStep
  <2>2. CASE /\ AfterClose(obj[c]) # "CLOSED"
             /\ Change(c, [obj[c] EXCEPT !.state = AfterClose(obj[c])])
             /\ UNCHANGED <<connections, read_events>>
    <3> DEFINE s == AfterClose(obj[c])
               new == [obj[c] EXCEPT !.state = s]
    <3>1. /\ obj' = [obj EXCEPT ![c] = new] /\ UNCHANGED <<connections, read_events>>
      BY <2>2 DEF Change
    <3>2. s \in Live /\ obj[c].state \in Live
      BY <1>b, <2>2 DEF AfterClose, ConnType, Live
    <3> HIDE DEF s
    <3>3. /\ new \in ConnType /\ new.kind = obj[c].kind /\ new.state = s
          /\ new.port = obj[c].port /\ new.peer = obj[c].peer /\ new.failed = obj[c].failed
      BY <1>b, <3>2 DEF ConnType
    <3>4. obj[c].state # "CLOSED"
      BY <3>2 DEF Live
    <3> HIDE DEF new
    <3> QED BY <1>a, <1>b, <2>0, <3>1, <3>2, <3>3, <3>4, ThreadStep
  <2>3. CASE UNCHANGED <<obj, connections, read_events>>
    <3>1. obj' = [obj EXCEPT ![c] = obj[c]]
      BY <1>c, <2>3
    <3> QED BY <1>a, <1>b, <2>0, <2>3, <3>1, ThreadStep
  <2> QED BY <1>3, <2>1, <2>2, <2>3 DEF Close
<1>4. CASE Discard(t)
  <2>1. /\ obj' = [obj EXCEPT ![c] = obj[c]] /\ pc' = [pc EXCEPT ![t] = "idle"]
        /\ of' = [of EXCEPT ![t] = NoConn]
        /\ UNCHANGED <<connections, read_events, accept_queue, next_port, port, notifying>>
    BY <1>c, <1>4 DEF Discard, Goto, tables
  <2> QED BY <1>a, <1>b, <2>1, ThreadStep
<1> QED BY <1>1, <1>2, <1>3, <1>4 DEF RecvStep

\* Steps that leave objects and tables alone.
LEMMA AccountsStay ==
    ASSUME TablesInv, UNCHANGED <<obj, connections, read_events, notifying>>
    PROVE  /\ Objects' /\ Entries' /\ LiveIsReachable' /\ Notified'
           /\ \A c \in Conns : Frame(c)
BY DEF TablesInv, Objects, Entries, Entry, LiveIsReachable, Notified, Frame, Reachable,
       Registered

\* tcp_listen starts with an empty accept queue.
LEMMA ListenKeeps ==
    ASSUME TablesInv, NEW t \in Threads, tcp_listen(t)
    PROVE  TablesInv'
<1>1. /\ accept_queue' = << >>
      /\ UNCHANGED <<obj, connections, read_events, next_port, notifying, pc, of, port>>
  BY DEF tcp_listen
<1>2. << >> \in Seq(Conns) /\ Len(<< >>) = 0
  BY EmptySeq
<1>3. Types' /\ Queue'
  BY <1>1, <1>2 DEF TablesInv, Types, Queue
<1>4. Workers' /\ Reservations'
  BY <1>1 DEF TablesInv, Workers, Worker, Reservations, Reserved, Reachable, Registered
<1> QED BY <1>1, <1>3, <1>4, AccountsStay DEF TablesInv

\* tcp_accept hands a child to a thread.
LEMMA AcceptKeeps ==
    ASSUME TablesInv, NEW t \in Threads, tcp_accept(t)
    PROVE  TablesInv'
<1> DEFINE q == accept_queue
           c == Head(q)
<1>1. /\ pc[t] = "idle" /\ q # << >> /\ accept_queue' = Tail(q)
      /\ of' = [of EXCEPT ![t] = c] /\ pc' = [pc EXCEPT ![t] = "open"]
      /\ UNCHANGED <<obj, connections, read_events, next_port, notifying, port>>
  BY DEF tcp_accept, Goto
<1>2. q \in Seq(Conns)
  BY DEF TablesInv, Types
<1>3. /\ c = q[1] /\ c \in Conns /\ Len(q) \in Nat /\ 1 \in 1 .. Len(q)
      /\ Tail(q) \in Seq(Conns) /\ Len(Tail(q)) = Len(q) - 1
      /\ \A i \in 1 .. Len(Tail(q)) : Tail(q)[i] = q[i + 1]
  BY <1>1, <1>2, HeadTailProperties, LenProperties, EmptySeq
<1>4. obj[c].kind = "child"
  BY <1>3 DEF TablesInv, Queue
<1>5. Queue'
  <2> SUFFICES ASSUME NEW i \in 1 .. Len(Tail(q)) PROVE obj[Tail(q)[i]].kind = "child"
    BY <1>1 DEF Queue
  <2>1. i + 1 \in 1 .. Len(q)
    BY <1>3
  <2> QED BY <1>3, <2>1 DEF TablesInv, Queue
<1> HIDE DEF c
<1>6. Types'
  BY <1>1, <1>3 DEF TablesInv, Types, Using
<1>7. /\ pc'[t] = "open" /\ of'[t] = c
      /\ \A u \in Threads \ {t} : pc'[u] = pc[u] /\ of'[u] = of[u]
  BY <1>1 DEF TablesInv, Types
<1>8. ASSUME NEW u \in Threads \ {t} PROVE Worker(u)'
  <2>1. pc[u] \in Connecting => of[u] # c /\ obj[of[u]].kind = "client"
    BY <1>4 DEF TablesInv, Workers, Worker
  <2>2. pc[u] \in {"registered", "aborted", "raised"} => of[u] # c
    BY <2>1 DEF Connecting
  <2>3. pc[u] \in Connecting => \A v \in Threads \ {u} : of'[v] # of[u]
    BY <1>7, <2>1 DEF TablesInv, Workers, Worker
  <2>4. Frame(c)
    BY <1>1, <1>3, AccountsStay
  <2> QED BY <1>3, <1>7, <2>2, <2>3, <2>4, WorkerStays
<1>9. Worker(t)'
  BY <1>1, <1>3, <1>4, <1>7 DEF Worker, Connecting, Using
<1>10. Reservations'
  BY <1>1, <1>7 DEF TablesInv, Reservations, Reserved
<1> QED BY <1>1, <1>5, <1>6, <1>8, <1>9, <1>10, AccountsStay DEF TablesInv, Workers

\* A new port is in no key and in no other thread's hands.
LEMMA AllocateKeeps ==
    ASSUME TablesInv, NEW t \in Threads, Allocate(t) \/ AllocateFails(t)
    PROVE  TablesInv'
<1>a. /\ pc[t] = "idle"
      /\ UNCHANGED <<obj, connections, read_events, accept_queue, notifying, of>>
  BY DEF Allocate, AllocateFails
<1>b. Queue'
  BY <1>a, QueueStays
<1>c. ASSUME UNCHANGED <<pc, port>>, next_port' \in Ephemeral PROVE TablesInv'
  <2>1. Types' /\ Workers' /\ Reservations'
    BY <1>a, <1>c DEF TablesInv, Types, Workers, Worker, Reservations, Reserved, Reachable,
                      Registered
  <2> QED BY <1>a, <1>b, <2>1, AccountsStay DEF TablesInv
<1>d. next_port \in Ephemeral
  BY DEF TablesInv, Types
<1>1. CASE Allocate(t)
  <2>1. PICK k \in Tries :
            /\ Found(k) /\ NotLapped(PortAt(k)) /\ next_port' = PortAt(k + 1)
            /\ \/ port' = [port EXCEPT ![t] = PortAt(k)] /\ Goto(t, "allocated")
               \/ UNCHANGED <<port, pc>>
    BY <1>1 DEF Allocate
  <2>2. k \in Nat /\ k + 1 \in Nat
    BY DEF Tries
  <2>3. next_port' \in Ephemeral /\ PortAt(k) \in Ephemeral
    <3>1. PortAt(k + 1) \in Ephemeral /\ PortAt(k) \in Ephemeral
      BY <1>d, <2>2, PortAtEphemeral
    <3> QED BY <2>1, <3>1
  <2> DEFINE p == PortAt(k)
  <2>4. CASE port' = [port EXCEPT ![t] = p] /\ Goto(t, "allocated")
    <3>1. /\ \A e \in DOMAIN connections : e[1] # p
          /\ \A u \in Threads : pc[u] = "allocated" => port[u] # p
      BY <2>1 DEF Found, _port_in_use, NotLapped
    <3> HIDE DEF p
    <3>2. /\ pc'[t] = "allocated" /\ port'[t] = p
          /\ \A u \in Threads \ {t} : pc'[u] = pc[u] /\ port'[u] = port[u]
      BY <2>4 DEF Goto, TablesInv, Types
    <3>3. p \in Nat /\ p \in Ephemeral
      BY <2>3, SocketsAssumption DEF Ephemeral, p
    <3>4. Types'
      <4>1. pc' \in [Threads -> {"idle", "allocated"} \cup Connecting \cup Using]
            /\ port' \in [Threads -> Nat]
        BY <2>4, <3>3 DEF Goto, TablesInv, Types
      <4> QED BY <1>a, <2>3, <4>1 DEF TablesInv, Types
    <3>5. Reservations'
      BY <1>a, <3>1, <3>2, <3>3 DEF TablesInv, Reservations, Reserved
    <3>6. Workers'
      <4> SUFFICES ASSUME NEW u \in Threads PROVE Worker(u)'
        BY DEF Workers
      <4>1. Worker(u) /\ Worker(t)
        BY DEF TablesInv, Workers
      <4>2. CASE u = t
        BY <1>a, <3>2, <4>1, <4>2 DEF Worker, Connecting, Using
      <4>3. CASE u # t
        BY <1>a, <3>2, <4>1, <4>3 DEF Worker, Reachable, Registered
      <4> QED BY <4>2, <4>3
    <3> QED BY <1>a, <1>b, <3>4, <3>5, <3>6, AccountsStay DEF TablesInv
  <2>5. CASE UNCHANGED <<port, pc>>
    BY <1>c, <2>3, <2>5
  <2> QED BY <2>1, <2>4, <2>5
<1>2. CASE AllocateFails(t)
  <2>1. Cardinality(Ephemeral) - 1 \in Nat
    <3>1. Cardinality(Ephemeral) = LAST_EPHEMERAL_PORT - FIRST_EPHEMERAL_PORT + 1
      BY SocketsAssumption, FS_Interval DEF Ephemeral
    <3> QED BY <3>1, SocketsAssumption
  <2>2. next_port' = PortAt(Cardinality(Ephemeral) - 1) /\ UNCHANGED <<pc, port>>
    BY <1>2 DEF AllocateFails
  <2>3. next_port' \in Ephemeral
    <3> DEFINE n == Cardinality(Ephemeral) - 1
    <3>1. n \in Nat /\ next_port' = PortAt(n)
      BY <2>1, <2>2
    <3> HIDE DEF n
    <3> QED BY <1>d, <3>1, PortAtEphemeral
  <2> QED BY <1>c, <2>2, <2>3
<1> QED BY <1>1, <1>2

\* The registration under the reserved port.
LEMMA RegistersKeeps ==
    ASSUME TablesInv, NEW t \in Threads, ConnectRegisters(t)
    PROVE  TablesInv'
<1>1. PICK c \in Conns, peer \in Peers :
          LET new == [Unmade EXCEPT !.kind = "client", !.port = port[t], !.peer = peer]
          IN  /\ Fresh(c) /\ obj' = [obj EXCEPT ![c] = new] /\ Register(c, Key(new))
              /\ of' = [of EXCEPT ![t] = c]
  BY DEF ConnectRegisters, Change
<1> DEFINE new == [Unmade EXCEPT !.kind = "client", !.port = port[t], !.peer = peer]
<1>2. /\ pc[t] = "allocated" /\ pc' = [pc EXCEPT ![t] = "registered"]
      /\ port' = [port EXCEPT ![t] = ListenPort]
      /\ UNCHANGED <<accept_queue, next_port, notifying>>
  BY DEF ConnectRegisters, Goto
<1>3. /\ port[t] \in Ephemeral /\ port[t] \in Nat
      /\ \A k \in DOMAIN connections : k[1] # port[t]
      /\ \A u \in Threads \ {t} : pc[u] = "allocated" => port[u] # port[t]
  BY <1>2 DEF TablesInv, Types, Reservations, Reserved
<1>4. /\ new \in ConnType /\ new.kind = "client" /\ new.port = port[t]
      /\ new.peer = peer /\ ~new.failed /\ ~new.established /\ new.state = "CLOSED"
  BY <1>3, UnmadeIs DEF Unmade, ConnType
<1>5. /\ Fresh(c) /\ obj' = [obj EXCEPT ![c] = new] /\ Register(c, Key(new))
      /\ of' = [of EXCEPT ![t] = c]
  BY <1>1
<1> HIDE DEF new
<1>6. /\ Key(new) = <<port[t], peer>> /\ Made(new) /\ Key(new)[1] = port[t]
  BY <1>3, <1>4 DEF Key, Made
<1>7. Key(new) \notin DOMAIN connections
  BY <1>3, <1>6
<1>8. /\ obj' \in [Conns -> ConnType] /\ obj'[c] = new
      /\ Objects' /\ Entries' /\ LiveIsReachable' /\ Frame(c)
      /\ DOMAIN connections' = DOMAIN connections \cup {Key(new)}
      /\ Reachable(c)' /\ obj[c].kind = "none"
  BY <1>4, <1>5, <1>6, <1>7, RegisterTables
<1>9. \A d \in Conns : obj[d].kind # "none" => obj'[d].kind = obj[d].kind
  BY <1>8 DEF Frame
<1>10. /\ pc'[t] = "registered" /\ of'[t] = c /\ port'[t] = ListenPort
       /\ \A u \in Threads \ {t} : pc'[u] = pc[u] /\ of'[u] = of[u] /\ port'[u] = port[u]
  BY <1>2, <1>5 DEF TablesInv, Types
<1>11. Types'
  <2>1. /\ pc' \in [Threads -> {"idle", "allocated"} \cup Connecting \cup Using]
        /\ port' \in [Threads -> Nat] /\ of' \in [Threads -> Conns \cup {NoConn}]
    BY <1>2, <1>5, SocketsAssumption DEF TablesInv, Types, Connecting
  <2> QED BY <1>2, <1>8, <2>1 DEF TablesInv, Types
<1>12. \A u \in Threads : of[u] # c
  <2>1. c # NoConn
    BY DEF Conns, NoConn
  <2> QED BY <1>8, <2>1 DEF TablesInv, Types, Workers, Worker
<1>13. ASSUME NEW u \in Threads \ {t} PROVE Worker(u)'
  <2>1. pc[u] \in Connecting => \A v \in Threads \ {u} : of'[v] # of[u]
    BY <1>10, <1>12 DEF TablesInv, Workers, Worker
  <2> QED BY <1>8, <1>10, <1>12, <2>1, WorkerStays
<1>14. Worker(t)'
  <2>1. Reachable(of[t])'
    BY <1>8, <1>10 DEF Reachable
  <2> QED BY <1>4, <1>8, <1>10, <1>12, <2>1 DEF Worker, Connecting, Using
<1>15. Reservations'
  BY <1>3, <1>6, <1>8, <1>10 DEF TablesInv, Reservations, Reserved
<1>16. Queue'
  BY <1>2, <1>9, QueueStays
<1>17. Notified'
  <2>1. notifying # NoConn => notifying \in Conns \ {c}
    BY <1>8 DEF TablesInv, Types, Notified
  <2> QED BY <1>2, <1>8, <2>1 DEF TablesInv, Notified, Frame
<1> QED BY <1>8, <1>11, <1>13, <1>14, <1>15, <1>16, <1>17 DEF TablesInv, Workers

-----------------------------------------------------------------------------
(* The tables are right                                                    *)

\* At the start there are no objects and no entries.
LEMMA TablesInit == Init => TablesInv
<1> SUFFICES ASSUME Init PROVE TablesInv
  OBVIOUS
<1>1. DOMAIN connections = {}
  BY DEF Init
<1>2. accept_queue \in Seq(Conns) /\ Len(accept_queue) = 0
  BY EmptySeq DEF Init
<1>3. Types
  BY <1>2, UnmadeIs, SocketsAssumption DEF Init, Types, Ephemeral
<1>4. /\ Unmade.kind = "none" /\ Unmade.state = "CLOSED" /\ ~Unmade.failed
  BY DEF Unmade
<1>5. Objects /\ LiveIsReachable
  BY <1>4 DEF Init, Objects, Made, LiveIsReachable, Live
<1>6. Entries /\ Queue /\ Notified
  BY <1>1, <1>2 DEF Init, Entries, Queue, Notified
<1>7. Workers /\ Reservations
  BY DEF Init, Workers, Worker, Reservations, Reserved, Connecting, Using
<1> QED BY <1>3, <1>5, <1>6, <1>7 DEF TablesInv

\* TablesInv is inductive.
LEMMA TablesStep == TablesInv /\ [Next]_vars => TablesInv'
<1> SUFFICES ASSUME TablesInv, [Next]_vars PROVE TablesInv'
  OBVIOUS
<1>1. ASSUME NEW t \in Threads, tcp_listen(t) PROVE TablesInv'
  BY <1>1, ListenKeeps
<1>2. ASSUME NEW t \in Threads, tcp_accept(t) PROVE TablesInv'
  BY <1>2, AcceptKeeps
<1>3. ASSUME NEW t \in Threads, Allocate(t) \/ AllocateFails(t) PROVE TablesInv'
  BY <1>3, AllocateKeeps
<1>4. ASSUME NEW t \in Threads, ConnectRegisters(t) PROVE TablesInv'
  BY <1>4, RegistersKeeps
<1>5. ASSUME NEW t \in Threads,
             \/ ConnectSendsSyn(t) \/ ConnectReturns(t) \/ ConnectTimesOut(t)
             \/ ConnectForgets(t) \/ ConnectLinkFails(t)
      PROVE  TablesInv'
  BY <1>5, ConnectKeeps
<1>6. ASSUME NEW t \in Threads, RecvStep(t) \/ Close(t) \/ Discard(t) PROVE TablesInv'
  BY <1>6, SocketKeeps
<1>7. ASSUME NEW c \in Conns,
             \/ SynAckArrives(c) \/ HandshakeAckArrives(c) \/ DataArrives(c)
             \/ FinArrives(c) \/ LastAckArrives(c) \/ RstArrives(c) \/ TimerCloses(c)
      PROVE  TablesInv'
  BY <1>7, ReaderKeeps
<1>8. CASE ClosedSetsFailed
  BY <1>8, NotifyKeeps
<1>9. ASSUME NEW peer \in Peers, SynArrives(peer) PROVE TablesInv'
  BY <1>9, SynKeeps
<1>10. CASE UNCHANGED vars
  <2>1. UNCHANGED <<obj, connections, read_events, accept_queue, next_port, notifying,
                    pc, of, port>>
    BY <1>10 DEF vars, tables
  <2> QED BY <2>1 DEF TablesInv, Types, Objects, Entries, Entry, LiveIsReachable,
       Reservations, Reserved, Workers, Worker, Reachable, Registered, Queue, Notified
<1> QED BY <1>1, <1>2, <1>3, <1>4, <1>5, <1>6, <1>7, <1>8, <1>9, <1>10 DEF Next

\* The invariant of the tables holds throughout.
LEMMA TablesAlways == Spec => []TablesInv
BY TablesInit, TablesStep, PTL DEF Spec

\* Segments and ticks find every live connection: whatever ports come round,
\* whoever is forgotten and whichever thread is between two statements of
\* tcp_connect, no registration takes a live connection's place.
THEOREM LiveReachable == Spec => []LiveIsReachable
<1>1. TablesInv => LiveIsReachable
  BY DEF TablesInv
<1> QED BY <1>1, TablesAlways, PTL

\* A tcp_connect that raises because it was refused or timed out has closed its
\* connection and left both tables, however link errors hit the other calls.
THEOREM RaisedForgotten == Spec => []RaisedIsForgotten
<1>1. TablesInv => RaisedIsForgotten
  BY DEF TablesInv, Workers, Worker, RaisedIsForgotten
<1> QED BY <1>1, TablesAlways, PTL

-----------------------------------------------------------------------------
(* What tcp_connect returns was open                                       *)

\* A client that got beyond SYN-SENT has been opened, and an event set without
\* that comes from its closing.
Honest(o) ==
    o.kind = "client" =>
        /\ o.state \in Live \ {"SYN-SENT"} => o.opened
        /\ o.established /\ ~o.opened => o.failed /\ o.state = "CLOSED"

WasOpen(c) ==
    c \in Conns /\ obj[c].kind # "none" /\ (obj[c].kind = "client" => obj[c].opened)

OpenInv ==
    /\ \A c \in Conns : Honest(obj[c])
    /\ \A t \in Threads : pc[t] \in Using => WasOpen(of[t])

\* What a step has to show: the object it changes is honest and not un-opened,
\* and a thread uses only what was open before.
LEMMA OpenTouch ==
    ASSUME TablesInv, OpenInv, NEW c \in Conns, NEW new, obj' = [obj EXCEPT ![c] = new],
           Honest(new),
           obj[c].kind # "none" => new.kind = obj[c].kind /\ (obj[c].opened => new.opened),
           \A t \in Threads : pc'[t] \in Using => WasOpen(of'[t])
    PROVE  OpenInv'
<1>1. obj'[c] = new /\ \A d \in Conns \ {c} : obj'[d] = obj[d]
  BY DEF TablesInv, Types
<1>2. \A d \in Conns : Honest(obj'[d])
  BY <1>1 DEF OpenInv
<1>3. ASSUME NEW t \in Threads, pc'[t] \in Using PROVE WasOpen(of[t])'
  BY <1>1, <1>3 DEF WasOpen
<1> QED BY <1>2, <1>3 DEF OpenInv

\* The same for a step that changes no object.
LEMMA OpenStays ==
    ASSUME OpenInv, UNCHANGED obj, \A t \in Threads : pc'[t] \in Using => WasOpen(of'[t])
    PROVE  OpenInv'
BY DEF OpenInv, WasOpen

\* Segments and timers: only the SYN-ACK opens a client, and no timer gives up
\* a SYN before tcp_connect does.
LEMMA OpenReader ==
    ASSUME ~SynMayExpire, TablesInv, OpenInv, NEW c \in Conns,
           \/ SynAckArrives(c) \/ HandshakeAckArrives(c) \/ DataArrives(c)
           \/ FinArrives(c) \/ LastAckArrives(c) \/ RstArrives(c) \/ TimerCloses(c)
    PROVE  OpenInv'
<1>a. obj[c] \in ConnType /\ Honest(obj[c])
  BY DEF TablesInv, Types, OpenInv
<1>b. \A t \in Threads : pc'[t] \in Using => WasOpen(of'[t])
  BY DEF OpenInv, SynAckArrives, HandshakeAckArrives, DataArrives, FinArrives,
         LastAckArrives, RstArrives, TimerCloses
<1>1. CASE SynAckArrives(c)
  <2> DEFINE new == [obj[c] EXCEPT !.state = "ESTABLISHED", !.established = TRUE,
                                   !.opened = TRUE]
  <2>1. new.kind = obj[c].kind /\ new.opened
    BY <1>a DEF ConnType
  <2>2. obj' = [obj EXCEPT ![c] = new]
    BY <1>1 DEF SynAckArrives, Arrives, Change
  <2> HIDE DEF new
  <2> QED BY <1>b, <2>1, <2>2, OpenTouch DEF Honest
<1>2. CASE HandshakeAckArrives(c)
  <2> DEFINE new == [obj[c] EXCEPT !.state = "ESTABLISHED", !.opened = TRUE]
  <2>1. new.kind = obj[c].kind /\ new.opened
    BY <1>a DEF ConnType
  <2>2. obj' = [obj EXCEPT ![c] = new]
    BY <1>2 DEF HandshakeAckArrives, Arrives, Change
  <2> HIDE DEF new
  <2> QED BY <1>b, <2>1, <2>2, OpenTouch DEF Honest
<1>3. CASE DataArrives(c)
  <2> DEFINE read == obj[c].readable \/ Signalled(c)
             new == [obj[c] EXCEPT !.buf = @ + 1, !.readable = read]
  <2>2. obj' = [obj EXCEPT ![c] = new]
    BY <1>3 DEF DataArrives, Arrives, Change
  <2> HIDE DEF read
  <2>1. /\ new.kind = obj[c].kind /\ new.opened = obj[c].opened
        /\ new.state = obj[c].state /\ new.established = obj[c].established
        /\ new.failed = obj[c].failed
    BY <1>a DEF ConnType
  <2> HIDE DEF new
  <2> QED BY <1>a, <1>b, <2>1, <2>2, OpenTouch DEF Honest
<1>4. CASE FinArrives(c)
  <2> DEFINE next == IF obj[c].state = "ESTABLISHED" THEN "CLOSE-WAIT" ELSE "TIME-WAIT"
             new == [obj[c] EXCEPT !.state = next]
  <2>2. obj' = [obj EXCEPT ![c] = new] /\ obj[c].state \in {"ESTABLISHED", "FIN-WAIT-1"}
    BY <1>4 DEF FinArrives, Arrives, Change
  <2> HIDE DEF next
  <2>1. /\ new.kind = obj[c].kind /\ new.opened = obj[c].opened
    BY <1>a DEF ConnType
  <2>3. obj[c].kind = "client" => obj[c].opened
    BY <1>a, <2>2 DEF Honest, Live
  <2> HIDE DEF new
  <2> QED BY <1>b, <2>1, <2>2, <2>3, OpenTouch DEF Honest
<1>5. CASE LastAckArrives(c) \/ RstArrives(c)
  <2>1. obj' = [obj EXCEPT ![c] = Closed(obj[c])]
    BY <1>5 DEF LastAckArrives, RstArrives, Arrives, Change
  <2>2. Honest(Closed(obj[c])) /\ Closed(obj[c]).kind = obj[c].kind
        /\ Closed(obj[c]).opened = obj[c].opened
    BY <1>a, ClosedIs DEF Honest, Live
  <2> QED BY <1>b, <2>1, <2>2, OpenTouch
<1>6. CASE TimerCloses(c)
  <2> DEFINE new == [Closed(obj[c]) EXCEPT !.failed = obj[c].failed]
  <2>1. obj' = [obj EXCEPT ![c] = new] /\ obj[c].state \in Live \ {"SYN-SENT"}
    BY <1>6 DEF TimerCloses, Arrives, Change
  <2>2. new.kind = obj[c].kind /\ new.opened = obj[c].opened
    BY <1>a, ClosedIs DEF ConnType
  <2>3. obj[c].kind = "client" => obj[c].opened
    BY <1>a, <2>1 DEF Honest
  <2> HIDE DEF new
  <2> QED BY <1>b, <2>1, <2>2, <2>3, OpenTouch DEF Honest
<1> QED BY <1>1, <1>2, <1>3, <1>4, <1>5, <1>6

\* tcp_connect: established without an opening means refused.
LEMMA OpenConnect ==
    ASSUME TablesInv, OpenInv, NEW t \in Threads,
           \/ ConnectSendsSyn(t) \/ ConnectReturns(t) \/ ConnectTimesOut(t)
           \/ ConnectForgets(t) \/ ConnectLinkFails(t)
    PROVE  OpenInv'
<1> DEFINE c == of[t]
<1>a. pc[t] \in Connecting
  BY DEF ConnectSendsSyn, ConnectReturns, ConnectTimesOut, ConnectForgets,
         ConnectLinkFails, Connecting
<1>b. /\ c \in Conns /\ obj[c] \in ConnType /\ obj[c].kind = "client" /\ Honest(obj[c])
  BY <1>a DEF TablesInv, Types, Workers, Worker, OpenInv
<1>c. ASSUME NEW where, pc' = [pc EXCEPT ![t] = where], UNCHANGED of,
             where \in Using => WasOpen(c)
      PROVE  \A u \in Threads : pc'[u] \in Using => WasOpen(of'[u])
  BY <1>c DEF TablesInv, Types, OpenInv
<1>1. CASE ConnectSendsSyn(t)
  <2> DEFINE new == [obj[c] EXCEPT !.state = "SYN-SENT"]
  <2>1. /\ new.kind = obj[c].kind /\ new.state = "SYN-SENT"
        /\ new.opened = obj[c].opened /\ new.established = obj[c].established
    BY <1>b DEF ConnType
  <2>2. ~obj[c].established
    BY <1>1 DEF ConnectSendsSyn, TablesInv, Workers, Worker
  <2>3. obj' = [obj EXCEPT ![c] = new] /\ pc' = [pc EXCEPT ![t] = "waiting"] /\ UNCHANGED of
    BY <1>1 DEF ConnectSendsSyn, Change, Goto
  <2>4. "waiting" \notin Using
    BY DEF Using
  <2>5. \A u \in Threads : pc'[u] \in Using => WasOpen(of'[u])
    BY <1>c, <2>3, <2>4
  <2> HIDE DEF new
  <2>6. Honest(new)
    BY <2>1, <2>2 DEF Honest
  <2> HIDE DEF c
  <2> QED BY <1>b, <2>1, <2>3, <2>5, <2>6, OpenTouch
<1>2. CASE ConnectReturns(t)
  <2>1. CASE Refused(obj[c])
    <3>1. pc' = [pc EXCEPT ![t] = "raised"] /\ UNCHANGED <<obj, of>> /\ "raised" \notin Using
      BY <1>2, <2>1 DEF ConnectReturns, Goto, Using
    <3> QED BY <1>c, <3>1, OpenStays
  <2>2. CASE ~Refused(obj[c])
    <3>1. /\ pc' = [pc EXCEPT ![t] = "open"] /\ UNCHANGED <<obj, of>>
          /\ obj[c].established
      BY <1>2, <2>2 DEF ConnectReturns, Goto
    <3>2. WasOpen(c)
      BY <1>b, <2>2, <3>1 DEF Honest, Refused, WasOpen
    <3> QED BY <1>c, <3>1, <3>2, OpenStays
  <2> QED BY <2>1, <2>2
<1>3. CASE ConnectTimesOut(t)
  <2>1. /\ obj' = [obj EXCEPT ![c] = Closed(obj[c])] /\ pc' = [pc EXCEPT ![t] = "aborted"]
        /\ UNCHANGED of /\ "aborted" \notin Using
    BY <1>3 DEF ConnectTimesOut, Change, Goto, Using
  <2>2. /\ Honest(Closed(obj[c])) /\ Closed(obj[c]).kind = obj[c].kind
        /\ Closed(obj[c]).opened = obj[c].opened
    BY <1>b, ClosedIs DEF Honest, Live
  <2>3. \A u \in Threads : pc'[u] \in Using => WasOpen(of'[u])
    BY <1>c, <2>1
  <2> HIDE DEF c
  <2> QED BY <1>b, <2>1, <2>2, <2>3, OpenTouch
<1>4. CASE ConnectForgets(t)
  <2>1. pc' = [pc EXCEPT ![t] = "raised"] /\ UNCHANGED <<obj, of>> /\ "raised" \notin Using
    BY <1>4 DEF ConnectForgets, Goto, Using
  <2> QED BY <1>c, <2>1, OpenStays
<1>5. CASE ConnectLinkFails(t)
  <2>1. /\ pc' = [pc EXCEPT ![t] = "link_error"] /\ UNCHANGED <<obj, of>>
        /\ "link_error" \notin Using
    BY <1>5 DEF ConnectLinkFails, Goto, Using
  <2> QED BY <1>c, <2>1, OpenStays
<1> QED BY <1>1, <1>2, <1>3, <1>4, <1>5

\* recv and close do not un-open.
LEMMA OpenSocket ==
    ASSUME TablesInv, OpenInv, NEW t \in Threads, RecvStep(t) \/ Close(t) \/ Discard(t)
    PROVE  OpenInv'
<1> DEFINE c == of[t]
<1>a. pc[t] \in Connecting \cup Using
  BY DEF RecvStep, RecvTakes, RecvChecks, wait_readable, WaitEnds, Close, Discard,
         Connecting, Using
<1>b. /\ c \in Conns /\ obj[c] \in ConnType /\ Honest(obj[c])
  BY <1>a DEF TablesInv, Types, Workers, Worker, OpenInv
<1>c. ASSUME NEW where, pc' = [pc EXCEPT ![t] = where],
             \/ UNCHANGED of /\ pc[t] \in Using
             \/ of' = [of EXCEPT ![t] = NoConn] /\ where = "idle"
      PROVE  \A u \in Threads : pc'[u] \in Using => WasOpen(of'[u])
  BY <1>c DEF TablesInv, Types, OpenInv, Using
<1>1. CASE RecvTakes(t)
  <2> DEFINE new == [obj[c] EXCEPT !.buf = 0]
             where == IF obj[c].buf > 0 THEN "open" ELSE "check"
  <2>1. /\ new.kind = obj[c].kind /\ new.opened = obj[c].opened
        /\ new.state = obj[c].state /\ new.established = obj[c].established
        /\ new.failed = obj[c].failed
    BY <1>b DEF ConnType
  <2>2. /\ obj' = [obj EXCEPT ![c] = new] /\ pc' = [pc EXCEPT ![t] = where] /\ UNCHANGED of
        /\ pc[t] \in Using
    BY <1>1 DEF RecvTakes, Change, Goto, Using
  <2> HIDE DEF new, where
  <2>3. \A u \in Threads : pc'[u] \in Using => WasOpen(of'[u])
    BY <1>c, <2>2
  <2>4. Honest(new)
    BY <1>b, <2>1 DEF Honest
  <2> HIDE DEF c
  <2> QED BY <1>b, <2>1, <2>2, <2>3, <2>4, OpenTouch
<1>2. CASE RecvChecks(t) \/ wait_readable(t) \/ WaitEnds(t)
  <2>1. PICK where \in Using : pc' = [pc EXCEPT ![t] = where]
    BY <1>2 DEF RecvChecks, wait_readable, WaitEnds, Goto, Using
  <2>2. UNCHANGED <<obj, of>> /\ pc[t] \in Using
    BY <1>2 DEF RecvChecks, wait_readable, WaitEnds, Using
  <2> QED BY <1>c, <2>1, <2>2, OpenStays
<1>3. CASE Close(t)
  <2>0. pc' = [pc EXCEPT ![t] = "idle"] /\ of' = [of EXCEPT ![t] = NoConn]
    BY <1>3 DEF Close, Goto
  <2>a. \A u \in Threads : pc'[u] \in Using => WasOpen(of'[u])
    BY <1>c, <2>0
  <2>1. CASE Change(c, Closed(obj[c]))
    <3>1. obj' = [obj EXCEPT ![c] = Closed(obj[c])]
      BY <2>1 DEF Change
    <3>2. /\ Honest(Closed(obj[c])) /\ Closed(obj[c]).kind = obj[c].kind
          /\ Closed(obj[c]).opened = obj[c].opened
      BY <1>b, ClosedIs DEF Honest, Live
    <3> HIDE DEF c
    <3> QED BY <1>b, <2>a, <3>1, <3>2, OpenTouch
  <2>2. CASE /\ AfterClose(obj[c]) # "CLOSED"
             /\ Change(c, [obj[c] EXCEPT !.state = AfterClose(obj[c])])
    <3> DEFINE s == AfterClose(obj[c])
               new == [obj[c] EXCEPT !.state = s]
    <3>1. obj' = [obj EXCEPT ![c] = new]
      BY <2>2 DEF Change
    <3>2. /\ s # "CLOSED" /\ s = "SYN-SENT" => obj[c].state = "SYN-SENT"
          /\ obj[c].state # "CLOSED"
          /\ s \in Live \ {"SYN-SENT"} => obj[c].state \in Live \ {"SYN-SENT"}
      BY <1>b, <2>2 DEF AfterClose, ConnType, Live
    <3> HIDE DEF s
    <3>3. /\ new.kind = obj[c].kind /\ new.state = s /\ new.opened = obj[c].opened
          /\ new.established = obj[c].established /\ new.failed = obj[c].failed
      BY <1>b DEF ConnType
    <3> HIDE DEF new
    <3>4. Honest(new)
      BY <1>b, <3>2, <3>3 DEF Honest
    <3> HIDE DEF c
    <3> QED BY <1>b, <2>a, <3>1, <3>3, <3>4, OpenTouch
  <2>3. CASE UNCHANGED obj
    BY <2>a, <2>3, OpenStays
  <2> QED BY <1>3, <2>1, <2>2, <2>3 DEF Close
<1>4. CASE Discard(t)
  <2>1. /\ pc' = [pc EXCEPT ![t] = "idle"] /\ of' = [of EXCEPT ![t] = NoConn]
        /\ UNCHANGED obj
    BY <1>4 DEF Discard, Goto
  <2> QED BY <1>c, <2>1, OpenStays
<1> QED BY <1>1, <1>2, <1>3, <1>4 DEF RecvStep

\* New objects are unopened and their events unset.
LEMMA OpenMakes ==
    ASSUME TablesInv, OpenInv,
           \/ \E t \in Threads : ConnectRegisters(t)
           \/ \E peer \in Peers : SynArrives(peer)
    PROVE  OpenInv'
<1>1. ASSUME NEW t \in Threads, ConnectRegisters(t) PROVE OpenInv'
  <2>1. PICK c \in Conns, peer \in Peers :
            /\ Fresh(c) /\ of' = [of EXCEPT ![t] = c]
            /\ obj' = [obj EXCEPT ![c] = [Unmade EXCEPT !.kind = "client",
                                              !.port = port[t], !.peer = peer]]
    BY <1>1 DEF ConnectRegisters, Change
  <2> DEFINE new == [Unmade EXCEPT !.kind = "client", !.port = port[t], !.peer = peer]
  <2>2. new.kind = "client" /\ ~new.established /\ new.state = "CLOSED"
    BY DEF Unmade
  <2>3. obj' = [obj EXCEPT ![c] = new] /\ obj[c].kind = "none"
    BY <2>1 DEF Fresh, Unmade
  <2> HIDE DEF new
  <2>4. \A u \in Threads : pc'[u] \in Using => WasOpen(of'[u])
    BY <1>1, <2>1 DEF ConnectRegisters, Goto, TablesInv, Types, OpenInv, Using
  <2>5. Honest(new)
    BY <2>2 DEF Honest, Live
  <2> QED BY <2>3, <2>4, <2>5, OpenTouch
<1>2. ASSUME NEW peer \in Peers, SynArrives(peer) PROVE OpenInv'
  <2>1. PICK c \in Conns :
            /\ Fresh(c)
            /\ obj' = [obj EXCEPT ![c] = [Unmade EXCEPT !.kind = "child", !.peer = peer,
                                                        !.state = "SYN-RECEIVED"]]
    BY <1>2 DEF SynArrives, Change
  <2> DEFINE new == [Unmade EXCEPT !.kind = "child", !.peer = peer,
                                   !.state = "SYN-RECEIVED"]
  <2>2. new.kind = "child"
    BY DEF Unmade
  <2>3. obj' = [obj EXCEPT ![c] = new] /\ obj[c].kind = "none"
    BY <2>1 DEF Fresh, Unmade
  <2> HIDE DEF new
  <2>4. \A u \in Threads : pc'[u] \in Using => WasOpen(of'[u])
    BY <1>2 DEF SynArrives, OpenInv
  <2>5. Honest(new)
    BY <2>2 DEF Honest
  <2> QED BY <2>3, <2>4, <2>5, OpenTouch
<1> QED BY <1>1, <1>2

\* The second half of on_closed.
LEMMA OpenNotify ==
    ASSUME TablesInv, OpenInv, ClosedSetsFailed
    PROVE  OpenInv'
<1> DEFINE c == notifying
           new == [obj[c] EXCEPT !.failed = TRUE]
<1>1. /\ c \in Conns /\ obj[c] \in ConnType /\ Honest(obj[c]) /\ obj[c].state = "CLOSED"
  BY DEF ClosedSetsFailed, ReaderFree, TablesInv, Types, Notified, OpenInv
<1>2. obj' = [obj EXCEPT ![c] = new]
  BY DEF ClosedSetsFailed, Change
<1>3. /\ new.kind = obj[c].kind /\ new.state = obj[c].state /\ new.failed
      /\ new.opened = obj[c].opened
  BY <1>1 DEF ConnType
<1>4. \A u \in Threads : pc'[u] \in Using => WasOpen(of'[u])
  BY DEF ClosedSetsFailed, OpenInv
<1> HIDE DEF new
<1>5. Honest(new)
  BY <1>1, <1>3 DEF Honest
<1> HIDE DEF c
<1> QED BY <1>1, <1>2, <1>3, <1>4, <1>5, OpenTouch

\* OpenInv is inductive where a SYN outlives the wait of tcp_connect.
LEMMA OpenStep ==
    ASSUME ~SynMayExpire
    PROVE  TablesInv /\ OpenInv /\ [Next]_vars => OpenInv'
<1> SUFFICES ASSUME TablesInv, OpenInv, [Next]_vars PROVE OpenInv'
  OBVIOUS
<1>1. ASSUME NEW t \in Threads, tcp_accept(t) PROVE OpenInv'
  <2>1. /\ UNCHANGED obj /\ of' = [of EXCEPT ![t] = Head(accept_queue)]
        /\ pc' = [pc EXCEPT ![t] = "open"] /\ accept_queue # << >>
    BY <1>1 DEF tcp_accept, Goto
  <2>2. /\ accept_queue \in Seq(Conns) /\ Head(accept_queue) = accept_queue[1]
        /\ Head(accept_queue) \in Conns /\ 1 \in 1 .. Len(accept_queue)
    <3>1. accept_queue \in Seq(Conns)
      BY DEF TablesInv, Types
    <3> QED BY <2>1, <3>1, HeadTailProperties, LenProperties, EmptySeq
  <2>3. WasOpen(Head(accept_queue))
    BY <2>2 DEF TablesInv, Queue, WasOpen
  <2>4. \A u \in Threads : pc'[u] \in Using => WasOpen(of'[u])
    BY <2>1, <2>3 DEF TablesInv, Types, OpenInv
  <2> QED BY <2>1, <2>4, OpenStays
<1>2. ASSUME NEW t \in Threads, tcp_listen(t) \/ Allocate(t) \/ AllocateFails(t)
      PROVE  OpenInv'
  <2>1. UNCHANGED <<obj, of>> /\ \A u \in Threads : pc'[u] \in Using => pc[u] \in Using
    BY <1>2 DEF tcp_listen, Allocate, AllocateFails, Goto, TablesInv, Types, Using
  <2> QED BY <2>1, OpenStays DEF OpenInv
<1>3. ASSUME NEW t \in Threads, ConnectRegisters(t) PROVE OpenInv'
  BY <1>3, OpenMakes
<1>4. ASSUME NEW t \in Threads,
             \/ ConnectSendsSyn(t) \/ ConnectReturns(t) \/ ConnectTimesOut(t)
             \/ ConnectForgets(t) \/ ConnectLinkFails(t)
      PROVE  OpenInv'
  BY <1>4, OpenConnect
<1>5. ASSUME NEW t \in Threads, RecvStep(t) \/ Close(t) \/ Discard(t) PROVE OpenInv'
  BY <1>5, OpenSocket
<1>6. ASSUME NEW c \in Conns,
             \/ SynAckArrives(c) \/ HandshakeAckArrives(c) \/ DataArrives(c)
             \/ FinArrives(c) \/ LastAckArrives(c) \/ RstArrives(c) \/ TimerCloses(c)
      PROVE  OpenInv'
  BY <1>6, OpenReader
<1>7. CASE ClosedSetsFailed
  BY <1>7, OpenNotify
<1>8. ASSUME NEW peer \in Peers, SynArrives(peer) PROVE OpenInv'
  BY <1>8, OpenMakes
<1>9. CASE UNCHANGED vars
  <2>1. UNCHANGED <<obj, pc, of>>
    BY <1>9 DEF vars
  <2> QED BY <2>1, OpenStays DEF OpenInv
<1> QED BY <1>1, <1>2, <1>3, <1>4, <1>5, <1>6, <1>7, <1>8, <1>9 DEF Next

\* Every connection tcp_connect returns completed its handshake, however its
\* closing and the wait interleave, as long as no SYN is given up before the
\* wait is over: where one may be, on_closed sets established before failed
\* and a thread that wakes in between returns a connection that never was.
THEOREM ReturnedOpen == ~SynMayExpire => (Spec => []ReturnedWasOpen)
<1> SUFFICES ASSUME ~SynMayExpire PROVE Spec => []ReturnedWasOpen
  OBVIOUS
<1>1. Init => OpenInv
  <2> SUFFICES ASSUME Init PROVE OpenInv
    OBVIOUS
  <2>1. \A c \in Conns : Honest(obj[c])
    BY DEF Init, Honest, Unmade
  <2> QED BY <2>1 DEF Init, OpenInv, Using
<1>2. TablesInv /\ OpenInv /\ [Next]_vars => OpenInv'
  BY OpenStep
<1>3. OpenInv => ReturnedWasOpen
  BY DEF OpenInv, WasOpen, ReturnedWasOpen, Using
<1> QED BY <1>1, <1>2, <1>3, TablesAlways, PTL DEF Spec
=============================================================================
