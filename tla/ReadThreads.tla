---------------------------- MODULE ReadThreads ----------------------------
(***************************************************************************)
(* ReceiveQueue.read in the application's thread, statement by statement,  *)
(* under ReceiveQueue._accept in the reader thread                         *)
(* (minitcp/net/tcp/buffer.py); neither holds a lock.  ReceiveStream takes *)
(* read() as one step and leaves out the prefix that was read and is not   *)
(* yet reclaimed; this module has nothing else.  Bytes are only counted.   *)
(***************************************************************************)
EXTENDS Bytes

CONSTANTS
    Capacity,             \* of the receive queue
    CompactAbove,         \* 65536 in the code
    MaxLength             \* bound on _buf

VARIABLES
    length,               \* len(_buf)
    read_pos,             \* _read_pos
    pc                    \* the application in read(): "idle", "check",
                          \* "delete" or "reset"

vars == <<length, read_pos, pc>>

Init == length = 0 /\ read_pos = 0 /\ pc = "idle"

available == length - read_pos

window == Most(Capacity - available, 0)

\* _accept of in-order data, cut to the window
Accept ==
    /\ \E n \in 1 .. window :
          length + n <= MaxLength /\ length' = length + n
    /\ UNCHANGED <<read_pos, pc>>

Read ==
    /\ pc = "idle" /\ available > 0
    /\ \E n \in 1 .. available : read_pos' = read_pos + n
    /\ pc' = "check"
    /\ UNCHANGED length

WorthCompacting == read_pos > CompactAbove /\ 2 * read_pos > length

CheckCompact ==
    /\ pc = "check"
    /\ pc' = IF WorthCompacting THEN "delete" ELSE "idle"
    /\ UNCHANGED <<length, read_pos>>

\* del self._buf[: self._read_pos]
Delete ==
    /\ pc = "delete"
    /\ length' = Most(length - read_pos, 0)
    /\ pc' = "reset"
    /\ UNCHANGED read_pos

ResetPosition ==
    /\ pc = "reset"
    /\ read_pos' = 0 /\ pc' = "idle"
    /\ UNCHANGED length

Next == Accept \/ Read \/ CheckCompact \/ Delete \/ ResetPosition

Spec == Init /\ [][Next]_vars

-----------------------------------------------------------------------------
\* "Never grow past capacity, whatever the peer chooses to send" (buffer.py):
\* what is unread fits the capacity whenever the application is out of read().
UnreadWithinCapacity == pc = "idle" => available \in 0 .. Capacity
=============================================================================
