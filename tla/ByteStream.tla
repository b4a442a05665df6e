----------------------------- MODULE ByteStream -----------------------------
(***************************************************************************)
(* What a TCP connection promises the two applications, whatever happens   *)
(* in between: each reads the other's bytes in order, without gaps or      *)
(* repetitions, and is told of the end of the stream only once it has read *)
(* all of it and the other has closed.  A connection may break at any      *)
(* moment; then nothing more is read.                                      *)
(***************************************************************************)
EXTENDS Naturals, Sequences

CONSTANT Peer          \* the other endpoint, for each endpoint: Peer[Peer[p]] = p

VARIABLES
    wrote,             \* bytes written by each application: 1, 2, 3, ...
    closed,            \* whether it has closed its direction
    got,               \* what each application has read
    reading            \* "open", "eof" or "dead"

vars == <<wrote, closed, got, reading>>

Init ==
    /\ wrote = [p \in DOMAIN Peer |-> 0]
    /\ closed = [p \in DOMAIN Peer |-> FALSE]
    /\ got = [p \in DOMAIN Peer |-> << >>]
    /\ reading = [p \in DOMAIN Peer |-> "open"]

Write(p) ==
    /\ ~closed[p] /\ reading[p] # "dead"
    /\ wrote'[p] > wrote[p]
    /\ wrote' = [wrote EXCEPT ![p] = wrote'[p]]
    /\ UNCHANGED <<closed, got, reading>>

Close(p) ==
    /\ reading[p] # "dead"
    /\ closed' = [closed EXCEPT ![p] = TRUE]
    /\ UNCHANGED <<wrote, got, reading>>

\* Nothing is left to read once count bytes have been.
Complete(p, count) == closed[Peer[p]] /\ count = wrote[Peer[p]]

Read(p) ==
    /\ reading[p] = "open"
    /\ \E count \in Len(got[p]) + 1 .. wrote[Peer[p]] :
          /\ got' = [got EXCEPT ![p] = [i \in 1 .. count |-> i]]
          /\ \/ UNCHANGED reading
             \/ /\ Complete(p, count)
                /\ reading' = [reading EXCEPT ![p] = "eof"]
    /\ UNCHANGED <<wrote, closed>>

End(p) ==
    /\ reading[p] = "open" /\ Complete(p, Len(got[p]))
    /\ reading' = [reading EXCEPT ![p] = "eof"]
    /\ UNCHANGED <<wrote, closed, got>>

Break(p) ==
    /\ reading' = [reading EXCEPT ![p] = "dead"]
    /\ UNCHANGED <<wrote, closed, got>>

\* A listener makes a new connection after the old one is gone.
Renew(p) ==
    /\ reading[p] = "dead"
    /\ reading' = [reading EXCEPT ![p] = "open"]
    /\ closed' = [closed EXCEPT ![p] = FALSE]
    /\ got' = [got EXCEPT ![p] = << >>]
    /\ UNCHANGED wrote

Next ==
    \E p \in DOMAIN Peer :
        Write(p) \/ Close(p) \/ Read(p) \/ End(p) \/ Break(p) \/ Renew(p)

Spec == Init /\ [][Next]_vars
=============================================================================
