-------------------------- MODULE MCReceiveStream --------------------------
(* Small instances of ReceiveStream for TLC. *)
EXTENDS ReceiveStream

CONSTANTS MaxSegment, Grain

\* Every segment of up to MaxSegment bytes: a peer that re-cuts its data when
\* it retransmits.
AnySegments ==
    {s \in [pos : 0 .. StreamLen - 1, len : 1 .. MaxSegment] :
        s.pos + s.len <= StreamLen}

\* Segments of Grain bytes on a fixed grid: a peer that retransmits what it
\* sent (RetransmitQueue does).
GridSegments == {s \in AnySegments : s.pos % Grain = 0 /\ s.len = Grain}
=============================================================================
