----------------------------- MODULE MCTCPPair -----------------------------
(* Small instances of TCPPair for TLC. *)
EXTENDS TCPPair, TLC

CONSTANTS ToSendA, ToSendB, IssA, IssB

MCToSend == (A :> ToSendA) @@ (B :> ToSendB)
MCISS == (A :> IssA) @@ (B :> IssB)
OnlyA == {A}
Both == {A, B}
Nobody == {}
=============================================================================
