-------------------------- MODULE MCArpResolution --------------------------
(* Small instances of ArpResolution for TLC. *)
EXTENDS ArpResolution, TLC

CONSTANTS h1, h2, p1, p2, p3, t1, t2

TwoHosts == {h1, h2}
ThreePackets == {p1, p2, p3}
TwoThreads == {t1, t2}
OneOversized == {p3}
OneRoute == (p1 :> h1) @@ (p2 :> h1) @@ (p3 :> h1)
=============================================================================
