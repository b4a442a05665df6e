---------------------------- MODULE MCDatagrams ----------------------------
(* Small instances of Datagrams for TLC. *)
EXTENDS Datagrams, TLC

CONSTANTS s1, s2, SizeOne, SizeTwo, SizeThree, PortTwo

MCSize == <<SizeOne, SizeTwo, SizeThree>>
MCDstPort == <<1, 2, 1>>

\* Who reads reads the first socket; PortTwo is the port of the second.
MCSocketOf == [r \in Receivers |-> s1]
MCPortOf == (s1 :> 1) @@ (s2 :> PortTwo)
=============================================================================
