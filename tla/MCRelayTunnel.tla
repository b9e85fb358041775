-------------------------- MODULE MCRelayTunnel ----------------------------
(* Six sockets of two addresses against a total of four and three per       *)
(* address: either limit can be reached first, and the tunnel's two peers   *)
(* share their address with two others.                                     *)
EXTENDS RelayTunnel

CONSTANTS s1, s2, s3, s4, s5, s6, a1, a2

SixSockets == {s1, s2, s3, s4, s5, s6}
TwoAddresses == {a1, a2}
FourAndTwo == [s \in SixSockets |-> IF s \in {s5, s6} THEN a2 ELSE a1]

=============================================================================
