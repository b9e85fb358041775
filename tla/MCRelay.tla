------------------------------ MODULE MCRelay ------------------------------
(* Model values and symmetry for the runs of Relay. *)
EXTENDS Relay, TLC

CONSTANTS c1, c2, c3, r1, r2

ThreeConns == {c1, c2, c3}
TwoRoutes == {r1, r2}
OneRoute == {r1}

\* Connections are interchangeable and so are routes.
Symmetry == Permutations(Conns) \cup Permutations(Routes)

\* As connections are interchangeable, what every one of them is promised is
\* checked for one.

\* A waiting host that hung up stops blocking its route.
DeadHostReleased == HostReleased(c1)

\* A viewer that named a route and stays is answered or cut off.
ClaimIsSettled == ClaimSettled(c1)

\* A connection is closed and its permit given back, unless it is a waiting
\* host or one side of a tunnel that runs.
EveryConnectionEnds == ConnectionEnds(c1)

=============================================================================
