--------------------------- MODULE MCDeviceIdentity -------------------------
(* Model values, fault sets and symmetry for the runs of DeviceIdentity. *)
EXTENDS DeviceIdentity, TLC

CONSTANTS p1, p2, p3, i1, i2, i3, i4

ThreeProcesses == {p1, p2, p3}
FourIds == {i1, i2, i3, i4}

\* A machine that loses power, or one on which another program publishes an id.
OneFault == {{"power"}, {"publish"}}

\* Processes are interchangeable and so are ids.
Symmetry == Permutations(Processes) \cup Permutations(Ids)

=============================================================================
