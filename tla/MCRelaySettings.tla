-------------------------- MODULE MCRelaySettings --------------------------
(* Model values and symmetry for the run of RelaySettings. *)
EXTENDS RelaySettings, TLC

CONSTANTS p1, p2, a1, a2, a3

TwoProcesses == {p1, p2}
ThreeAddresses == {a1, a2, a3}

\* Instances are interchangeable and so are addresses.
Symmetry == Permutations(Processes) \cup Permutations(Addresses)

=============================================================================
