-------------------------- MODULE MCHostSupervisor --------------------------
(* Model values for the run of HostSupervisor: the current worker and one  *)
(* that was dropped, or that the relay has not noticed to be gone.         *)
EXTENDS HostSupervisor

CONSTANTS w1, w2

TwoWorkers == {w1, w2}

=============================================================================
