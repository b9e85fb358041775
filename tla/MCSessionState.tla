--------------------------- MODULE MCSessionState --------------------------
(* Bounds for the run of SessionState: one spare identifier and epoch       *)
(* besides the valid one and zero, three sequence numbers, and one more     *)
(* input than these, so that a number that comes twice would be seen.       *)
EXTENDS SessionState

ThreeIds == 0..2
ThreeEpochs == 0..2

=============================================================================
