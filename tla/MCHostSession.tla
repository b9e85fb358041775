--------------------------- MODULE MCHostSession ---------------------------
(* Request sets and gestures for the runs of HostSession. *)
EXTENDS HostSession

TwoRequests == {ViewOnly, ViewAndControl}
OneRequest == {ViewAndControl}
OnePress == {"keyDown"}

=============================================================================
