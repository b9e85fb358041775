------------------------- MODULE MCFrameTransport --------------------------
(* Sizes for the runs of FrameTransport: around one, two and three chunks   *)
(* of three bytes, none, the largest frame, and one byte more.              *)
EXTENDS FrameTransport

AllSizes == 0..(FrameSize + 1)

=============================================================================
