CONSTANTS
  MaxSequence = 3
  GrantSets <- AllGrants
  UserFrames <- Repaints
  MaxInputs = 2
  MaxMessages = 1
SPECIFICATION FairSpec
CHECK_DEADLOCK FALSE
INVARIANTS InputsExact HeldInputReleased ReportedOnce
PROPERTIES DroppedViewerEnds LossIsReported
