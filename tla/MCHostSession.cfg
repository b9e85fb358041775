CONSTANTS
  MaxSequence = 9
  RequestSets <- TwoRequests
  Gestures <- OnePress
  MaxMessages = 2
  SpawnMayFail = TRUE
SPECIFICATION FairSpec
CHECK_DEADLOCK FALSE
INVARIANTS ConsentFirst InputsInOrder CleanEnd OneTerminalEvent EventsNeverBlock
PROPERTY DroppedSessionEnds
