CONSTANTS
  MaxSequence = 9
  RequestSets <- OneRequest
  Gestures <- OnePress
  MaxMessages = 1
  SpawnMayFail = TRUE
SPECIFICATION FairSpec
CHECK_DEADLOCK FALSE
PROPERTY SharingEnds
