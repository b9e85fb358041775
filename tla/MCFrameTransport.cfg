CONSTANTS
  ChunkSize = 3
  FrameSize = 8
  MaxChunks = 3
  LastFrame = 2
  Sizes <- AllSizes
  Capacity = 1
  MaxForged = 4
SPECIFICATION FrameFairSpec
CHECK_DEADLOCK FALSE
INVARIANTS FramesArrive PublishedWhole
PROPERTY FramesShown
