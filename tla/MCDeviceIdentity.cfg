CONSTANTS
  p1 = p1
  p2 = p2
  p3 = p3
  i1 = i1
  i2 = i2
  i3 = i3
  i4 = i4
  Processes <- ThreeProcesses
  Depth = 2
  NoProcess = NoProcess
  Ids <- FourIds
  FaultSets <- OneFault
SYMMETRY Symmetry
SPECIFICATION Spec
CHECK_DEADLOCK FALSE
INVARIANTS StableId OwnIdIsDurable
PROPERTY OnlyPartialsMoved
