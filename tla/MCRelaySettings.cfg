CONSTANTS
  p1 = p1
  p2 = p2
  a1 = a1
  a2 = a2
  a3 = a3
  Processes <- TwoProcesses
  Depth = 2
  NoProcess = NoProcess
  Addresses <- ThreeAddresses
  Default = Default
  Nothing = Nothing
  MaxLines = 2
  MaxSaves = 3
SYMMETRY Symmetry
SPECIFICATION Spec
CHECK_DEADLOCK FALSE
INVARIANTS SavedSurvives
 
