CONSTANTS
  MaxSequence = 2
  MaxAccepted = 4
  Ids <- ThreeIds
  Epochs <- ThreeEpochs
SPECIFICATION SessionSpec
INVARIANTS NoEscalation InputsExact
PROPERTY ClosedForGood
