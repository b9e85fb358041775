CONSTANTS
  w1 = w1
  w2 = w2
  Workers <- TwoWorkers
  NoWorker = NoWorker
  MaxPresses = 2
  MaxFaults = 2
SPECIFICATION FairSpec
CHECK_DEADLOCK FALSE
INVARIANTS NeverGivenUp AnswersItsRequest OfferedAsShown
PROPERTIES HostReturns OldOfferWithdrawn
