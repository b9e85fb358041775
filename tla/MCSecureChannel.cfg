CONSTANTS
  t1 = t1
  t2 = t2
  Senders <- TwoSenders
  MaxSends = 2
  MaxNonce = 3
  Capacity = 2
  MaxFaults = 2
  NoSender = NoSender
SPECIFICATION FairSpec
CHECK_DEADLOCK FALSE
INVARIANTS NoNonceReuse DeliveredInOrder
PROPERTY ShutdownInterrupts
