SPECIFICATION FairSpec
CONSTANTS
  Modes <- AllModes
  BufferCap = 8
  MaxSeq = 6
  MaxData = 2
  MaxLoss = 2
  MaxAckLoss = 1
  MaxNackLoss = 1
INVARIANTS TypeOK BufferCovers NoEarlyDiscard WaitHonoured WaitingHasTimer
PROPERTIES ImplementsDelivery LossRepaired
CHECK_DEADLOCK FALSE
