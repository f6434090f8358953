SPECIFICATION FairSpec
CONSTANTS
  Modes <- ShortMessages
  BufferCap = 8
  MaxSeq = 6
  MaxData = 2
  MaxLoss = 1
  MaxAckLoss = 1
  MaxNackLoss = 0
PROPERTY AllReceived
CHECK_DEADLOCK FALSE
