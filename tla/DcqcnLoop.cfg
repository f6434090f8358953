SPECIFICATION LoopFairSpec
CONSTANTS
  m_bps = 64
  m_minRate = 10
  m_rai = 64
  m_rhai = 80
  m_rpgThreshold = 2
  m_bc = 3
  Unit = 16
  m_g = 14
  m_EcnClampTgtRate = FALSE
  m_EcnClampTgtRateAfterTimeInc = FALSE
  PacketSizes = {1, 3}
  Garbage <- SomeGarbage
  MaxByteStage = 4
  MaxTimeStage = 7
  MaxCnps = 4
  QIndexes = {1, 3}
  GarbageBits = {0, 8}
  MaxMarks = 3
  MaxLost = 1
INVARIANTS LoopTypeOK RateBounded TargetAboveRate HyperEarned GarbageUnused
INVARIANTS AccountClean CutsAnswerMarks
PROPERTIES OnlyCnpCuts Recovers Notified
