SPECIFICATION FairSpec
CONSTANTS
    m_chunk = 4
    m_size = 2
    m_count = 7
    MaxExtra = 2
    MaxLost = 1
INVARIANTS TypeOK OrphanNeedsDuplicate ClientArmed WindowHonoured StallNeedsLoss LossIsFinal
PROPERTIES Finishes
CHECK_DEADLOCK FALSE
