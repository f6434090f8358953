SPECIFICATION FairSpec
CONSTANTS
    m_chunk = 4
    m_size = 3
    m_count = 7
    MaxExtra = 0
    MaxLost = 0
PROPERTY ChunkAcknowledged
CHECK_DEADLOCK FALSE
