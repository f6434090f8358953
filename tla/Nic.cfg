SPECIFICATION FairSpec
CONSTANTS
    N = 2
    Class <- Class2
    Size = 2
    CtlSize = 1
    Slowdowns = {1, 2}
    m_waitAck = TRUE
    m_chunk = 2
    m_waitAckTimer = 4
    m_pausetime = 2
    Far = 99
    MaxSeq = 3
    MaxInputs = 2
INVARIANTS TypeOK QueueBytesExact WakeupExists BoundedBypass
PROPERTIES Served
