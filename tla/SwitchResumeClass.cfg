SPECIFICATION Spec
CONSTANTS
  Ports = {1, 2}
  PGs = {0, 3}
  Pausers = {2}
  Transits = {2}
  Routes <- RoutesLine
  Sizes = {2}
  MaxSize = 2
  W = 64
  Cell = 4
  m_maxBufferBytes = 12
  m_buffer_cell_limit_sp = 4
  m_pg_min_cell = 4
  m_port_min_cell = 4
  m_pg_shared_limit_cell = 3
  m_port_max_shared_cell = 7
  m_pg_hdrm_limit = 5
  m_port_min_cell_off = 6
  m_pg_shared_limit_cell_off = 3
  m_q_min_cell = 4
  m_op_uc_port_config1_cell = 9
  m_op_uc_port_config_cell = 11
  m_op_buffer_shared_limit_cell = 10
  m_dynamicth = FALSE
  m_pg_shared_alpha_cell = 2
  m_pg_shared_alpha_cell_off_diff = 1
  m_pg_qcn_threshold = 3
  m_pg_qcn_threshold_max = 6
  m_dctcp_threshold = 2
  m_dctcp_threshold_max = 8
  m_qcnEnabled = FALSE
  MaxQueue = 3
  MaxControl = 1
PROPERTY ResumeReachesPausedClass
