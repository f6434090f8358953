SPECIFICATION Spec
CONSTANTS
  Ports = {1, 2}
  PGs = {1, 3}
  Pausers = {}
  Transits = {}
  Routes <- RoutesIncast
  Sizes = {2, 5}
  MaxSize = 5
  W = 64
  Cell = 4
  m_maxBufferBytes = 12
  m_buffer_cell_limit_sp = 4
  m_pg_min_cell = 4
  m_port_min_cell = 4
  m_pg_shared_limit_cell = 100
  m_port_max_shared_cell = 100
  m_pg_hdrm_limit = 5
  m_port_min_cell_off = 90
  m_pg_shared_limit_cell_off = 90
  m_q_min_cell = 4
  m_op_uc_port_config1_cell = 9
  m_op_uc_port_config_cell = 11
  m_op_buffer_shared_limit_cell = 10
  m_dynamicth = FALSE
  m_pg_shared_alpha_cell = 2
  m_pg_shared_alpha_cell_off_diff = 1
  m_pg_qcn_threshold = 5
  m_pg_qcn_threshold_max = 5
  m_dctcp_threshold = 6
  m_dctcp_threshold_max = 8
  m_qcnEnabled = TRUE
  MaxQueue = 3
  MaxControl = 0
INVARIANTS TypeOK IngressExact HeadroomCovered HeadroomLimited
INVARIANTS BufferRespected EgressDriftBounded EgressSumsExact
PROPERTY MarkingHonest
