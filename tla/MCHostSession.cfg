SPECIFICATION FairSpec
CONSTANTS
  RX_FIFO_DEPTH = 24
  TX_FIFO_DEPTH = 1
  RESET_CYCLES = 1
  RESULT_BYTES = 2
  FIELD_BYTE = 172
  RESULTS_MODULUS = 1
  SEQUENCE_MODULUS = 2
  BATCH_BYTES = 24
  MAX_SESSIONS = 2
  Plan <- MCPlan
INVARIANTS
  NoOverflow ResponsesMatchFrames
PROPERTIES
  SessionCompletes
