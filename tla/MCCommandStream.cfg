SPECIFICATION Spec
CONSTANTS
  RX_FIFO_DEPTH = 8
  TX_FIFO_DEPTH = 1
  RESET_CYCLES = 1
  RESULT_BYTES = 2
  FIELD_BYTE = 172
  RESULTS_MODULUS = 65536
  SEQUENCE_MODULUS = 2
  MAX_COMMANDS = 3
  Commands <- MCCommands
INVARIANTS
  TypeOK StreamNeverStarves BoardInv FrameIsBackToBack ConfigIsCommands AnswersOnWire
