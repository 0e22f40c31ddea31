SPECIFICATION TestSpec
CONSTANTS
  MAX_LOGICAL_FRAME_BYTES = 48
  SEQUENCE_MODULUS = 4
  FRAMES_PER_RESET = 1
  Streams <- MCStreams
  Configs <- MCConfigs
  OutReady = {TRUE, FALSE}
  ResultReady = {TRUE, FALSE}
  RandomFields <- MCFields
  RandomPayloads <- MCPayloads
  RandomPaddings <- MCPaddings
  LongTotals = {35, 65535}
INVARIANTS ChecksPass PayloadIsCutThrough BeatsMatchReference CasesAreWhatTheySay
