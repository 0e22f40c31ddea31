SPECIFICATION RateSpec
CONSTANTS
  MAX_LOGICAL_FRAME_BYTES = 48
  SEQUENCE_MODULUS = 4
  FRAMES_PER_RESET = 2
  Streams <- MCStreams
  Configs <- MCConfigs
  OutReady = {TRUE}
  ResultReady = {TRUE}
INVARIANTS NoStallWithinFrame
PROPERTIES GapBetweenFrames PayloadLatencyIsOne
