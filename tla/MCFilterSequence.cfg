SPECIFICATION FairSpec
CONSTANTS
  MAX_LOGICAL_FRAME_BYTES = 48
  SEQUENCE_MODULUS = 2
  FRAMES_PER_RESET = 3
  Streams <- MCStreams
  Configs <- MCConfigs
  OutReady = {TRUE, FALSE}
  ResultReady = {TRUE, FALSE}
INVARIANTS
  IInv RecordAccounting RecordIsPrompt PayloadTerminates RecordMatchesReference
PROPERTIES
  InputWaitsForRecord StalledOutputsHold ImplementsService EveryFrameIsReported
