SPECIFICATION FairSpec
CONSTANTS
  CLKS_PER_BIT = 10
  Bytes <- MCBytes
  SKEW = 2
  GLITCH = 4
  RECOVERY = 14
  MAX_IN_FLIGHT = 2
INVARIANTS
  BytesArriveIntact
PROPERTIES
  EveryByteArrives
