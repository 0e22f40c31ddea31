SPECIFICATION Spec
CONSTANTS
  DEPTH = 4
  Word <- MCWord
INVARIANTS CountWithinDepth
PROPERTIES ImplementsFifo
