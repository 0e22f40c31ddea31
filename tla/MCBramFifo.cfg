SPECIFICATION Spec
CONSTANTS
  DEPTH = 4
  Word <- MCWord
INVARIANTS StoredWithinDepth HeadIsShown
PROPERTIES CollisionIsNotShown ImplementsLaggedFifo
