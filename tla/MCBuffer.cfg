SPECIFICATION FairSpec
CONSTANT Byte <- MCByte
INVARIANTS NoHole
PROPERTIES DrainedIsExact ImplementsFifo EveryBeatDelivered
