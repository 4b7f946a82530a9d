CONSTANTS
  Order = 13
  ScalarBits = 6
  DigestBytes = 2
  ByteBits = 2
  Jobs <- MCJobs
  Later <- MCLater
SPECIFICATION Spec
INVARIANTS
  EngineTypeOK
  VerdictIsEquation
  DigitsExact
PROPERTIES
  EveryJobEnds
