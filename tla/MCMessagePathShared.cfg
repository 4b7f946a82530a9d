CONSTANTS
  EngineCount = 2
  BlockBytes = 16
  PrefixBytes = 3
  LengthBytes = 2
  WordBytes = 4
  MaxMessage = 16
  Rounds = 2
  Lengths <- MCLengths
SPECIFICATION Spec
INVARIANTS
  RequestedWordLatched
