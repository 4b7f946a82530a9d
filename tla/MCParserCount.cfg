CONSTANTS
  GroupBase = 2
  U16Max = 6
  KeyBytes = 1
  SigBytes = 3
  Inputs <- ParserInputs
SPECIFICATION ParserSpec
CHECK_DEADLOCK FALSE
INVARIANTS
  MalformedRejected
