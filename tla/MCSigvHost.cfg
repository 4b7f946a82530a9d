CONSTANTS
  GroupBase = 2
  U16Max = 6
  KeyBytes = 1
  SigBytes = 3
  Inputs <- MCInputs
  MaxMessage = 12
  MaxJobs = 3
  RamJobs = 3
  WordMod = 4
  WordBytes = 2
  JobSize = 12
  Scenarios <- MCScenarios
  Images <- MCImages
  Genuine <- MCGenuine
SPECIFICATION Spec
CHECK_DEADLOCK FALSE
INVARIANTS
  AcceptsExactly
  VerifiedIsGenuine
  AnswerComplete
  RefusedUntouched
