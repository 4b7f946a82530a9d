CONSTANTS
  Requests = {r1, r2}
  Together = {{r1, r2}}
  Tools = {}
  None = None
  WaitModes <- MCWaitModes
  MayStop = TRUE
  IdMod = 4
SPECIFICATION Spec
CHECK_DEADLOCK FALSE
INVARIANT
  AnswerFromOwnConfig
