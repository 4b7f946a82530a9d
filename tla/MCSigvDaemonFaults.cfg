CONSTANTS
  Requests = {r1, r2, r3}
  Together = {{r1, r2}, {r1, r3}}
  Tools = {r3}
  None = None
  WaitModes <- MCWaitModes
  MayStop = TRUE
  IdMod = 3
SPECIFICATION Spec
VIEW View
CHECK_DEADLOCK FALSE
INVARIANTS
  StatusFromOwnLaunch
  SingleFlight
  ResultFromOwnLaunch
  AnswerFromOwnPayload
  OwnConfigUnlessAbandoned
  NoMismatch
  NoLostInterrupt
PROPERTIES
  EveryRequestAnswered
  ServesAgain
