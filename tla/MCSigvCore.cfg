CONSTANTS
  MaxMessage = 1
  MaxJobs = 3
  RamJobs = 3
  WordMod = 2
  EngineCount = 2
  JobWords = 1
  CycleCap = 5
  Configs <- MCConfigs
  Images <- MCImages
SPECIFICATION Spec
INVARIANTS
  TypeOK
  ResultMaskSound
  ResultMaskComplete
  JobConservation
  SnapshotCoherent
  WatchdogInTime
PROPERTIES
  ImplementsBatch
  WatchdogEndsBatch
  EnginesEndBatch
  SnapshotOncePerBatch
