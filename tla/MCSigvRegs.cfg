CONSTANTS
  MaxMessage = 1
  MaxJobs = 1
  RamJobs = 1
  WordMod = 3
  BatchConfigs <- MCBatchConfigs
  BatchVerdicts <- MCBatchVerdicts
  ConfigWrites <- MCConfigWrites
SPECIFICATION Spec
INVARIANTS
  RegsTypeOK
  LaunchVisible
  CompletionRaisesIrq
  IgnoredWriteVisible
PROPERTIES
  ConfigStable
