SPECIFICATION StoreSpec
CONSTANTS
  MaxRuns = 2
  MaxAttempts = 2
  MaxVersions = 2
  MaxStateVersion = 4
  MaxTerminals = 2
  MaxStageRows = 2
  TextStages <- NoTextStages
INVARIANTS
  OneActiveRun
  StableIsStable
  LineageDescends
PROPERTIES
  DecidedVersionsStay
  NoLostUpdate
  SnapshotOrdered
CHECK_DEADLOCK FALSE
