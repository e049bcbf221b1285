SPECIFICATION PageSpec
CONSTANTS
  MaxRuns = 1
  MaxAttempts = 2
  MaxVersions = 1
  MaxStateVersion = 3
  MaxTerminals = 9
  MaxStageRows = 99
  MaxLaunches = 9
  MaxAutoFixRounds = 0
  Report = {}
  TextStages <- NoTextStages
  MaxLoads = 2
INVARIANTS
  AppliedOnce
  SuccessIsReal
PROPERTIES
  SnapshotsForward
CHECK_DEADLOCK FALSE
VIEW Collapsed
