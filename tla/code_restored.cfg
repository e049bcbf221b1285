SPECIFICATION Spec
CONSTANTS
  MaxRuns = 2
  MaxAttempts = 1
  MaxVersions = 2
  MaxStateVersion = 1000
  MaxTerminals = 9
  MaxStageRows = 99
  MaxLaunches = 9
  MaxAutoFixRounds = 0
  Report = {"pass"}
  TextStages <- NoTextStages
VIEW Unversioned
INVARIANTS
  RecoveringIsIncomplete
CHECK_DEADLOCK FALSE
