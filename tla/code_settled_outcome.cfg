SPECIFICATION Spec
CONSTANTS
  MaxRuns = 1
  MaxAttempts = 1
  MaxVersions = 3
  MaxStateVersion = 1000
  MaxTerminals = 9
  MaxStageRows = 99
  MaxLaunches = 9
  MaxAutoFixRounds = 1
  Report = {"pass"}
  TextStages <- NoTextStages
VIEW Unversioned
INVARIANTS
  SettledShowsOutcome
CHECK_DEADLOCK FALSE
