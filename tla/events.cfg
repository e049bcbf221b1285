SPECIFICATION FairStreamSpec
CONSTANTS
  MaxRuns = 1
  MaxAttempts = 2
  MaxVersions = 4
  MaxStateVersion = 9
  MaxTerminals = 3
  MaxStageRows = 99
  MaxLaunches = 9
  MaxAutoFixRounds = 1
  Report = {}
  TextStages <- NoTextStages
INVARIANTS
  ReplayExact
PROPERTIES
  CompletionArrives
  LoopReturns
CHECK_DEADLOCK FALSE
