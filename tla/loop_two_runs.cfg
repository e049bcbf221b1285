SPECIFICATION Spec
CONSTANTS
  MaxRuns = 2
  MaxAttempts = 2
  MaxVersions = 3
  MaxStateVersion = 1000
  MaxTerminals = 9
  MaxStageRows = 99
  MaxLaunches = 3
  MaxAutoFixRounds = 0
  Report = {}
  TextStages <- NoTextStages
VIEW Unversioned
INVARIANTS
  CompletedMeansSucceeded
PROPERTIES
  ActiveRunHoldsPreview
  SucceededStays
  ImplementsPointer
CHECK_DEADLOCK FALSE
