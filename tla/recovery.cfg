SPECIFICATION Spec
CONSTANTS
  MaxRuns = 2
  MaxAttempts = 2
  MaxDisturbances = 2
  TextStages <- NoTextStages
VIEW Unversioned
INVARIANTS
  TablesBeforeUse
  StageRowsSound
  ReadsSettle
PROPERTIES
  CompletedIsEvident
  PointerForward
CHECK_DEADLOCK FALSE
