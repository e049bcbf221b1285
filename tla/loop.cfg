SPECIFICATION Spec
CONSTANTS
  MaxRuns = 1
  MaxAttempts = 2
  MaxVersions = 4
  MaxStateVersion = 1000
  MaxTerminals = 9
  MaxStageRows = 99
  MaxLaunches = 9
  MaxAutoFixRounds = 2
  Report = {"pass"}
  TextStages <- TwoTextStages
VIEW Unversioned
INVARIANTS
  LoopOwnsRun
  OneEndPerAttempt
  ActiveIsDriven
  StableIsVerified
  SucceededHasEvidence
  OutcomeInv
PROPERTIES
  EndedAttemptsStay
CHECK_DEADLOCK FALSE
