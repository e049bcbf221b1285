SPECIFICATION Spec
CONSTANTS
  Key = {k1}
  Request = {q1, q2}
  TTL = 2
  MaxSecond = 4
  MaxEffects = 3
SYMMETRY Interchangeable
INVARIANTS
  EffectsSpaced
  LaunchedOnce
  LedgerInv
PROPERTIES
  ReplayIsOriginal
CHECK_DEADLOCK FALSE
