SPECIFICATION Spec
CONSTANTS
  Request = {q1, q2}
  c1 = c1
  c2 = c2
  Client <- TwoClients
  Proxy = {x}
  Password = {p1, p2}
  Secret = {k, weak}
  WeakSecret = {weak}
  None = None
  MaxFailures = 2
  Window = 3
  Fraction = 2
  TTL = {2, 3}
  MaxTTL = 2
  Stall = 1
  MaxClock = 6
  MaxSessions = 1
  MaxGuesses <- FourAndOne
VIEW Recent
SYMMETRY Renaming
INVARIANTS
  SessionsInv
  GuessesSpaced
  RetryHonest
PROPERTIES
  RevokedStaysOut
  SessionsHonoured
CHECK_DEADLOCK FALSE
