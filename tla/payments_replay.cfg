\* The same webhook delivered twice.
CONSTANTS
  w1 = w1
  p1 = p1
  p2 = p2
  p3 = p3
  c1 = c1
  c2 = c2
  c3 = c3
  NoCredits = NoCredits
  Wallets = {w1}
  Payments = {p1}
  Calls = {c1, c2}
  Drafts <- OneDeposit
  Requests <- Successes
  Rate = 2
  Backing = 4
  Opening <- OneCredit
  VelocityLimit = 1
  AnomalyFactor = 1
  MaxAge <- NoAges
  MaxCrashes = 0
SPECIFICATION Spec
SYMMETRY Symmetry
INVARIANTS
  SettledOnce
CHECK_DEADLOCK FALSE
