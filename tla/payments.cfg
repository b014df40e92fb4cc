\* Three payments and three requests: deliveries, edits, expiry and a crash.
CONSTANTS
  w1 = w1
  p1 = p1
  p2 = p2
  p3 = p3
  c1 = c1
  c2 = c2
  c3 = c3
  NoCredits = NoCredits
  Wallets = {w1}
  Payments = {p1, p2, p3}
  Calls = {c1, c2, c3}
  Drafts <- DraftsOfEachKind
  Requests <- EveryRequest
  Rate = 2
  Backing = 3
  Opening <- OneCredit
  VelocityLimit = 1
  AnomalyFactor = 1
  MaxAge <- Ages
  MaxCrashes = 1
SPECIFICATION MCSpec
SYMMETRY Symmetry
INVARIANTS
  TypeOK
  SettledByDeliveries
  
  FreezeIsExplained
  
CHECK_DEADLOCK FALSE
