\* One write, three online events with two runs at a time, one reload, one write to
\* IndexedDB that fails.  An entry is given up at its third failure, not at its fourth.
CONSTANTS
  m1 = m1
  r1 = r1
  r2 = r2
  NoEntry = NoEntry
  Senders <- MCSenders
  Mutations = {m1}
  Runs = {r1, r2}
  Limit = 2
  Window = 2
  MaxRetries = 2
  RetryAfter = 1
  MaxOnline = 3
  MaxReloads = 1
  MaxFaults = 1
SPECIFICATION MCSpec
INVARIANTS
  RefusedForCause
  RemovedForCause
  AcceptedOnce
PROPERTY
  ThrottledIsSettled
CHECK_DEADLOCK FALSE
