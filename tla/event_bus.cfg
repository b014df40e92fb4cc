\* Two overlapping runs over two events whose handlers may succeed or raise; a crash
\* and deletions.
CONSTANTS
  r1 = r1
  r2 = r2
  MaxEvents = 2
  Kinds = {"local", "addressed"}
  Runs = {r1, r2}
  BatchSize = 2
  RetryLimit = 2
  MaxCrashes = 1
SPECIFICATION FairSpec
INVARIANTS
  ProcessedWasHandled
  GivenUpAfterLimit
PROPERTY
  EveryTurnCounts
CHECK_DEADLOCK FALSE
