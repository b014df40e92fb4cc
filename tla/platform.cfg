\* Two workers on the row of each component, one component at a time; for the
\* audit trail four calls of two types and a worker that dies.
CONSTANTS
  Idle = Idle
  Gone = Gone
  Never = Never
  Workers = {w1, w2}
  Users = {u1, u2}
  Actions = {a1, a2}
  Stars = {1, 5}
  Timeout = 0
  Stale = 1
  MaxClock = 2
  Calls = {1, 2, 3, 4}
  Types = {user, device}
  Temp = Temp
  MaxDeaths = 1
SPECIFICATION MCSpec
SYMMETRY Symmetry
INVARIANTS
  EndIsCoherent
  StatusFollowsRate
  DownStaysDown
  RevertedWasLifted
  RatingIsCurrent
  UnracedChainVerifies
  RacesAreNoticed
CHECK_DEADLOCK FALSE
