\* The same instance, for what an execution says when it fails.
CONSTANTS
  e1 = e1
  e2 = e2
  e3 = e3
  w1 = w1
  w2 = w2
  i1 = i1
  Executions = {e1, e2, e3}
  Wallets = {w1, w2}
  Inputs = {i1}
  Costs = {1, 2}
  Backing = 1
  Opening <- TwoAndOne
  NoCount = NoCount
  MaxFaults = 1
SPECIFICATION MCSpec
PROPERTY
  FailsForCause
