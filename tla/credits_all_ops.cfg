\* Two wallets, three concurrent calls of every kind, transfers to oneself included.
CONSTANTS
  w1 = w1
  w2 = w2
  w3 = w3
  c1 = c1
  c2 = c2
  c3 = c3
  NoOne = NoOne
  Wallets = {w1, w2}
  Calls = {c1, c2, c3}
  Ops = {"mint", "burn", "transfer", "freeze", "unfreeze", "patch"}
  Routes <- AllRoutes
  Amounts = {1, 2}
  Backing = 1
  Opening <- OneEach
  OpeningMinted <- TotalOpening
SPECIFICATION Spec
SYMMETRY FullSymmetry
INVARIANTS
  TypeOK
  NonNegative
  ReserveNeverOverstates
PROPERTY FrozenNeverTransfers
