\* Three wallets, three concurrent calls of every kind but the generic PATCH: waits
\* in cycles of two and of three.
CONSTANTS
  w1 = w1
  w2 = w2
  w3 = w3
  c1 = c1
  c2 = c2
  c3 = c3
  NoOne = NoOne
  Wallets = {w1, w2, w3}
  Calls = {c1, c2, c3}
  Ops = {"mint", "burn", "transfer", "freeze", "unfreeze"}
  Routes <- OtherRoutes
  Amounts = {1}
  Backing = 1
  Opening <- OneEach
  OpeningMinted <- TotalOpening
SPECIFICATION FairSpec
INVARIANTS
  LedgerReplays
  CreditsConserved
  NobodyHangs
PROPERTIES
  ImplementsBook
  EveryCallAnswered
