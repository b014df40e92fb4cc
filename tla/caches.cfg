\* Two requests at a time for views of one family, and two writes of their row.
CONSTANTS
  c1 = c1
  c2 = c2
  u1 = u1
  u2 = u2
  t1 = t1
  Client = Client
  NoView = NoView
  NoWrite = NoWrite
  LongTtl = 2
  LastWrite = 0
  Rows = {"wallet", "config", "registry", "notification"}
  Views = {"balance", "credits", "user_dashboard",
           "config_value", "status", "unread"}
  Direct <- MCDirect
  Inner <- MCInner
  Broken <- MCBroken
  Ttl <- MCTtl
  Lag <- MCLag
  Calls = {c1, c2}
  Threads = {t1}
  Writers = {u1, u2}
  Writes <- MCWrites
  Guarded = {"balance", "config_value"}
  MaxClock = 5
  MaxCommits = 1
  MaxCrashes = 1
SPECIFICATION MCSpec
SYMMETRY Symmetry
VIEW AllButShown
INVARIANTS
  QuietEntriesAreCurrent
PROPERTY
  BoundedStaleness
CHECK_DEADLOCK FALSE
