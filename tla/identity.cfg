\* Four requests about one account, with a device it may know and one target.
CONSTANTS
  f1 = f1
  f2 = f2
  t1 = t1
  NoDevice = NoDevice
  Everything = Everything
  Never = Never
  c1 = c1
  c2 = c2
  c3 = c3
  c4 = c4
  Calls = {c1, c2, c3, c4}
  Fingerprints = {f1, f2}
  Known = Known
  Targets = {t1}
  Requests <- EveryRequest
  LockLimit = 2
  LockTime = 2
  AccessLife = 1
  RefreshLife = 2
  MaxClock = 3
  MaxCrashes = 1
SPECIFICATION MCSpec
SYMMETRY Symmetry
INVARIANTS
  LockoutCounts
  RevokedDeviceFadesOut
  PermissionsAsGranted
CHECK_DEADLOCK FALSE
