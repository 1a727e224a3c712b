SPECIFICATION Spec
CONSTANTS
  k = k
  l = l
  Keys = {k, l}
  Backups = 2
  MaxOps = 3
  MaxFaults = 0
  Scenarios <- MCReimport
CHECK_DEADLOCK FALSE
INVARIANT NothingLost
