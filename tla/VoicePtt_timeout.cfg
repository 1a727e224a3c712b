SPECIFICATION Spec
CONSTANTS
  c1 = c1
  c2 = c2
  k1 = k1
  Nobody = Nobody
  Clients <- MCClients
  Keyers <- MCKeyers
  Scenarios <- MCTimeout
  MaxCommands = 3
  MaxLost = 0
CHECK_DEADLOCK FALSE
INVARIANTS
  KeyHasHolder
