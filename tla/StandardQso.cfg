SPECIFICATION FairSpec
CONSTANTS
  a = a
  b = b
  c = c
  d = d
  Calls = {a, b, c}
  Others = {d}
  Order <- MCOrder
  None = None
  MaxTimeouts = 3
  MaxAttempts = 2
  Settings <- MCSettings
  Scenarios <- MCScenarios
INVARIANTS TypeOK Confirmed ReportsTheirs
PROPERTIES GoodbyeQueued QsoEnds Completes
