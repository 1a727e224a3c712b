SPECIFICATION Spec
CONSTANTS
  k = k
  l = l
  Keys = {k, l}
  Backups = 2
  MaxOps = 3
  MaxFaults = 2
  Scenarios <- MCScenarios
SYMMETRY MCSymmetry
CHECK_DEADLOCK FALSE
INVARIANTS TypeOK HistoryComplete FailsOnlyEmpty
PROPERTIES ImplementsLogbook NeverBlank
