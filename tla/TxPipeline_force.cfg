SPECIFICATION Spec
CONSTANTS
  slot = slot
  h1 = h1
  h2 = h2
  op1 = op1
  op2 = op2
  Nobody = Nobody
  SlotHandler = slot
  Handler <- MCHandler
  Operators <- MCOperators
  Scenarios <- MCOverlap
  MaxInFlight = 4
  MaxFaults = 0
PROPERTY ForceStopStops
