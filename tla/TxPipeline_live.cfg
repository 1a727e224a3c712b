SPECIFICATION FairSpec
CONSTANTS
  slot = slot
  h1 = h1
  h2 = h2
  op1 = op1
  op2 = op2
  Nobody = Nobody
  SlotHandler = slot
  Handler <- MCHandler
  Operators <- MCOneOperator
  Scenarios <- MCOverlap
  MaxInFlight = 3
  MaxFaults = 1
PROPERTIES ComesToRest
