SPECIFICATION FairSpec
CONSTANTS
  Modes <- MCModes
  Plan <- MCPlan
  Radio = "radio"
  Cw = "cw"
  Keyed <- MCKeyed
  Scenarios <- MCAll
  MaxFaults <- MCMaxFaults
CHECK_DEADLOCK FALSE
INVARIANTS
  TypeOK
  RunningComplete
  RunningHasRadio
  UpInOrder
PROPERTIES
  Settles
  Resumes
