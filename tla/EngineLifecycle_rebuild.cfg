SPECIFICATION Spec
CONSTANTS
  Modes <- MCModes
  Plan <- MCPlan
  Radio = "radio"
  Cw = "cw"
  Keyed <- MCKeyed
  Scenarios <- MCSwitch
  MaxFaults <- MCMaxFaults
CHECK_DEADLOCK FALSE
PROPERTIES
  RebuildAtRest
