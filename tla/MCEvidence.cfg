SPECIFICATION Spec
CONSTANTS
  Records <- MCRecords
  Inputs <- MCInputs
  Policies <- MCPolicies
  MaxSeries = 1
CHECK_DEADLOCK FALSE
INVARIANTS
  ExitMeaning
PROPERTIES
  VerdictsAreFinal GateIsFinal
