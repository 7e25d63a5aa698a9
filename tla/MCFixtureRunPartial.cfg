SPECIFICATION Spec
CONSTANTS
  Keys = {"k", "l", "m"}
  Configs <- MCMixedConfigs
  Fixtures <- MCFixtures
CHECK_DEADLOCK FALSE
INVARIANTS
  PartialIsWarned
