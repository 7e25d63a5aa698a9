SPECIFICATION Spec
CONSTANTS
  Keys = {"k", "l", "m"}
  Configs <- MCConfigs
  Fixtures <- MCFixtures
CHECK_DEADLOCK FALSE
INVARIANTS
  OutputDetermined UnsupportedIsWarned
