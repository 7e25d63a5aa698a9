SPECIFICATION FairSpec
CONSTANTS
  k1 = k1
  k2 = k2
  Kids = {k1, k2}
  Text = {"export_failure"}
  SelfExits = {"zero", "nonzero", "signal"}
  SignalCanFail = TRUE
CHECK_DEADLOCK FALSE
INVARIANTS
  TypeOK NoSurvivor LogsComplete StopVerdict
PROPERTIES
  VerdictFinal StopReturns StopReleases
