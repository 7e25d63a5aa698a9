SPECIFICATION FairSpec
CONSTANTS
  k1 = k1
  h1 = h1
  Kids = {k1}
  Heirs = {h1}
  SelfExits = {"zero", "nonzero"}
  SignalCanFail = TRUE
CHECK_DEADLOCK FALSE
INVARIANTS
  TypeOK ValidationTellsTruth VersionNotInvented QueryLeavesNothing
  ReportMatchesExit StrictPassNamesVersion
PROPERTIES
  CommandEnds
