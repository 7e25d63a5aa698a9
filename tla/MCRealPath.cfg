SPECIFICATION Spec
CONSTANTS
  Cases <- MCCases
  Routing <- MCRouting
  Buffering <- MCBuffering
CHECK_DEADLOCK FALSE
INVARIANTS
  HarnessIsFaithful NoProviderInHarness DoubtIsScoped PassThroughIsIdentity
