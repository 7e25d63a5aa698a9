SPECIFICATION FairSpec
CONSTANTS
  Kids = {}
  SelfExits = {"zero", "nonzero"}
  SignalCanFail = FALSE
  Requests = {"r1"}
  Signals = 1
  MaxAttempts = 2
  RivalKeepsConn = FALSE
  RestartCanFail = FALSE
  SettleCoversWait = TRUE
CHECK_DEADLOCK FALSE
INVARIANTS
  TypeOK TransmittedToCollector StatusIsFinal
PROPERTIES
  FirstFailureWins RunReturns
