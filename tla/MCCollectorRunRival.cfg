SPECIFICATION Spec
CONSTANTS
  Kids = {}
  SelfExits = {"zero", "nonzero"}
  SignalCanFail = FALSE
  Requests = {"r1"}
  Signals = 1
  MaxAttempts = 1
  RivalKeepsConn = TRUE
  RestartCanFail = FALSE
  SettleCoversWait = TRUE
CHECK_DEADLOCK FALSE
INVARIANTS
  TransmittedToCollector
