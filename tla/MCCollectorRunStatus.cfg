SPECIFICATION Spec
CONSTANTS
  Kids = {}
  SelfExits = {"zero", "nonzero"}
  SignalCanFail = FALSE
  Requests = {"r1"}
  Signals = 1
  MaxAttempts = 2
  RivalKeepsConn = FALSE
  RestartCanFail = TRUE
  SettleCoversWait = TRUE
CHECK_DEADLOCK FALSE
INVARIANTS
  StatusIsFinal
