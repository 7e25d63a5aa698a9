SPECIFICATION Spec
CONSTANTS
  k1 = k1
  Kids = {k1}
  SelfExits = {"zero"}
  SignalCanFail = FALSE
  Requests = {"r1"}
  Signals = 1
  MaxAttempts = 2
  RivalKeepsConn = FALSE
  RestartCanFail = TRUE
  SettleCoversWait = FALSE
CHECK_DEADLOCK FALSE
INVARIANTS
  SuccessIsEvidence CleanedUp CaptureOutlivesCollector
PROPERTIES
  AttemptsDoNotOverlap
