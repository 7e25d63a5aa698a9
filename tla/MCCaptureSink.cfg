SPECIFICATION FairSpec
CONSTANTS
  Requests <- MCRequests
  Size <- MCSize
  Items <- MCItems
  maxMessageBytes = 6
  maxCaptureBytes = 9
  maxCaptureItems = 4
  maxCaptureRequests = 2
CHECK_DEADLOCK FALSE
INVARIANTS
  TypeOK LimitsKept Accounting NoSilentLoss
PROPERTIES
  ImplementsPromise CloseReturns
