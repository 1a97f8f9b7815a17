SPECIFICATION ClientSpec
CONSTANTS
  Length = 9
  Contents <- SomeStreams
  MaxBlock = 2
  LargeFrame = 2
  Requests <- SomeRequests
  MaxSpace = 2
CHECK_DEADLOCK FALSE
INVARIANTS
  DataComplete
  FileComplete
  ClosedRightly
  OutcomeTold
PROPERTIES
  CallReturns
