SPECIFICATION CapsulesSpec
CONSTANTS
  Peer <- SomePeer
  Closings <- SomeClosings
  BufSize = 80
  Others <- SomeSettings
  Rooms = {0, 1, 2, 8, 20, 40, 63, 64, 66, 255}
  Chunks = {1, 2, 3, 7, 60}
  MaxSent = 2
CHECK_DEADLOCK FALSE
INVARIANTS
  SettingsUnderstood
  CapsulesRead
  CloseReported
