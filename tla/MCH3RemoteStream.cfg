SPECIFICATION FairSpec
CONSTANTS
  u1 = u1
  u2 = u2
  b1 = b1
  Unidirs = {u1, u2}
  Bidirs = {b1}
  Contents <- SomeContents
  Declared = {0}
  MaxContent = 2
CHECK_DEADLOCK FALSE
INVARIANTS
  FramesHandled
  SettingsFirst
  SessionStreamComplete
PROPERTIES
  CallEnds
