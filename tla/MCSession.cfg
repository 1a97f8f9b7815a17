SPECIFICATION FairSpec
CONSTANTS
  Cnxs = {c1, c2}
  None = None
  MaxGen = 2
CHECK_DEADLOCK FALSE
INVARIANTS
  FlagMeansCamera
  FlagMeansConnection
  JoinedCleanup
PROPERTIES
  OneSessionSpec
  QuietStop
