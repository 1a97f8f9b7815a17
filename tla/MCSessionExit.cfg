SPECIFICATION FairSpec
CONSTANTS
  Cnxs = {c1, c2}
  None = None
  MaxGen = 2
CHECK_DEADLOCK FALSE
PROPERTIES
  StoppedThreadsExit
