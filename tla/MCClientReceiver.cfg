SPECIFICATION FairSpec
CONSTANTS
  Streams = {s1, s2}
  Length = 3
  Contents <- AnyFrames
  MaxFrames = 2
CHECK_DEADLOCK FALSE
INVARIANTS
  ChunksDoNotMatter
PROPERTIES
  CallbackReturns
