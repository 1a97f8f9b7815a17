SPECIFICATION ReceiverSpec
CONSTANTS
  Streams = {1, 2}
  Contents <- SomeContents
  Session = 4
  MaxLen = 8
  FirstCap = 1
  Kept = 2
  MaxFrames = 3
  MaxCut = 1
CHECK_DEADLOCK FALSE
INVARIANTS
  FramesSaved
  BufferFits
