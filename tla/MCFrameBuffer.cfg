SPECIFICATION FairSpec
CONSTANTS
  MaxChunks = 2
  MaxFrames = 3
  MaxCaptures = 4
INVARIANTS
  TearNeedsDrop
  StaleFrameFirst
  ReadyFrameWhole
PROPERTIES
  MailboxSpec
  StopLeadsToExit
