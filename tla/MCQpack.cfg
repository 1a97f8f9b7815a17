SPECIFICATION Spec
CONSTANTS
  StaticText <- Texts
  HeaderName <- Names
  Allowed <- Allow18
  DeHuff = 26
  PeerBlocks <- Blocks
  Messages <- Own
  Rooms <- SomeRooms
CHECK_DEADLOCK FALSE
INVARIANTS
  FieldsRead
  WrittenIsRead
