SPECIFICATION Spec
CONSTANTS
  Streams = {s1, s2}
  Requests <- SomeRequests
CHECK_DEADLOCK FALSE
INVARIANTS
  PostSequence
  OneConnect
  EndDealtWith
  AnsweredOnce
