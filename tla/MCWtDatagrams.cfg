SPECIFICATION Spec
CONSTANTS
  Sessions = {p1, p2, p3}
  Copies = 2
  Closing = {p3}
  None = None
  MaxWaiting = 1
  MaxTrouble = 1
  Zero = p1
  MaxDeclared = 3
CHECK_DEADLOCK FALSE
INVARIANTS
  LinksAgree
  ConnectionReady
PROPERTIES
  TableKept
  NoStarvation
  TeardownEnds
