SPECIFICATION Spec
CONSTANTS
  Uids = {u1, u2, u3}
  NoPath = NoPath
  MaxPaths = 2
  MaxRtt = 2
SYMMETRY PathSymmetry
INVARIANTS
  BoundToItsPath
  EveryStreamFinished
