CONSTANTS
  Positions = 5
  PlyDepth = 2
  MaxParts = 6
  Depths = {0, 2, 3}
  Splits = {0, 1, 3, 6, 7}
SPECIFICATION Spec
INVARIANT TypeOK
INVARIANT OneSetup
INVARIANT NoOverlap
INVARIANT SetupIsComplete
