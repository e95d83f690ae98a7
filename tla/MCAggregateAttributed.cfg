CONSTANTS
  DbDepth = 3
  Size <- MCSize
  NumMoves <- MCNumMoves
  MoveFile <- MCMoveFile
  MoveStart <- MCMoveStart
  Leaves <- MCLeaves
  CounterLimit = 8
  MoveEntries = 3
  Depths = {1, 2, 3, 4}
  Databases = {2, 3}
  Cuts <- MCCuts
  ResultEntries = 2
  FileLimits = {4}
SPECIFICATION Spec
INVARIANT Ply1Attributed
