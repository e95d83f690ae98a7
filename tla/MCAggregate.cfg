CONSTANTS
  DbDepth = 3
  Size <- MCSize
  NumMoves <- MCNumMoves
  MoveFile <- MCMoveFile
  MoveStart <- MCMoveStart
  Leaves <- MCLeaves
  CounterLimit = 8
  MoveEntries = 3
  Depths = {1, 2, 3, 4}
  Databases = {2, 3}
  Cuts <- MCCuts
  ResultEntries = 2
  FileLimits = {3, 6}
SPECIFICATION FairSpec
INVARIANT TypeOK
INVARIANT CountsAddUp
INVARIANT PerftIsRight
INVARIANT NothingMissing
INVARIANT NoFalseRefusal
PROPERTY Terminates
