CONSTANTS
  SortThreads = 2
  Slots = 6
  Keys <- MCKeys
  Values <- MCValues
  ReadEntries = 2
  TrimEntries = 1
  BlockEntries = 2
  MaxStreams = 2
  MaxMsg = 2
  QueueSize = 1
  Root = 1
  Moves <- MCMoves
  Depth = 4
  MaxMoves = 4
  MoveSlots = 2
SPECIFICATION FairSpec
INVARIANT TypeOK
INVARIANT HalfPlyShows
PROPERTY ImplementsExpansion
PROPERTY Completes
