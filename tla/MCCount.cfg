CONSTANTS
  Parts = {1, 2}
  First <- FirstOfTwo
  Num <- NumOfTwo
  Positions = 7
  Cores = {c1, c2, c3}
  ChunkEntries = 3
  UserErases = TRUE
  MaxFaults = 2
  MaxLosses = 1
SPECIFICATION FairSpec
INVARIANT TypeOK
INVARIANT CheckpointIsPrefix
INVARIANT ResultsAreRight
INVARIANT OneSearcher
PROPERTY PublishedOnce
PROPERTY AllPartsCounted
