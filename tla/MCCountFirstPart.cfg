CONSTANTS
  Parts = {1}
  First <- FirstHalf
  Num <- HalfNum
  Positions = 6
  Cores = {c1, c2}
  ChunkEntries = 2
  UserErases = FALSE
  MaxFaults = 1
  MaxLosses = 0
SPECIFICATION FairSpec
PROPERTY CheckpointResumes
