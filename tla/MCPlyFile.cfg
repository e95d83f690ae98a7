CONSTANTS
  Entry = 3
  Block = 2
  WriteEntries = 2
  ReadEntries = 4
  MaxEntries = 7
SPECIFICATION FairSpec
INVARIANT TypeOK
INVARIANT BytesInPlace
PROPERTY ImplementsPlainFile
PROPERTY Completes
