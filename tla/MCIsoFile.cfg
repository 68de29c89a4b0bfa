SPECIFICATION Spec
CONSTANTS
  DataSize = 2
  Mode2Size = 3
  Slots = 3
  Chunk = 4
  MaxSize = 9
  Starts = {0, 1, 5}
  Loops = {"CopyISOFile", "CopyFileGeneric"}
  ReadErrors = TRUE
INVARIANTS
  TypeOK
  InOrder
  ShortOnlyByUnread
  NeverLonger
PROPERTIES
  OnlyFirstReadTwice
  CopyEnds
