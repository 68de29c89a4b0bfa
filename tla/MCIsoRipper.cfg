SPECIFICATION Spec
CONSTANTS
  MaxDisc = 11
  SliceSize = 5
  CopyLevelSize <- MCLevels
  Bad <- MCBad
  SliceName <- MCNames
  WritesFail = TRUE
  OpensFail = TRUE
INVARIANTS
  TypeOK
  SlicesExact
  WholeImage
PROPERTY RipEnds
