SPECIFICATION Spec
CONSTANTS
  d = d
  e = e
  x = x
  y = y
  Drives <- TwoDrives
  D = d
  Names <- TwoNames
  Rank <- Ranks
  OnDisk <- AtFirst
  Discs <- TheDiscs
  Presses <- ThePresses
  MaxPresses = 7
  MaxActs = 2
  MaxDiscs = 1
  MaxLevel <- Levels
  MaxDepth = 3
INVARIANTS
  TypeOK
  SelectionInPane
PROPERTIES
  DeletesWhatWasShown
  TakenOffWhenCopied
