SPECIFICATION Spec
CONSTANTS
  halo = halo
  halo2 = halo2
  junk = junk
  Games <- TwoGames
  Junk <- NoGames
  Covers <- HaloCovers
  Title <- Titles
  ShowLines = 2
  MaxItems = 3
  MaxGarbage = 1
  PowerOff = TRUE
INVARIANTS
  TypeOK
  CursorOnShownItem
PROPERTIES
  CountRestored
  ScanFinds
  ScanForgets
  KeepsOthers
