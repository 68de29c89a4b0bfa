SPECIFICATION Spec
CONSTANTS
  Callers <- Threads
  Statuses <- AllStatuses
  Maps <- TheMaps
  MaxSteps = 1
  Kinds <- TwoKinds
  MaxMoves <- TheMoves
  MaxChoices <- TheChoices
INVARIANTS
  TypeOK
  TypeOfDisc
PROPERTIES
  TrayOpeningTold
  StopAppReturns
