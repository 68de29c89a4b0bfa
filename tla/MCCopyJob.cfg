SPECIFICATION Spec
CONSTANTS
  Files <- MCFiles
  Dirs <- MCDirs
  Root = "root"
  Parent <- MCParent
  NameOf <- MCName
  Names <- MCNames
  Fatx <- MCFatx
  Tries <- MCTries
  Excluded = {"f4"}
  Jobs <- AllJobs
  WritesFail = FALSE
  ListingFails = TRUE
CHECK_DEADLOCK FALSE
INVARIANTS
  TypeOK
  ReportMatchesLog
  GameIsThere
PROPERTIES
  RetryKeepsCopies
  PassEnds
  ImplementsLedger
