SPECIFICATION Spec
CONSTANTS
  Files <- MCFiles
  Dirs <- MCDirs
  Root = "root"
  Parent <- MCParent
  NameOf <- MCName
  Names <- MCNames
  Fatx <- MCFatx
  Tries <- MCTries
  Excluded = {"f4"}
  Jobs <- DvdJobs
  WritesFail = FALSE
  ListingFails = FALSE
CHECK_DEADLOCK FALSE
INVARIANT
  ReportMatchesLogAlways
