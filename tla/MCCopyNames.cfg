SPECIFICATION Spec
CONSTANTS
  Files <- MCFiles
  Dirs <- MCDirs
  Root = "root"
  Parent <- MCParent
  NameOf <- CollidingName
  Names <- MCNames
  Fatx <- MCFatx
  Tries <- MCTries
  Excluded = {"f4"}
  Jobs <- GameJobs
  WritesFail = FALSE
  ListingFails = FALSE
CHECK_DEADLOCK FALSE
INVARIANT
  GameIsThere
