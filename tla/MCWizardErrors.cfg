SPECIFICATION Spec
CONSTANTS
  Thr = {t1}
  Obj = {o1}
  Det = {d1, d2}
  NULL = NULL
  Jobs <- ErrorJobs
  AutoCopyRetries = 0
  MaxFailed = 1
  Toggles = TRUE
CHECK_DEADLOCK FALSE
PROPERTIES
  ErrorShown
  StopReturns
