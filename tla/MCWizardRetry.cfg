SPECIFICATION Spec
CONSTANTS
  Thr = {t1, t2}
  Obj = {o1, o2}
  Det = {d1, d2}
  NULL = NULL
  Jobs <- PlainJobs
  AutoCopyRetries = 1
  MaxFailed = 2
  Toggles = FALSE
CHECK_DEADLOCK FALSE
INVARIANT
  RetryOnlyFailed
