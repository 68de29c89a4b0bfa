SPECIFICATION Spec
CONSTANTS
  Thr = {t1, t2}
  Obj = {o1, o2}
  Det = {d1, d2}
  NULL = NULL
  Jobs <- PlainJobs
  AutoCopyRetries = 0
  MaxFailed = 1
  Toggles = FALSE
CHECK_DEADLOCK FALSE
INVARIANTS
  TypeOK
  OneCopyAtATime
  NoUseAfterDelete
  DetectorQuiet
  MenuHasDetector
PROPERTIES
  ReportStable
  LateStartFinishes
