CONSTANTS
  t1 = t1
  r1 = r1
  r2 = r2
  TaskId = {t1}
  Reporter = {r1, r2}
  Throttled = TRUE
  ReportBound = 4
  CrashBound = 2
SPECIFICATION Spec
SYMMETRY ReporterSymmetry
INVARIANTS PauseKeepsProgress
PROPERTIES GoesBackOnlyTwoWays
