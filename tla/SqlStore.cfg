CONSTANTS
  t1 = t1
  t2 = t2
  p1 = p1
  p2 = p2
  w1 = w1
  w2 = w2
  c1 = c1
  c2 = c2
  b1 = b1
  None = None
  TaskId = {t1}
  Process = {p1, p2}
  Worker = {w1, w2}
  Client = {c1}
  Home <- Apart
  Batch = {b1}
  BatchOf <- OneBatch
  Priority <- FirstComesFirst
  RetryBound = 1
  MaxRetries <- Once
  Leftover <- PerhapsPending
  Limited = {t1}
  Ops = {"submit", "start", "terminate", "remove", "cancelBatch"}
  Stopping = {p1}
  Delays = TRUE
  FaultBound = 2
  CallBound = 2
SPECIFICATION FairSpec
INVARIANTS TypeOK SharedOnlyIfOverruled RunningHasHolder
PROPERTIES SurvivesCrashes
