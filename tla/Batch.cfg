CONSTANTS
  t1 = t1
  t2 = t2
  w1 = w1
  w2 = w2
  c1 = c1
  c2 = c2
  b1 = b1
  plain = plain
  limited = limited
  unknown = unknown
  None = None
  TaskId = {t1, t2}
  Worker = {w1, w2}
  Client = {c1}
  Batch = {b1}
  BatchOf <- OneBatch
  QueueCap = 1
  RetryBound = 1
  Type = {plain, limited, unknown}
  TypeOf <- AllLimited
  Handled = {plain, limited}
  Limit <- LimitOne
  MaxRetries <- FirstOnce
  Ops = {"submit", "stop", "terminate", "shutdown"}
  StartAlone = FALSE
  Delays = TRUE
  CallbackBound = 2
SPECIFICATION FairBatchSpec
INVARIANTS BatchTypeOK CallbackAfterAll CallbackOnce
PROPERTIES BatchCompletes
