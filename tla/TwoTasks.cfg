CONSTANTS
  t1 = t1
  t2 = t2
  w1 = w1
  w2 = w2
  c1 = c1
  c2 = c2
  b1 = b1
  b2 = b2
  plain = plain
  limited = limited
  unknown = unknown
  None = None
  TaskId = {t1, t2}
  Worker = {w1, w2}
  Client = {c1, c2}
  Batch = {b1, b2}
  BatchOf <- OwnBatch
  QueueCap = 1
  RetryBound = 1
  Type = {plain, limited, unknown}
  TypeOf <- AllLimited
  Handled = {plain, limited}
  Limit <- LimitOne
  MaxRetries <- Once
  Ops = {"submit", "stop", "terminate", "shutdown"}
  StartAlone = FALSE
  Delays = FALSE
SPECIFICATION Spec
SYMMETRY PoolSymmetry
INVARIANTS SemaphoreExact InterruptedIsHonoured RunningHasOwner
PROPERTIES FollowsLifecycle
