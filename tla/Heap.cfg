CONSTANTS
  t1 = t1
  t2 = t2
  t3 = t3
  b1 = b1
  b2 = b2
  TaskId = {t1, t2, t3}
  Batch = {b1, b2}
  BatchOf <- FirstApart
  QueueCap = 3
  RetryBound = 0
  Rank <- InOrder
  Accepted <- PendingOrDelayed
  Ends = {"completed"}
SPECIFICATION Spec
INVARIANTS HeapOrdered
PROPERTIES ImplementsBackend FirstOfReady
