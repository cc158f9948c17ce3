SPECIFICATION LiveSpec
CONSTANTS
  Items = {k1, k2, k3}
  Workers = {w1, w2}
  None = None
  MaxRequeues = 1
INVARIANTS
  QueueInv
  Exclusive
  FailuresRetried
PROPERTIES
  ImplementsWorkSet
  Served
  ShutdownReturns
CHECK_DEADLOCK FALSE
