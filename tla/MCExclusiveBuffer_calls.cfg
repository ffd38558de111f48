CONSTANTS
  t1 = t1
  t2 = t2
  t3 = t3
  Threads = {t1, t2, t3}
  Callers <- AllCallers
  Size = 2
  MaxCount = 2
  None = none
SPECIFICATION Spec
INVARIANTS BufferIsQueue
PROPERTIES FlushReturns
CHECK_DEADLOCK FALSE
