CONSTANTS
  t1 = t1
  t2 = t2
  t3 = t3
  Threads = {t1, t2, t3}
  Callers <- PortCallers
  Size = 2
  MaxCount = 3
  None = none
SPECIFICATION Spec
PROPERTIES WriteReturns
