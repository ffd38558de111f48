\* Four threads: one owns, one has barged in, one is woken and one is blocked.
CONSTANTS
  Threads = {t1, t2, t3, t4}
  None = none
SPECIFICATION Spec
INVARIANTS NoLostWakeup
PROPERTIES ImplementsMonitor SomebodyOwns
