\* An interrupt between STAILQ_FIRST and STAILQ_REMOVE_HEAD.
CONSTANTS
  Threads = {t1, t2}
  None = none
SPECIFICATION Spec
INVARIANTS QueueProtected
