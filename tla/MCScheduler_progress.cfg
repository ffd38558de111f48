\* Liveness, so without symmetry.
CONSTANTS
  CPUs = {c1, c2}
  BootCPU = c1
  Threads = {main, t1, t2}
  main = main
  BootQueue <- OneThread
  Procs = {p1, p2}
  Kernel = kernel
  Conds = {cd}
  ThreadPids = {kernel}
  Statuses = {s1}
  NoStatus = nostatus
  MaxSleep = 0
  None = none
SPECIFICATION Spec
PROPERTIES ReadyRuns ExitCompletes
