\* User processes have one thread: schedule_thread is only called for the kernel.
CONSTANTS
  CPUs = {c1, c2}
  BootCPU = c1
  Threads = {main, t1, t2, t3}
  main = main
  BootQueue <- OneThread
  Procs = {p1, p2, p3}
  Kernel = kernel
  Conds = {cd}
  ThreadPids = {kernel}
  Statuses = {s1}
  NoStatus = nostatus
  MaxSleep = 0
  None = none
SPECIFICATION Spec
INVARIANTS Placement KernelNotDestroyed ProcessesSound ReturnedOnce
PROPERTIES ProcLifecycle
SYMMETRY Symmetry
