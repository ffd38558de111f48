\* Four CPUs: the boot CPU can still be starting one while two others compare.
CONSTANTS
  CPUs = {c0, c1, c2, c3}
  BootCPU = c0
SPECIFICATION Spec
PROPERTIES ImplementsBarrier EverybodyPasses
