CONSTANTS
  CPUs = {c1, c2}
  NoCPU = nocpu
  MaxDepth = 2
SPECIFICATION Spec
INVARIANTS MutualExclusion NoPanic InterruptsRestored NoSelfWait
PROPERTIES SomebodyGetsIt
