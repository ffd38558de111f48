\* Every part; the routine that frees a dead thread is left to the other instance.
CONSTANTS
  Parts = {"pages", "heap", "locks", "processes", "malloc", "paging", "loader", "frames"}
  Pages = {g1, g2, g3, g4}
  Mappable = {g1, g2, g3}
  NULL = null
  Callers = {k1, k2}
  HeapBase = 8
  HeapRegion = 24
  Header = 3
  PageSize = 4
  Sizes = {0, 1, 3}
  Alignments = {1, 4}
  MaxAllocs = 4
  LockCPUs = {1, 2, 3}
  Routines = {"kalloc", "kfree", "user", "vmreserve", "notify"}
  Procs = {p1, p2}
  NofFrames = 7
  Entries = 3
  KernelDirs = {2}
  GlobalPages = {7, 8}
  BytesPerPage = 2
  Values = {0, 1}
  Zero = 0
  LoadPages = {1, 3}
  MaxWrites = 1
  AllocHeader = 2
  MallocSizes = {1, 3}
  MaxHeap = 11
  PtLength = 4
  PdLength = 8
  VirtBase = 12
  DevBase = 24
  DevEnd = 28
  ApEntry = 1
  Layouts <- LayoutSet
  UserPage = 4
  Pointer = 2
  Programs <- ProgramSet
  FrameCases <- FrameSet
SPECIFICATION Spec
INVARIANTS
  PagesSound HeapSound
  NoCircularWait AcknowledgedByTarget
  MemoryOwn MemoryReserved
  BootTablesSound LoadedSound FramesMatch
PROPERTIES LibcHeapAllocates
