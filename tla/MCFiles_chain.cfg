\* fat_read alone, with what its comment says of it.
CONSTANTS
  Parts = {"fat"}
  Readers = {t1, t2, t3}
  BlockIds <- BlockIdSet
  CacheSize = 2
  NoReader = none
  MaxHits = 2
  UserThreads = {"t1", "t2"}
  ProcOf <- ProcOfThread
  MainProc = "p1"
  Fds = {0, 1}
  Clusters = {2, 3}
  Size <- FileSizes
  FileObjects = {1, 2}
  Buffer = 1
  Threshold = 1
  MaxCount = 2
  MaxOffset = 1
  MaxHit = 2
  BytesPerSector = 4
  FAT_ENTRY_SIZE = 2
  LfnChars = 2
  LfnNameSize = 5
  LfnNameBufSize = 5
  BaseChars = 2
  ExtChars = 1
  CacheLeaves = 2
  EntryMask = 32
  Word = 64
  Fat16Min = 2
  Fat32Min = 4
  ExFatMin = 21
  FatVolumes <- VolumeSet
  FatReads <- ReadSet
  FatDirs <- DirSet
  FatWalks <- WalkSet
  MountPoints <- MountSet
  DeviceNames <- DeviceNameSet
  Paths <- PathSet
  MaxNodeRefs = 2
  UintMod = 32
  MaxDevices = 3
  DriveCases <- DriveSet
  AddressCases <- AddressSet
  Bits28 = 268435456
  Bits8 = 256
  Subscribers <- SubscriberList
  OwnDevices = {"com1"}
  MaxSubscribers = 8
  BufferSize = 2
  FifoSize = 2
  MaxBytes = 2
  BufModes = {"FBM_OVERFLOW", "FBM_NEWLINE", "FBM_FLUSH"}
  BufSize = 3
  Newline = 0
  Chars = {0, 1}
  MaxGiven = 4
  MaxTotal = 6
  Width = 8
  NumberCases <- NumberSet
  MoveCases <- MoveSet
  StringCases <- StringSet
  FormatCases <- FormatSet
  EnvCases <- EnvSet
  Machines <- MachineSet
  MAX_CPUS = 2
  MAX_PCI_FUNCTIONS = 4
  CFG_MAX_FUNC = 3
  CFG_MAX_DEVICE = 2
  IoapicSize = 2
  ByteMod = 8
  INT_IRQ0 = 4
  MaskVectors = {4, 5, 6, 7}
  PciDrivers <- DriverList
SPECIFICATION Spec
INVARIANTS ReadFollowsChain
CHECK_DEADLOCK FALSE
