SPECIFICATION FairSystemSpec
CONSTANTS
  CellRadix = 16
  MAX_VMS = 3
  U16Max = 15
  LongStrings = {"long"}
  MAX_CPUS = 3
  MAX_MEM_RANGES = 2
  CpioHeaderSize = 2
  Inputs <- InputsDef
  PageSize = 8
  PageCount = 20
  Sections <- SectionsDef
  PrimaryBegin = 24
  FdtAddr = 32
  FdtHeaderSize = 2
  ReserveEntrySize = 1
  InitrdBegin = 48
  BootCpu = 0
  CPU <- CpusDef
  First = 1
  Start = 24
  Entry = {40, 48}
  NoEntry = 0
INVARIANTS
  ParserIsExact
  BootFlowIsExact
  MemoryIsDealtOnce
  StartedVmsAreLoaded
  PrimaryReachesItsMemory
  StartsAsAsked
  PowerStateAgrees
PROPERTY CpuOnLoopEnds
CHECK_DEADLOCK FALSE
