SPECIFICATION KernelMemSpec
CONSTANTS
  CPUs = {c1, c2}
  NoCPU = NoCPU
  MaxSlots = 2
  RgIds = {1, 2}
  Sizes = {3}
  PAGESZ = 2
  MaxBrk = 20
  SysAddrSize = 8
  NumRam = 3
  NumSwp = 2
  MaxPage = 8
  Levels = 2
  Fanout = 3
  Ratio = 2
  FpnRange = 16
  SwpShift = 2
  Pattern = 1
  Offsets = {6}
  MapStarts = {6}
  MapSizes = {1}
  RawFrames = {}
INVARIANTS
  KernelMemTypeOK
  
  
  RegionsKept
PROPERTIES
  AtomicUntilOverlap
  EverySlotEnds
