SPECIFICATION ContentsSpec
CONSTANTS
  RgIds = {1, 2}
  Sizes = {1, 3}
  PAGESZ = 2
  MaxBrk = 4
  SysAddrSize = 8
  NumRam = 2
  NumSwp = 2
  MaxPage = 3
  Ratio = 2
  FpnRange = 16
  SwpShift = 2
  Pattern = 1
  Offsets = {0, 4}
  MapStarts = {2}
  MapSizes = {1}
  RawFrames = {1}
INVARIANTS
  ContentsTypeOK
  FramesExclusive
  SwapSlotsExclusive
  ResidentEvictable
  RegionsDisjoint
  RegionsInArea
  BytesConserved
  ContentsKept
PROPERTIES
  AllOrNothing
