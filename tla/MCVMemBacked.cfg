SPECIFICATION Spec
CONSTANTS
  RgIds = {1, 2}
  Sizes = {256}
  PAGESZ = 256
  MaxBrk = 1024
  SysAddrSize = 8
  NumRam = 2
  NumSwp = 2
  MaxPage = 4
  Ratio = 16
  FpnRange = 8192
  SwpShift = 32
  Pattern = 44941039
  MapStarts = {}
  MapSizes = {}
  RawFrames = {}
  Offsets = {0, 256}
PROPERTY
  GrowthIsBacked
