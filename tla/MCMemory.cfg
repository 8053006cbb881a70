SPECIFICATION MemorySpec
SYMMETRY Symmetry
CHECK_DEADLOCK FALSE
CONSTANTS
  CPUs = {c1, c2}
  NPages = 6
  MaxOrder = 2
  CacheOrder = 1
  HotSize = 1
  CacheSize = 1
  Layouts <- BootLayouts
  MaxRefs = 2
  Cores = {k1, k2}
  Slabs = {s1, s2}
  ObjNum = 2
  Limit = 2
  MemEnd = 20
  SmallOrder = 1
  LargeOrder = 3
  Starts = {0, 3}
  MaxSize = 9
INVARIANTS PagesInOnePlace ObjectsHold
