SPECIFICATION Spec
CONSTANTS
  MaxPid = 2
  NumPages = 6
  Span = 3
  PageSize = 2
  BaseFrames = 2
  StackPages <- MCStack
  MmapBase = 3
  MmapEnd = 5
  End = 22
  HeapLo = 40
  HeapHi = 44
  HeapSize = 3
  Programs <- MCPrograms
  Shell <- MCShell
  BrkAddrs = {3, 5}
  Maps <- MCMaps
  FixedAt = {0, 1}
  Stores = {1, 3}
  Vals = {0, 1}
  Args = {0, 1}
  FileData = 1
INVARIANTS TypeOK FramesExclusive BrkIsBacked 
PROPERTY ImplementsAddrSpace
