CONSTANTS
  FrameCount = 24
  FirstFrame = 4
  WordBits = 4
  WindowPages = 10
  MapBits = 40
  T = 4
  UserTables = {0}
  KernelTables = {1, 2}
  AddressPages = 64
  HeapPage = 7
  HeapMax = 9
  PageRoom = 4
  Devices = {30, 31}
  MaxDma = 1
SPECIFICATION Spec
INVARIANT KernelLinked
CHECK_DEADLOCK FALSE
