CONSTANTS
  FrameCount = 14
  FirstFrame = 4
  WordBits = 2
  WindowPages = 10
  MapBits = 40
  T = 3
  UserTables = {0}
  KernelTables = {1}
  AddressPages = 8
  HeapPage = 4
  HeapMax = 6
  PageRoom = 3
  Devices = {20, 21}
  MaxDma = 1
SPECIFICATION Spec
INVARIANTS OneOwner ValidatedIsAccessible
PROPERTY MappingsAreKept
CHECK_DEADLOCK FALSE
