SPECIFICATION Spec
CONSTANTS
  Timeout = 2
  MaxTicks = 3
  MaxKeys = 3
  NParts = 2
  Sizes = {1, 2, 4, 5}
  NDir = 2
  Ptrs = 4
  ByteMod = 4
  MaxSize = 5
PROPERTY KeyStopsCountdown
CHECK_DEADLOCK FALSE
