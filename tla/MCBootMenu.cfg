SPECIFICATION Spec
CONSTANTS
  Timeout = 2
  MaxTicks = 3
  MaxKeys = 3
  NParts = 2
  Sizes = {1, 2, 4, 5, 6}
  NDir = 2
  Ptrs = 4
  ByteMod = 4
  MaxSize = 5
INVARIANTS
  ScreenShowsState
  KernelAsChosen
  LinesInPlace
PROPERTY CountdownEnds
CHECK_DEADLOCK FALSE
