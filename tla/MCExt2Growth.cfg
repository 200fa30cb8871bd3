CONSTANTS
  NDIR = 2
  P = 5
  MaxBlocks = 157
  Shrinkable = 15
SPECIFICATION GrowthSpec
INVARIANTS CountIsTree ContentIsPrefix
CHECK_DEADLOCK FALSE
