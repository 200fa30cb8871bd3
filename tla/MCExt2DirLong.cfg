SPECIFICATION Spec
CONSTANTS
  Names = {"a", "b"}
  Units <- MCUnits
  BlockSz = 4
  NInodes = 4
  NBlocks = 4
  Types = {"reg", "dir", "lnk"}
  Dangling = FALSE
  Unlinks = FALSE
  Powers = {TRUE, FALSE}
  MaxSize = 3
  MaxLinks = 3
  MaxCrashes = 1
INVARIANTS
  BlocksTile
  NamesAreAllocated
  WalksEnd
PROPERTY ImplementsDirMap
CHECK_DEADLOCK FALSE
