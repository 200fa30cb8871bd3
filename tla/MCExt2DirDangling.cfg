SPECIFICATION Spec
CONSTANTS
  Names = {"a", "b"}
  Units <- MCUnits
  BlockSz = 5
  NInodes = 4
  NBlocks = 3
  Types = {"reg", "dir", "lnk"}
  Dangling = TRUE
  Unlinks = FALSE
  Powers = {TRUE, FALSE}
  MaxSize = 3
  MaxLinks = 3
  MaxCrashes = 1
INVARIANTS
  BlocksTile
  NamesAreAllocated
  WalksEnd
PROPERTY ImplementsDirMap
CHECK_DEADLOCK FALSE
