CONSTANTS
  Start = 4
  FirstEnd = 12
  Limit = 20
  PageSize = 4
  W = 32
  Clients = {c1, c2, c3}
  Sizes = {1, 3}
  Aligns = {0}
  Shrinking = FALSE
  Careful = TRUE
SYMMETRY Symmetry
SPECIFICATION Spec
INVARIANTS
  StopsOnlyWhenFull
  SegmentsIntact
  IndexIsHoles
  PayloadsIntact
CHECK_DEADLOCK FALSE
