CONSTANTS
  Start = 4
  FirstEnd = 12
  Limit = 20
  PageSize = 4
  W = 32
  Clients = {c1, c2, c3}
  Sizes = {1, 3}
  Aligns = {0}
  Shrinking = TRUE
  Careful = TRUE
SYMMETRY Symmetry
SPECIFICATION Spec
INVARIANT
  AssertionsHold
CHECK_DEADLOCK FALSE
