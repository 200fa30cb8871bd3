CONSTANTS
  NDIR = 1
  P = 2
  Groups = 2
  PerGroup = 5
  Reserved = {0, 5}
  Files = {1, 2}
  Dirs = {2}
  Offsets = {0, 5}
  Lengths = {1, 3}
  Sizes = {0}
  MaxSize <- MCMaxSize
  OnlySound = FALSE
SPECIFICATION Spec
PROPERTY ShorterTakesNoBlocks
