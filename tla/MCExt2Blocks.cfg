CONSTANTS
  NDIR = 1
  P = 2
  Groups = 2
  PerGroup = 5
  Reserved = {0, 5, 6}
  Files = {1, 2}
  Dirs = {2}
  Offsets = {0, 5}
  Lengths = {1, 3}
  Sizes = {1, 5}
  MaxSize <- MCMaxSize
  OnlySound = TRUE
SPECIFICATION Spec
INVARIANTS CountsAgree OneOwner NoBlockLeaks
PROPERTY ImplementsFiles
