CONSTANTS
  width = 3
  height = 2
  MaxArgs = 2
  MaxDigits = 2
  FG = 7
  BG = 0
  Bytes = {8, 9, 10, 11, 13, 27, 127, 49, 52, 59, 91, 93, 65, 66, 67, 68, 69, 70, 71, 72, 74, 109, 115, 117}
  Careful = TRUE
SPECIFICATION Spec
INVARIANTS TypeOK CursorInside
PROPERTY ScrollsAtBottom
