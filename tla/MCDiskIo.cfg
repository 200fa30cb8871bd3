CONSTANTS
  SectorSz = 2
  SPB = 2
  RegSz = 3
  Sectors = 32
  Width = 256
  Zero = 0
  Image <- MCImage
  Signatures = {"error", "pata", "atapi", "other"}
  EarlyData = FALSE
  BUFSIZ = 4
  Newline = 10
  Texts <- MCTexts
  ReadSizes = {1, 7}
  SeekOffsets = {0, 3, 10}
  SeekTargets = {0, 3, 5, 6, 8, 10}
  Modes = {"r", "r+", "w", "a"}
  Junk <- MCNoJunk
  MaxCalls = 5
SPECIFICATION Spec
INVARIANT OutsideUntouched
PROPERTIES ImplementsStream CallsReturn
CHECK_DEADLOCK FALSE
