CONSTANTS
  Enter = Enter
  A = A
  Up = Up
  LShift = LShift
  LCtrl = LCtrl
  Bar = Bar
  nl = nl
  sp = sp
  esc = esc
  a = a
  cap = cap
  soh = soh
  NoMod = NoMod
  BreakCode = BreakCode
  PlainKeys = {Enter, Bar, A, Up}
  Modifiers = {LShift, LCtrl}
  OverrunKeys = {Enter}
  Keymap <- MCKeymap
  Newline = nl
  Space = sp
  ArgvReadable = {TRUE, FALSE}
  Byte = {nl, sp, esc, a, cap, soh}
  Sz = 3
  LineSz = 2
  MaxPresses = 3
SPECIFICATION FairSpec
INVARIANTS NothingLostInPipe NoStuckModifier
PROPERTIES TypedAsPressed AllBytesReachShell
