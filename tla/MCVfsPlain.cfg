CONSTANTS
  root = root
  a = a
  l = l
  dangling = dangling
  rel = rel
  f1 = f1
  f2 = f2
  dev = dev
  kbd = kbd
  boot = boot
  stage1 = stage1
  Inodes = {root, a, f1}
  RootIno = root
  BootDir = boot
  NoFile = NoFile
  Free = Free
  NULL = NULL
  Names = {"a", "b", "boot", "stage1.bin"}
  DeviceType <- MCDevices
  Drivers <- MCDrivers
  FsTypes <- MCFsTypes
  DevDir = dev
  Stage <- MCStage
  Target <- MCTarget
  TypesOnDisk <- MCTypes
  MAX_SYMLINK_DEPTH = 2
  StageSize = 1
  DirsOnDisk <- MCDirs
  Paths <- PlainPaths
  OpenFlags <- MCFlags
  MknodTypes = {"dir"}
  NodeIds = {1, 2, 3, 4}
  FirstMaxSz = 1
  MaxFds = 2
  MaxSize = 0
SPECIFICATION Spec
INVARIANTS NoLeak NamesUnique
CHECK_DEADLOCK FALSE
