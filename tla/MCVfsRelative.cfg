CONSTANTS
  root = root
  a = a
  l = l
  dangling = dangling
  rel = rel
  f1 = f1
  f2 = f2
  dev = dev
  kbd = kbd
  boot = boot
  stage1 = stage1
  Inodes = {root, a, l, dangling, rel, f1, f2}
  RootIno = root
  BootDir = boot
  NoFile = NoFile
  Free = Free
  NULL = NULL
  Names <- AllNames
  DeviceType <- MCDevices
  Drivers <- MCDrivers
  FsTypes <- MCFsTypes
  DevDir = dev
  Stage <- MCStage
  Target <- MCTarget
  TypesOnDisk <- MCTypes
  MAX_SYMLINK_DEPTH = 2
  StageSize = 1
  DirsOnDisk <- MCDirs
  Paths <- RelativeLinkPaths
  OpenFlags <- MCFlags
  MknodTypes = {"reg"}
  NodeIds = {1, 2, 3}
  FirstMaxSz = 1
  MaxFds = 2
  MaxSize = 1
SPECIFICATION Spec
INVARIANT RelativeToLink
CHECK_DEADLOCK FALSE
