SPECIFICATION MFairSpec
CONSTANTS
  Procs = {1, 2}
  NoProc = 0
  SrcFiles <- MCSrcFiles
  SrcDirs <- MCSrcDirs
  Chunks <- MCChunks
  Retain <- MCRetain
  MayFail = TRUE
  Pages <- MCPages
  Trees0 <- MCTrees
  Inodes = {1, 2, 3, 4}
  Mounts0 <- MCMounts
  MCallSet <- MCCallSet
  MBudget <- MCBudget
INVARIANTS
  MTypeOK
  ServedWhole
  DirEOFComplete
  RoutedToLongest
PROPERTIES
  CopiedOnce
  MountedOnce
  MountPointKept
  MountRenameKeepsFile
  RemoveAllRemoves
  CallsEnd
CHECK_DEADLOCK FALSE
