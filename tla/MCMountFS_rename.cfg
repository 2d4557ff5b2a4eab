SPECIFICATION MSpec
CONSTANTS
  Procs = {2}
  NoProc = 0
  SrcFiles <- MCSrcFiles
  SrcDirs <- MCSrcDirs
  Chunks <- MCChunks
  Retain <- MCRetain
  MayFail = TRUE
  Pages <- MCPages
  Trees0 <- MCTrees
  Inodes = {1, 2, 3, 4}
  Mounts0 <- MCMounts
  MCallSet <- MCCallSet
  MBudget <- MCBudget
PROPERTY RenameLosesNoFile
CHECK_DEADLOCK FALSE
