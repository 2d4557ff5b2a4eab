SPECIFICATION Spec
CONSTANTS
  R = R
  D = D
  F = F
  G = G
  Procs = {1, 2}
  Paths = {R, D, F, G}
  Root = R
  Up <- MCUp
  Dirs0 = {R, D}
  Files0 <- MCFiles
  Kinds = {"mem", "idb", "s3"}
  MayFail = TRUE
  BlobIds = {1, 2, 3, 4, 5, 6}
  Calls <- MCCalls
  Budget = 4
  NoProc = NoProc
PROPERTY
  RenameOntoDirKeepsFile
CHECK_DEADLOCK FALSE
