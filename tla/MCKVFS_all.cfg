SPECIFICATION FairSpec
CONSTANTS
  p1 = p1
  p2 = p2
  p3 = p3
  a = a
  b = b
  Procs <- MCProcs2
  Names = {a, b}
  Blobs = {1, 2, 3, 4, 5, 6, 7, 8, 9}
  Calls <- MCAll
  Dir = Dir
  NoRec = NoRec
  BadPath = BadPath
  NoProc = NoProc
INVARIANT TypeOK
INVARIANT MutexHeldExactlyInRename
PROPERTY CallsReturn
