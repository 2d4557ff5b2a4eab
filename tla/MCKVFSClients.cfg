SPECIFICATION CSpec
CONSTANTS
  p1 = p1
  p2 = p2
  d = d
  e = e
  f = f
  Procs = {p1, p2}
  Names = {d, e, f}
  Blobs = {1, 2, 3, 4}
  Calls <- MCCalls
  Own <- MCOwn
  Dir = Dir
  NoRec = NoRec
  BadPath = BadPath
  NoProc = NoProc
INVARIANT FileAtOnePlace
INVARIANT ParentsAreDirectories
PROPERTY ImplementsTree
