SPECIFICATION Spec
CONSTANTS
  p1 = p1
  p2 = p2
  p3 = p3
  a = a
  b = b
  Procs <- MCProcs3
  Names = {a, b}
  Blobs = {1, 2, 3, 4, 5, 6, 7, 8}
  Calls <- MCCreators
  Dir = Dir
  NoRec = NoRec
  BadPath = BadPath
  NoProc = NoProc
INVARIANT PrefixClosed
INVARIANT CreatedStays
