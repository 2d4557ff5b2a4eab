SPECIFICATION Spec
CONSTANTS
  p1 = p1
  p2 = p2
  p3 = p3
  a = a
  b = b
  Procs <- MCProcs2
  Names = {a, b}
  Blobs = {1, 2, 3, 4}
  Calls <- MCTwoCreators
  Dir = Dir
  NoRec = NoRec
  BadPath = BadPath
  NoProc = NoProc
PROPERTY CreateNeverOverwrites
