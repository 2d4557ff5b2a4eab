SPECIFICATION Spec
CONSTANTS
  d = d
  f = f
  g = g
  Root = Root
  BadPath = BadPath
  Names = {Root, d, f, g}
  Archives <- MCDirFirst
  SmallBufs = 1
  MayFail = TRUE
  Openers = {o1}
INVARIANT ErrorReported
CHECK_DEADLOCK FALSE
