SPECIFICATION FairSpec
CONSTANTS
  d = d
  f = f
  g = g
  Root = Root
  BadPath = BadPath
  Names = {Root, d, f, g}
  Archives <- MCArchives
  SmallBufs = 1
  MayFail = TRUE
  Openers = {o1}
INVARIANT TypeOK
INVARIANT OpenReturnsUnpacked
INVARIANT DoneMeansUnpacked
PROPERTY OpensReturn
CHECK_DEADLOCK FALSE
