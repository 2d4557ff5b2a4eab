SPECIFICATION FairSpec
CONSTANTS
  Procs = {p1, p2, p3, p4}
  MaxBuffers = 3
INVARIANT TypeOK
INVARIANT BufferInOnePlace
INVARIANT SendNeverBlocks
PROPERTY WaitReturns
