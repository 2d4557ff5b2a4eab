SPECIFICATION FairSpec
CONSTANTS
  Waiters = {w1, w2}
  Emitters = {e1, e2}
  Keys = {k1, k2}
INVARIANT WaitReturnsOnlyReady
INVARIANT NoLostWakeup
PROPERTY EmitUnblocksWait
