SPECIFICATION FairSpec
CONSTANTS
  Procs = {p1, p2}
  p1 = p1
  p2 = p2
  Keys = {k1, k2}
  k1 = k1
  k2 = k2
  NoProc = NoProc
  NoKey = NoKey
INVARIANT TypeOK
INVARIANT UnlocksItsOwn
PROPERTY ImplementsKeyedLock
PROPERTY LockIsGranted
