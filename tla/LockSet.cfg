CONSTANTS
  c1 = c1
  c2 = c2
  c3 = c3
  l1 = l1
  l2 = l2
  Callers <- MCCallers
  Locks <- MCLocks
  Keys <- MCKeys
  Nobody = Nobody
  NoLock = NoLock
SPECIFICATION FairSpec
INVARIANTS
  TypeOK
  OneLockPerKey
  NothingLeftLocked
PROPERTIES
  ImplementsTurns
  EveryCallReturns
