SPECIFICATION FairSpec
CONSTANTS
  c1 = c1
  c2 = c2
  c3 = c3
  Cores = {c1, c2, c3}
  NoOwner = NoOwner
  MaxNest = 2
INVARIANTS
  IInv
  MutualExclusion
  OwnerExact
PROPERTIES
  Wakeup
  SomebodyGetsIt
  ImplementsRecursiveLock
