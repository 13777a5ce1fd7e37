SPECIFICATION FairSpec
CONSTANTS
  t1 = t1
  t2 = t2
  Tasks = {t1, t2}
  Slots = {2, 3}
  MaxJob = 1
  MaxCount = 1
  None = None
  Dead = Dead
  Preempt = {}
  Closers = {t1, t2}
  Impatient = {}
  Sharers = {}
  Serial = TRUE
PROPERTIES
  CallsReturn
INVARIANTS
  NothingDangles
  JobPoolExact
  MutexReleased
  DeinitEndsTask
