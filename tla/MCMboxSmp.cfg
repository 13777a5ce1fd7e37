SPECIFICATION Spec
CONSTANTS
  t1 = t1
  t2 = t2
  Tasks = {t1, t2}
  Slots = {2, 3}
  MaxJob = 2
  MaxCount = 2
  None = None
  Dead = Dead
  Preempt <- Everywhere
  Closers = {}
  Impatient = {}
  Sharers = {}
  Serial = TRUE
INVARIANTS
  OneCommandPerClient
  NothingDangles
PROPERTIES
  CompletionHasData
