SPECIFICATION Spec
CONSTANTS
  t1 = t1
  t2 = t2
  Tasks = {t1, t2}
  Slots = {2}
  MaxJob = 2
  MaxCount = 2
  None = None
  Dead = Dead
  Preempt <- Everywhere
  Closers = {}
  Impatient = {t1}
  Sharers = {t2}
  Serial = TRUE
INVARIANTS
  IInv
