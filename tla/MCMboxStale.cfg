SPECIFICATION FairSpec
CONSTANTS
  t1 = t1
  t2 = t2
  Tasks = {t1}
  Slots = {2}
  MaxJob = 2
  MaxCount = 2
  None = None
  Dead = Dead
  Preempt = {}
  Closers = {}
  Impatient = {t1}
  Sharers = {}
  Serial = TRUE
PROPERTIES
  CompletionHasData
