SPECIFICATION Spec
CONSTANTS
  t1 = t1
  t2 = t2
  Writers = {t1, t2}
  Readers = {t1, t2}
  Asyncers = {t1, t2}
  Configurers = {t1}
  Closers = {t1}
  FullDuplex = FALSE
  FifoDepth = 2
  MaxBytes = 3
  CountRange = 3
  Parallel = TRUE
  None = None
INVARIANTS
  IInv
  BusyHasOwner
  NBytesExact
  CallbackAsRegistered
PROPERTIES
  DoneMeansMoved
  TransfersEnd
