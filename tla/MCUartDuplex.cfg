SPECIFICATION Spec
CONSTANTS
  t1 = t1
  t2 = t2
  Writers = {t1}
  Readers = {t2}
  Asyncers = {}
  Configurers = {}
  Closers = {}
  FullDuplex = TRUE
  FifoDepth = 2
  MaxBytes = 3
  CountRange = 3
  Parallel = FALSE
  None = None
PROPERTIES
  DoneMeansMoved
