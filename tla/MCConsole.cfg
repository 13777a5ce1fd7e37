SPECIFICATION Spec
CONSTANTS
  w1 = w1
  w2 = w2
  c1 = c1
  Writers = {w1, w2}
  Callers = {c1}
  BufSize = 3
  MaxLength = 2
  MaxWrites = 3
  None = None
INVARIANTS
  IInv
  OutputInOrder
  DataOutsideFirmware
PROPERTIES
  EverythingPrinted
  DropsAnnounced
