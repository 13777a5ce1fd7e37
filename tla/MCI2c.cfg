SPECIFICATION Spec
CONSTANTS
  c1 = c1
  c2 = c2
  Callers = {c1, c2}
  Channels = {"wdma", "rdma"}
  MaxItems = 4
  Depth = 2
  MaxDma = 3
  Nacks = {"address"}
INVARIANTS
  OwnerExact
PROPERTIES
  DoneMeansMoved
  TransfersEnd
