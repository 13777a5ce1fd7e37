CONSTANTS
  Tasks = {t1, t2, t3}
  Instances = 2
  Clients = {2, 3, 4}
  SessionIds = {1, 2}
  MaxBlocks = 2
  Refused = {"open", "close", "command"}
  Rejected = {"command"}
  Errors = {2049}
  HeapFails = FALSE
  Orderly = TRUE
  None = None
SPECIFICATION FairSpec
INVARIANTS SessionTable SessionTiedToClient ClientsAccounted SuccessIsReal
PROPERTY CallsReturn
