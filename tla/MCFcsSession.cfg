CONSTANTS
  Tasks = {t1, t2, t3}
  Instances = 2
  Clients = {2, 3, 4, 5}
  SessionIds = {1, 2}
  MaxBlocks = 2
  Refused = {}
  Rejected = {}
  Errors = {2049}
  HeapFails = FALSE
  Orderly = FALSE
  None = None
SPECIFICATION Spec
INVARIANT SessionTiedToClient
