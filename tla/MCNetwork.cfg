SPECIFICATION Spec
CONSTANTS
  s1 = s1
  s2 = s2
  NPool = 2
  Callers = {s1, s2}
  Emac = Emac
  None = None
  Loads <- MCLoads
  NTx = 2
  NRx = 2
  NBuf = 2
  MaxFlaps = 2
  MaxFrames = 2
INVARIANTS
  IInv
  TxBuffersAccounted
  TxDoneSafe
  NetworkBuffersAccounted
  NoFrameForgotten
PROPERTY
  BuffersComeBack
