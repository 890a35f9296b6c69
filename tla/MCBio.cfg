CONSTANTS
  Procs = {p1, p2}
  None = None
  Blocks = {k1, k2, k3, k4}
  NoBlock = NoBlock
  Data = {d1, d2}
  NoData = NoData
  NBUF = 3
  MaxPinned = 1
  DiskErrors = FALSE
SPECIFICATION Spec
INVARIANTS  ReadsLatest QueueSound
SYMMETRY Symmetry
