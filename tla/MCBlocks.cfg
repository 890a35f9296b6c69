\* A full disk stops the machine.
CONSTANTS
  Procs = {p1, p2}
  Root = 1
  Files = {1, 2}
  BSIZE = 2
  NDIRECT = 1
  BPB = 8
  FSSIZE = 11
  nlog = 1
  ninodeblocks = 1
  MAXOPBLOCKS = 6
  WriteSizes = {2, 4}
SPECIFICATION Spec
SYMMETRY Symmetry
INVARIANTS BlocksOwned ContentsExact OpFitsReservation
CHECK_DEADLOCK FALSE
