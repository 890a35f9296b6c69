\* A panic stops the machine.
CONSTANTS
  Procs = {p1, p2}
  initproc = p1
  Slots = {s1, s2, s3}
  NoSlot = null
  NOFILE = 2
  NINODE = 1
  Inodes = {i1}
  Pipes = {q}
  Modes <- ModesVal
  BlockIds = {"close", "exit"}
  MaxLeaks = 1
SPECIFICATION Spec
SYMMETRY Symmetry
INVARIANTS RefsExact EndsClosedOnce 
CHECK_DEADLOCK FALSE
