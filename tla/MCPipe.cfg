CONSTANTS
  Procs = {p1, p2, p3}
  None = None
  Bytes = {x, y}
  NoByte = NoByte
  PIPESIZE = 2
  Wrap = 4
  MaxN = 2
  MaxKills = 1
SPECIFICATION Spec
SYMMETRY Symmetry
INVARIANTS SleepersHaveReason NoUseAfterFree
PROPERTY Fifo
\* The pipe's life ends when every descriptor is closed.
CHECK_DEADLOCK FALSE
