CONSTANTS
  NPROC = 4
  CPUs = {c1, c2}
  NoCPU = NoCPU
  Chans = {ch}
  MAX_HISTORY = 2
  Sleepers = {3}
  KillPids = {2}
  MaxPid = 4
SPECIFICATION Spec
SYMMETRY Symmetry
INVARIANTS RunningOnOneCPU ParentAlive WaitNotMissed HistoryFaithful
