CONSTANTS
  NPROC = 3
  CPUs = {c1}
  NoCPU = NoCPU
  Chans = {ch}
  MAX_HISTORY = 1
  Sleepers = {2, 3}
  KillPids = {2}
  MaxPid = 3
SPECIFICATION FairSpec
PROPERTIES RunnableRuns OrphanReaped 
