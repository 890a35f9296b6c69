CONSTANTS
  Procs = {p1, p2, p3}
  None = None
SPECIFICATION FairSpec
PROPERTIES SleeperWakes
INVARIANTS LockExact NoLostWakeup
