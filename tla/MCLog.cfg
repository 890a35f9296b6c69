\* An operation reserves and logs one block; the log has room for two, and
\* LOGSIZE data blocks.
CONSTANTS
  Procs = {p1, p2}
  Blocks = {b1, b2}
  Data = {0, 1}
  Blank = 0
  Uncached = Uncached
  MAXOPBLOCKS = 1
  LOGSIZE = 2
  nlog = 3
  OpBlocks = 1
SPECIFICATION FairSpec
INVARIANTS CommitAlone 
PROPERTIES AtomicCommit 
