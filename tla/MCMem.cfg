CONSTANTS
  Procs = {p1, p2, p3}
  initproc = p1
  NPAGES = 16
  PGSIZE = 2
  NPTE = 2
  KERNBASE = 8
  UINT = 16
  Increments <- IncrementsVal
  SegEnds = {0, 2, 8}
  ArgSizes = {1, 3}
SPECIFICATION Spec
SYMMETRY Symmetry
INVARIANTS PagesConserved  ImageMatchesSize
