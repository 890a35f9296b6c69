CONSTANTS
  Procs = {p1, p2}
  None = None
  Names = {a, b}
  NoName = NoName
  Inums = {i1, i2}
  NoInum = NoInum
  NINODE = 2
  MaxLink = 3
  MaxLeaks = 1
SPECIFICATION Spec
SYMMETRY Symmetry
CHECK_DEADLOCK FALSE
INVARIANTS RefExact LinksExact 
