CONSTANTS
  Procs = {p1, p2, p3}
  Blocks = {b1, b2, b3, b4, b5, b6}
  Vals = {0}
  Absent = Absent
  None = None
  MAXOPBLOCKS = 2
  LOGSIZE = 6
  NLog = 6
  OpBlocks = 2
SYMMETRY Symmetry
SPECIFICATION Spec
INVARIANTS NoPanic
