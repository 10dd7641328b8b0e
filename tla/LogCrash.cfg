CONSTANTS
  Procs = {p1, p2}
  Blocks = {b1, b2, b3}
  Vals = {0, 1}
  Absent = Absent
  None = None
  MAXOPBLOCKS = 2
  LOGSIZE = 4
  NLog = 4
  OpBlocks = 2
SYMMETRY Symmetry
SPECIFICATION Spec
INVARIANTS CommitAlone PinsBalanced
PROPERTIES CrashAtomicity
