CONSTANTS
  Procs = {p1, p2, p3}
  Blocks = {b1, b2, b3, b4, b5}
  Vals = {0}
  Absent = Absent
  None = None
  MAXOPBLOCKS = 3
  LOGSIZE = 6
  NLog = 6
  OpBlocks = 1
SPECIFICATION FairSpec
INVARIANTS NoPanic
PROPERTIES SleeperWakes
