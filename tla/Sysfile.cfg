CONSTANTS
  p1 = p1
  p2 = p2
  Procs = {p1, p2}
  FirstProc = p1
  NINODES = 3
  NINODE = 3
  Names = {"a", "b"}
  Blocks = {b1, b2, b3}
  EPB = 3
  NOFILE = 2
  NFILE = 2
  NPIPE = 1
  MAXFILE = 1
  Workloads <- MCWorkloads
SPECIFICATION Spec
INVARIANTS LinksExact EntryCurrent NothingHeld NoCircularWait PanicsOnlyAboveRemoved
