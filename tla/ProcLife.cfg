CONSTANTS
  Slots = {init, a, b, c}
  InitProc = init
  None = None
  MaxPid = 4
  KillPids = {2}
SPECIFICATION FairSpec
INVARIANTS FamilyExact
PROPERTIES OrphansReaped
