CONSTANTS
  Slots = {init, a, b}
  InitProc = init
  None = None
  MaxPid = 4
  KillPids = {2, 3, 4}
SPECIFICATION FairSpec
PROPERTIES KilledExits
