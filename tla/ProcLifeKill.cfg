CONSTANTS
  Slots = {init, a, b}
  InitProc = init
  None = None
  MaxPid = 4
  KillPids = {0, 2, 3, 4}
SPECIFICATION Spec
INVARIANTS KilledWasAsked
