CONSTANTS
  CPUs = {c0, c1}
  Cpu0 = c0
  Procs = {p1, p2}
  NoProc = NoProc
  Scheduler = Scheduler
  Free = Free
  Forever = {p2}
SPECIFICATION FairSpec
INVARIANTS SwitchesExact
PROPERTIES SleepReturns KilledExits
