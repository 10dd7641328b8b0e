CONSTANTS
  CPUs = {c1, c2}
  Locks = {1, 2}
  NoCpu = NoCpu
  NoLock = NoLock
  MaxBare = 1
  None = None
  n1 = n1
  n2 = n2
  n3 = n3
  p1 = p1
  p2 = p2
  p3 = p3
  h1 = h1
  h2 = h2
  Junk = Junk
SYMMETRY Symmetry
SPECIFICATION MCSpec
INVARIANTS MutualExclusion InterruptsRestored NoSelfDeadlock HoldsCurrent NothingLost OutputInOrder OutputNotStuck InputExact RegistersExact
