CONSTANTS
  Procs = {p1, p2, p3}
  None = None
  NUM = 7
  IdxMod = 7
SPECIFICATION FairSpec
INVARIANTS DescriptorsOwned
PROPERTIES ReturnsDone RequestReturns
