CONSTANTS
  Readers = {r1}
  Writers = {w1, w2}
  Bytes = {0, 1}
  None = None
  PIPESIZE = 2
  CntMod = 4
  MaxN = 2
  Killable = {w1}
SPECIFICATION FairSpec
INVARIANTS NoUseAfterFree
PROPERTIES IsFifo CallsReturn
CHECK_DEADLOCK FALSE
