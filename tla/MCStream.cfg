SPECIFICATION FairSpec
CONSTANTS
  Readers = {r1, r2}
  Writers = {w1, w2}
  ReadSize = 2
  WriteSize = 2
  Capacity = 2
INVARIANTS NothingLost ErrorLosesNothing FullOrEnd
PROPERTY AllEnd
CHECK_DEADLOCK FALSE
