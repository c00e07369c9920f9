SPECIFICATION Spec
CONSTANTS
  Readers = {r1}
  Writers = {w1}
  ReadSize = 3
  WriteSize = 3
  Capacity = 4
INVARIANT WritesBuffer
CHECK_DEADLOCK FALSE
