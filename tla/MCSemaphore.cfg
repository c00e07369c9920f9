SPECIFICATION FairSpec
CONSTANTS
  Tasks = {t1, t2, t3, t4}
  MaxParallelism = 2
  Requests = {0, 1, 2}
  SizeT = 8
  MaxHolds = 2
INVARIANTS TypeOK Conservation WithinMax LinkedOnce NoStrandedWaiter
PROPERTIES Fifo WaitersServed
CHECK_DEADLOCK FALSE
