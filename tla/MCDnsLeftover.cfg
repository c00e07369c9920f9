SPECIFICATION CacheSpec
CONSTANTS
  Clients = {c1}
  Letters = 2
  RawNames = {3, 4}
  Blocks = 4
  MaxTime = 1
  Reuse = TRUE
INVARIANT AnsweredOnly
CHECK_DEADLOCK FALSE
