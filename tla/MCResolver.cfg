SPECIFICATION FairSpec
CONSTANTS
  Requests = {q1, q2}
  Names = {n1, n2}
  MaxId = 2
INVARIANTS RightAnswer PendingExact
PROPERTY Resolved
CHECK_DEADLOCK FALSE
