SPECIFICATION FairSpec
CONSTANTS
  N = 3
  Guarded = {1, 3}
INVARIANTS FirstFailureReported NoneAbandoned MisresumedOnlyLate
PROPERTY Finishes
CHECK_DEADLOCK FALSE
