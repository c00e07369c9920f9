SPECIFICATION Spec
CONSTANTS
  N = 2
  Guarded = {1}
INVARIANT ResumedWhenReady
CHECK_DEADLOCK FALSE
