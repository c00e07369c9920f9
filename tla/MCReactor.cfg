SPECIFICATION Spec
CONSTANTS
  Main = main
  Reporter = reporter
  None = none
  Tasks = {main, reporter, a, b}
  Fds = {0, 1}
  Events = {"in"}
  PollCap = 2
  Delays = {0, 1}
  Milli = 2
  DefaultTimeout = 2
  MaxTime = 2
SYMMETRY Symmetry
INVARIANTS OnePlace SomethingToProcess NothingLeft
PROPERTIES WakeInOrder NoOversleep
CHECK_DEADLOCK FALSE
