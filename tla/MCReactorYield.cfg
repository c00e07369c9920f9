SPECIFICATION FairLoopSpec
CONSTANTS
  Main = main
  Reporter = reporter
  None = none
  Tasks = {main, reporter}
  Fds = {0}
  Events = {"in"}
  PollCap = 1
  Delays = {1}
  Milli = 2
  DefaultTimeout = 2
  MaxTime = 2
PROPERTY ReadyPhaseEnds
CHECK_DEADLOCK FALSE
