SPECIFICATION FairSpec
CONSTANTS
  Main = main
  Reporter = reporter
  None = none
  Tasks = {main, reporter, a}
  Fds = {0}
  Events = {"in"}
  PollCap = 1
  Delays = {1}
  Milli = 2
  DefaultTimeout = 2
  MaxTime = 2
PROPERTY Terminates
CHECK_DEADLOCK FALSE
