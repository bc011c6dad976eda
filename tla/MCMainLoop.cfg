SPECIFICATION LoopSpec
CONSTANTS
  Timers = {t1, t2}
  NetTimer = net
  NetInterval = 4
  Delays = {0, 1, 3}
  PollMax = 2
INVARIANT TimersPrompt
PROPERTY CancelHeeded
CHECK_DEADLOCK FALSE
