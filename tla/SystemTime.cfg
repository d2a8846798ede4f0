CONSTANTS
  Threads = {t1, t2}
  TimerBits = 5
  LongestCall = 1
  Starts = {30}
  MaxTime = 33
SPECIFICATION Spec
CHECK_DEADLOCK FALSE
INVARIANTS
  CountsOnlyWraps
