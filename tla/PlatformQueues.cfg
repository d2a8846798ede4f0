CONSTANTS
  p1 = p1
  Tasks = {t1, t2, t3}
  Threads = {p1, p2}
  Worker = w
  Delays = {0, 2}
  PipeCapacity = 2
  MaxTime = 1
  WinQuota = 3
  WinDelays = {0, 1, 2}
  OtherTasks = {t1, t2}
SPECIFICATION MCSpec
CHECK_DEADLOCK FALSE
PROPERTIES
  EveryTaskSettles
  ImplementsTaskQueueBase
  OthersImplementTaskQueueBase
INVARIANTS
  OneWakeByte
  NeverSleepsPastWork
