CONSTANTS
  Tasks = {t1, t2, t3}
  Threads = {p1}
  Worker = w
  Delays = {1}
  UsPerMs = 2
  MaxTime = 1
SPECIFICATION FairSpec
CHECK_DEADLOCK FALSE
INVARIANTS
  NoLostWakeup
PROPERTIES
  NoOvertaking
  ImplementsTaskQueueBase
  EveryTaskSettles
