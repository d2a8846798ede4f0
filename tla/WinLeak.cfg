SPECIFICATION Spec
CONSTANTS
  Tasks = {t1, t2}
  Delays = {0, 1}
  Threads = {p1}
  Worker = w
  MaxTime = 1
  Quota = 9
INVARIANT PendingTasksDeleted
CHECK_DEADLOCK FALSE
