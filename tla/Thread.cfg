CONSTANTS
  Tasks = {t1, t2}
  Threads = {p1}
  Self = self
  Loops = {2}
  Delays = {1}
  MaxStarts = 2
  MaxTime = 1
SPECIFICATION FairSpec
CHECK_DEADLOCK FALSE
INVARIANTS
  NoLostWakeUp
PROPERTIES
  StartsInOrder
  EveryTaskSettles
