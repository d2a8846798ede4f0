CONSTANTS
  Threads = {a, b}
  Outsiders = {o1}
  Jobs = {j1, j2}
  Stoppable = {a}
  EventThreads = {a, b, c}
  EventTimeouts = {1, 2}
  EventMaxTime = 0
SPECIFICATION MCSpec
CHECK_DEADLOCK FALSE
INVARIANTS
  NoLostWakeup
  CallerStays
  NoCyclicWait
PROPERTIES
  CallReturns
  ImplementsEvent
  WaitsEnd
