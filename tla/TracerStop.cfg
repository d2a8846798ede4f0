CONSTANTS
  Events = {e1, e2, e3}
  Tracers = {w1, w2}
  MaxSessions = 2
SPECIFICATION Spec
CHECK_DEADLOCK FALSE
INVARIANTS
  StopEndsCapture
