SPECIFICATION Spec
CONSTANTS
  Starts = {r1}
  NoStart = NoStart
INVARIANTS
  NotUsedAfterDestroy
CHECK_DEADLOCK FALSE
