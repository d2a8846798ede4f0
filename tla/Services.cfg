SPECIFICATION Spec
CONSTANTS
  Starts = {r1, r2}
  NoStart = NoStart
  Tasks = {t1}
  Safe = {s1}
  Flags = {f1, f2}
  Delays = {0, 2}
  MaxTime = 5
  Nobody = Nobody
  Lockers = {l1, l2, l3}
  Free = Free
  MaxEnters = 2
  Objects = {o1, o2}
  Null = Null
  Pointers = {1, 2, 3}
  Users = {1, 2}
  OwnerOf <- Owners
  Threads = {a, b}
  Mains = {m1, m2}
  MaxStack = 2
  MaxStarts = 1
  MaxMessages = 1
  Loggers = {t1, t2}
  Sinks = {s1, s2}
  None = 2
  DefaultSeverity = 2
  MaxChanges = 2
  MaxStatements = 1
  Events = {e1, e2}
  Tracers = {w1, w2}
  MaxSessions = 2
  Self = self
  Targets = {other}
  MaxScopes = 3
  MaxSteps = 5
  CheckedThreads = {k1, k2}
  TaskQueues = {q1, q2}
  SystemQueues = {}
  MaxChecks = 4
  Sites = {i1, i2}
  Quiet = {i2}
  MaxNested = 2
  MaxEntered = 3
  MaxTurns = 4
INVARIANTS
  AccessIsExclusive
  ReferencesAreCounted
  ThreadsAgree
  LogsReachSinks
  CaptureIsClean
PROPERTIES
  ResolverSettles
  RepeatsOnSchedule
  EarlierMessagesDispatched
  WorkIsFinished
CHECK_DEADLOCK FALSE
