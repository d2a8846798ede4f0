CONSTANTS
  Keys = {1, 2, 3}
  Mapped = {0, 1}
  Default = 0
  MaxRange = 3
  WindowSize = 3
  WindowLength = 2
  Advances = {0, 2}
  IntBits = 6
  LongBits = 12
  MaxFed = 4
  SampleValues = {0, 1, 3}
  Boundary = 2
  MaxInt = 100
  MaxSamples = 4
  TimestampBits = 6
  FractionBits = 10
  Milli = 10
  MaxWraps = 3
  PointerSize = 4
  Bits = 22
  K = 16
  Part = 1
  TextIntBits = 4
  TextLongBits = 8
  TextLargeBits = 8
  Gaps = {0, 1, 2}
  HalfTime = 1
  PerSecond = 2
  Max_ = 3
  MaxInputs = 3
  WordBits = 6
  ArgBits = 3
  LineBits = 8
  kMaxLogLineSize = 5
  ThreadObjects = {1, 2}
  Temporary = 0
  MaxSpawned = 2
  Wrappers = {1, 2}
  MaxStreams = 3
  Callers = {1, 2, 3}
  MaxAsked = 2
  MaxString = 3
  main = main
  r1 = r1
  none = none
  Threads = {a}
  RtcThread = main
  Receivers = {r1}
  Conns = {1, 2, 3}
  NoReceiver = none
  NoThread = none
  NoConn = 0
  MaxCalls = 5
  Kinds <- MCKinds
  Signals = {s1, s2}
  PlainReceivers = {q1, q2}
  MaxConnections = 3
  MaxDepth = 2
  MaxEmissions = 2
SPECIFICATION SeqSpec
CHECK_DEADLOCK FALSE
INVARIANTS
  NumbersAgree
  PlatformIsGivenBack
  ConversionsAgree
  DeadLeaveNoTrace
  SlotsCalledRight
PROPERTIES
  ActsAsMap
  SlotsCalledAsDue
  CallsReturn
