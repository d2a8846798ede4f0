SPECIFICATION MCSpec
CONSTANTS
  main = main
  r1 = r1
  none = none
  Threads = {a}
  RtcThread = main
  Receivers = {r1}
  Conns = {1, 2, 3}
  NoReceiver = none
  NoThread = none
  NoConn = 0
  MaxCalls = 5
  Kinds <- MCKinds
  Signals = {s1, s2}
  PlainReceivers = {q1, q2}
  MaxConnections = 3
  MaxDepth = 2
  MaxEmissions = 2
PROPERTIES
  ConnectionsInUseStay
CHECK_DEADLOCK FALSE
