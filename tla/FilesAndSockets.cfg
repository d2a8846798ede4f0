CONSTANTS
  Sockets = {1, 2}
  Descriptors = {1, 2}
  MaxFiles = 3
  MaxCalls = 4
  WinCalls = 5
  Types = {"udp"}
  FileSizes = {2}
  FileCounts = {3}
  TotalSizes = {8, 12}
  kRotatingLogFileDefaultSize = 2
  WriteSizes = {5}
  MaxBytes = 14
  MaxOpens = 2
SPECIFICATION MCSpec
CHECK_DEADLOCK FALSE
INVARIANTS EpollFollowsEnabled ReadsInOrder LogIsKept
PROPERTIES EventsOfTheSameSocket EventsAreTold
