\* None of these holds, and TLC stops at the first: keep the line in question.
SPECIFICATION Spec
CONSTANTS
  p1 = p1
  p2 = p2
  p3 = p3
  NoProc = NoProc
  NoPath = "none"
  Procs <- MCProcs
  PidOf <- MCPidOf
  PathOf <- OwnPaths
  LongPaths <- LongPath2
  MaxNodes = 1
  MaxBoxes = 1
INVARIANTS
  RecordsOwnPath
  RefusalIsTrue
  RecordsHaveFile
  AccumulatedAtExit
