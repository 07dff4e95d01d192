SPECIFICATION Spec
CONSTANTS
  p1 = p1
  p2 = p2
  p3 = p3
  NoProc = NoProc
  NoPath = "none"
  Procs <- MCProcs
  PidOf <- MCPidOf
  PathOf <- OwnPaths
  LongPaths <- NoLongPaths
  MaxNodes = 1
  MaxBoxes = 0
INVARIANTS
  AcceptedIsRecorded
