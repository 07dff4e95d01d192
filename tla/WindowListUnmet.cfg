\* None of these holds, and TLC stops at the first: keep the line in question.
SPECIFICATION Spec
CONSTANTS
  Handles <- MCHandles
  Processes <- MCProcesses
  ProcessOf <- MCProcessOf
  OwnProcess = own
  MayHang = {app}
  own = own
  app = app
  Digits = 1
  MaxRows = 3
  MaxSuspend = 1
INVARIANTS
  HandleIsWhole
  NeverFrozen
  RowSelected
  EachOnce
