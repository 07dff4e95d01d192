SPECIFICATION CallSpec
CONSTANTS
  Handles <- MCHandles
  Processes <- MCProcesses
  ProcessOf <- MCProcessOf
  OwnProcess = own
  MayHang = {app}
  own = own
  app = app
  Digits = 1
  MaxRows = 3
  MaxSuspend = 1
PROPERTY CallsReturn
