\* None of these holds, and TLC stops at the first: keep the line in question.
SPECIFICATION NotifySpec
CONSTANTS
  TRAY_RETRY_MAX_ATTEMPTS = 3
PROPERTIES
  IsRemoved
  StaysItsTime
CHECK_DEADLOCK FALSE
