SPECIFICATION TraySpec
CONSTANTS
  TRAY_RETRY_MAX_ATTEMPTS = 2
INVARIANTS
  NeverForgotten
  BalloonIsTimed
  ItemShowsTask
  EntryShown
PROPERTIES
  IconReturns
  BalloonGoes
