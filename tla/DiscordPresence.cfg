SPECIFICATION Spec
CONSTANTS
  MaxVersion = 2
  Fixed = {2}
  Fields = 2
INVARIANTS
  WorkerHasEvents
  NoLostUpdate
  StoppedIsGone
PROPERTIES
  SettingsShown
  TimerResent
  Reconnects
  UIReturns
