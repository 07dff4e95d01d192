SPECIFICATION DragSpec
CONSTANTS
  Key = {k1, k2}
  None = None
  MaxBoxes = 2
  Window = {w1}
  NoWindow = NoWindow
  Point = {0, 1}
  Coord = {0, 1}
INVARIANTS
  ViewsAgree
  ShownIsRegistered
PROPERTIES
  GripKept
  HookNeedsHotkey
