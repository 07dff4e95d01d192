\* It does not hold.
SPECIFICATION DragSpec
CONSTANTS
  Key = {k1}
  None = None
  MaxBoxes = 1
  Window = {w1}
  NoWindow = NoWindow
  Point = {0, 1}
  Coord = {0, 1}
PROPERTIES
  MovesOnlyHeld
