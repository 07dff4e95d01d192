SPECIFICATION Spec
CONSTANTS
  Window = {w1}
  NoWindow = NoWindow
  Bit = {422, 469}
  Boxed = {422, 469}
  Typed = {50, 150}
  MaxDialogs = 3
INVARIANTS
  CompositesAgree
  OpacityShown
PROPERTIES
  FilterIsChosen
  StyleIsChosen
