SPECIFICATION StallSpec
CONSTANTS
  MaxVersion = 2
  Fixed = {2}
  Fields = 2
PROPERTIES
  UIReturns
