\* It does not hold.
SPECIFICATION Spec
CONSTANTS
  MaxVersion = 2
  Fixed = {2}
  Fields = 2
PROPERTIES
  FailedSaveChangesNothing
