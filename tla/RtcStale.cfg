CONSTANTS
  Lines <- MCLines
  MaxTicks = 3
  MaxResets = 2
SPECIFICATION Spec
PROPERTY DateAsStored
