SPECIFICATION Spec
CONSTANTS
  One = 4
  Values <- OnlyOne
  Multipliers <- ControlValues
  MaxCalls = 2
  MaxControls = 0
PROPERTIES
  StoredIsScaled
CHECK_DEADLOCK FALSE
