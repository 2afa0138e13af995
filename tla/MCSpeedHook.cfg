SPECIFICATION Spec
CONSTANTS
  One = 4
  Values <- GameValues
  Multipliers <- ControlValues
  MaxCalls = 3
  MaxControls = 2
INVARIANTS
  TypeOK
  FeedTracksRequests
PROPERTIES
  RoundTripWhenSteady
CHECK_DEADLOCK FALSE
