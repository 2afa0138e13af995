SPECIFICATION Spec
CONSTANTS
  p1 = p1
  p2 = p2
  Publishers <- TwoPublishers
  NoThread = NoThread
  Sizes <- ShortAndLong
  MaxPayload = 2
  Capacity = 4
  Backlog = 1
  PartialSends = TRUE
  MaxPublishes = 3
  MaxSockets = 2
  MaxStops = 0
INVARIANTS
  EachLineIsAMessage
CHECK_DEADLOCK FALSE
