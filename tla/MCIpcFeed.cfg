SPECIFICATION FairSpec
CONSTANTS
  p1 = p1
  p2 = p2
  Publishers <- TwoPublishers
  NoThread = NoThread
  Sizes <- AllSizes
  MaxPayload = 2
  Capacity = 4
  Backlog = 1
  PartialSends = TRUE
  MaxPublishes = 3
  MaxSockets = 3
  MaxStops = 1
INVARIANTS
  TypeOK
  NoLeakedSocket
  UnitsInOrder
PROPERTIES
  ImplementsLineFeed
  PublishReturns
  SentIsReceived
CHECK_DEADLOCK FALSE
