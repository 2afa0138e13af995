SPECIFICATION StartSpec
CONSTANTS
  c1 = c1
  c2 = c2
  late = late
  w1 = w1
  w2 = w2
  w3 = w3
  Callers <- TwoCallers
  Late = late
  Workers <- ThreeWorkers
  LateFallbackAttempts = 2
  MaxCreateFailures = 2
  Character = {"p", "k", "s", "x", ":"}
  Package <- GamePackage
  Colon = ":"
  NoName = NoName
  Names <- NamesAround
  Byte = {1, 2}
  SizeRange = 8
  Null = Null
  Requests <- Memories
INVARIANTS
  StartTypeOK
  ClaimInv
  InstallsAtMostOnce
  FeedOrder
  OnlyInTheGame
  LoaderLeaves
  ReadsInside
  FindsFirst
PROPERTIES
  ImplementsInstallOnce
  ArmedLeadsToVerdict
CHECK_DEADLOCK FALSE
