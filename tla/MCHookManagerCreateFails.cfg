SPECIFICATION FairSpec
CONSTANTS
  c1 = c1
  late = late
  w1 = w1
  w2 = w2
  Callers <- OneCaller
  Late = late
  Workers <- TwoWorkers
  LateFallbackAttempts = 2
  MaxCreateFailures = 1
PROPERTIES
  ReadyLeadsToInstall
CHECK_DEADLOCK FALSE
