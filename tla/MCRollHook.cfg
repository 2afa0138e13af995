SPECIFICATION FairSpec
CONSTANTS
  g1 = g1
  c1 = c1
  c2 = c2
  s1 = s1
  GameThreads <- OneGameThread
  Clients <- TwoClients
  Services <- OneService
  Null = Null
  GameMultipliers <- GameChoices
  ClientMultipliers <- Boundaries
  GameReadsMultiplier = TRUE
  MaxCalls = 3
  MaxFailures = 1
INVARIANTS
  TypeOK
  TriggerIsHonest
  ClientsDoNotMix
PROPERTIES
  CallsReturn
CHECK_DEADLOCK FALSE
