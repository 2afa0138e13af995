SPECIFICATION Spec
CONSTANTS
  g1 = g1
  c1 = c1
  c2 = c2
  s1 = s1
  GameThreads <- OneGameThread
  Clients <- OneClient
  Services <- OneService
  Null = Null
  GameMultipliers <- GameChoices
  ClientMultipliers <- JustOne
  GameReadsMultiplier = FALSE
  MaxCalls = 3
  MaxFailures = 0
INVARIANTS
  RollUsesMultiplier
CHECK_DEADLOCK FALSE
