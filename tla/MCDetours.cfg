SPECIFICATION DetourSpec
CONSTANTS
  t1 = t1
  t2 = t2
  Table <- OneOfEachKind
  ImageWaitAttempts = 1
  LoadedAtStart <- OnlyCommon
  MaxFailures = 1
  Threads <- TwoThreads
  Animations <- IdleAndFlipping
  MaxCalls = 3
INVARIANTS
  DetourTypeOK
  NothingElseSwallowed
  SuccessIsComplete
  FeedFollowsCalls
SYMMETRY SymmetricThreads
CHECK_DEADLOCK FALSE
