SPECIFICATION FairSpec
CONSTANTS
  Table <- PayloadHooks
  ImageWaitAttempts = 2
  LoadedAtStart <- CommonAndCore
  MaxFailures = 1
INVARIANTS
  TriedInOrder
  VerdictIsRequired
  ImageSeenStays
PROPERTIES
  ImplementsInstallOnce
  InstallTerminates
CHECK_DEADLOCK FALSE
