SPECIFICATION Spec
CONSTANTS
  a = a
  b = b
  Il2Cpp = Il2Cpp
  None = None
  Deps <- TwoDeps
  Surroundings <- Devices
  FinderPeriod = 3
INVARIANTS
  TypeOK
  NeverArmsEarly
PROPERTIES
  PreloadsWhatIsMissing
  ArmsWhenPossible
CHECK_DEADLOCK FALSE
