SPECIFICATION Spec
CONSTANTS
  m1 = m1
  m2 = m2
  NumSlots = 2
  Models <- TwoModels
  Words <- Boundaries
  MinDice = 0
  MaxDice = 9999
  None = None
  MaxStarts = 2
  MaxChanges = 2
  MaxCalls = 5
INVARIANTS
  TypeOK
  ReaderIsConsistent
  
  
CHECK_DEADLOCK FALSE
