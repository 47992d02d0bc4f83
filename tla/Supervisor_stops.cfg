SPECIFICATION Spec
CONSTANTS
  Calls = {s1, s2}
  MaxForks = 2
INVARIANTS
  TypeOK
  StopIsFinal
PROPERTIES
  SparesStrangers
  StopReturns
CHECK_DEADLOCK FALSE
