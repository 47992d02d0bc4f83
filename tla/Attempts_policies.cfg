SPECIFICATION Spec
CONSTANTS
  Policies <- MCPolicies
  Power <- MCPower
  MaxFloat = 4
  PollInterval = 1
  ProbeTimeout = 2
  MaxTurns = 3
  None = None
INVARIANTS
  TypeOK
  OutcomeIsEarned
  EndsInTime
PROPERTIES
  Ends
CHECK_DEADLOCK FALSE
