SPECIFICATION Spec
CONSTANTS
  Codes <- MCCodes
  MaxCalls = 2
INVARIANTS
  GoesOnOnlyOnSuccess
CHECK_DEADLOCK FALSE
