SPECIFICATION Spec
CONSTANTS
  Codes <- MCCodes
  MaxCalls = 2
INVARIANTS
  NamedCodesClassified
CHECK_DEADLOCK FALSE
