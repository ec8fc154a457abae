SPECIFICATION Spec
CONSTANTS
  Configs <- MCConfigs
  None = None
INVARIANTS
  KxTypeOK
  SecretsMatchShares
  OwnGroupOnly
  KxInv
PROPERTY
  Connects
CHECK_DEADLOCK FALSE
