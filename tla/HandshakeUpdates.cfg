SPECIFICATION Spec
CHECK_DEADLOCK FALSE
CONSTANTS
  None = None
  ClientLists <- MCUpdateLists
  ServerLists <- MCUpdateLists
  ServerKeys <- MCUpdateKeys
  OtherKey <- MCOtherKey
  MaxAltered = 1
  MaxUpdates = 2
INVARIANTS
  KeysInv
