SPECIFICATION Spec
CHECK_DEADLOCK FALSE
CONSTANTS
  None = None
  ClientLists <- MCClientLists
  ServerLists <- MCServerLists
  ServerKeys <- MCServerKeys
  OtherKey <- MCOtherKey
  MaxAltered = 0
  MaxUpdates = 1
INVARIANTS
  NeverStuck
  QuietInv
