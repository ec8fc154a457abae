SPECIFICATION Spec
CHECK_DEADLOCK FALSE
CONSTANTS
  None = None
  ClientLists <- MCClientLists
  ServerLists <- MCServerLists
  ServerKeys <- MCServerKeys
  OtherKey <- MCOtherKey
  MaxAltered = 1
  MaxUpdates = 1
INVARIANTS
  HandshakeTypeOK
  NoDowngrade
  KeysSeparated
  PanicsOnlyOnFaults
  ExtractedAgree
  ExportsAgree
  HsInv
PROPERTIES
  ExchangeSpec
