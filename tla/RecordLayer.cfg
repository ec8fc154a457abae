SPECIFICATION Spec
CONSTANTS
  ExplicitNonceLen = 1
  TagLen = 2
  WordMax = 7
  XorWord <- MCXor
  Messages <- MCMessages
  Ivs <- MCIvs
  KeyUpdate <- MCKeyUpdate
  CloseNotify <- MCCloseNotify
  Warning <- MCWarning
  Versions <- MCVersions
  GcmLimit = 1
  ChachaLimit = 3
  SeqSoftLimit = 2
  SeqHardLimit = 7
  MaxFragments = 1
  MaxSent = 3
INVARIANTS
  TypeOK
  NonceUnique
  DeliveredIsPrefix
  DueRecordOpens
CHECK_DEADLOCK FALSE
