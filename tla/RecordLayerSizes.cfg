SPECIFICATION Spec
CONSTANTS
  ExplicitNonceLen = 8
  TagLen = 16
  WordMax = 7
  XorWord <- MCXor
  Messages <- MCMessages
  Ivs <- MCIvs
  KeyUpdate <- MCKeyUpdate
  CloseNotify <- MCCloseNotify
  Warning <- MCWarning
  Versions <- MCOneVersion
  GcmLimit = 1
  ChachaLimit = 3
  SeqSoftLimit = 2
  SeqHardLimit = 7
  MaxFragments = 1
  MaxSent = 1
INVARIANTS
  NoPanic
  DueRecordOpens
CHECK_DEADLOCK FALSE
