SPECIFICATION Spec
CONSTANTS
  ExplicitNonceLen = 1
  TagLen = 1
  WordMax = 7
  XorWord <- MCXor
  Messages <- MCMessages
  Ivs <- MCOneIv
  KeyUpdate <- MCKeyUpdate
  CloseNotify <- MCCloseNotify
  Warning <- MCWarning
  Versions <- MCOneVersion
  GcmLimit = 1
  ChachaLimit = 7
  SeqSoftLimit = 2
  SeqHardLimit = 5
  MaxFragments = 2
  MaxSent = 5
INVARIANTS
  IInv
  KeyUsage
PROPERTY
  ChannelSpec
CHECK_DEADLOCK FALSE
