SPECIFICATION Spec
CONSTANTS
  t1 = t1
  t2 = t2
  h1 = h1
  h2 = h2
  o1 = o1
  o2 = o2
  o3 = o3
  o4 = o4
  None = None
  Threads <- MCThreads
  Handles <- MCHandles
  Objects <- MCObjects
  Chunks <- MCChunks
  MaxBytes = 2
SYMMETRY Symmetric
INVARIANTS
  HashTypeOK
  NoDataRace
  OwnedOnce
  HashInv
PROPERTY
  TranscriptSpec
CHECK_DEADLOCK FALSE
