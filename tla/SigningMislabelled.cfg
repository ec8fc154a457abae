SPECIFICATION Spec
CONSTANTS
  s1 = s1
  s2 = s2
  None = None
  PrivateKeys <- MCKeys
  Sessions <- MCSessions
  Offers <- MCOffers
SYMMETRY Symmetric
INVARIANT NeverCrashes
CHECK_DEADLOCK FALSE
