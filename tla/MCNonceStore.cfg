CONSTANTS
  Messages = {m1, m2}
  Workers = {w1, w2}
  Skew = 1
  Ttl = 1
  Retention = 2
  Wait = 1
  MaxTime = 6
  None = None
SPECIFICATION Spec
SYMMETRY Symmetry
CHECK_DEADLOCK FALSE
INVARIANTS
  NonceInv
  ExecutedOnce
