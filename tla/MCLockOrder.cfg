\* Any three calls at once, one call each.
SPECIFICATION Spec
CONSTANTS
  r1 = r1
  r2 = r2
  r3 = r3
  d1 = d1
  d2 = d2
  Requests = {r1, r2, r3}
  DocumentOf <- MCDocumentOf
  Handlers = {h1, h2, h3}
  MaxDue = 1
  None = None
  Starts <- MCStarts
SYMMETRY Symmetry
CHECK_DEADLOCK FALSE
INVARIANTS
  LockInv
  DeadlocksHoldChainOrNonces
  DeadlocksAreSeen
PROPERTIES
  FailuresAreStored
