CONSTANTS
  ada = ada  bob = bob  admin = admin  d1 = d1
  Accounts = {ada, bob, admin}
  Administrator = admin
  Browsers = {b1}
  Sessions = {s1, s2}
  Documents = {d1}
  Owner <- MCOwner
  Workers = {w1, w2}
  Ttl = 1
  MaxTime = 1
  MaxPasswords = 2
  Renewed = {ada}
  None = None
SYMMETRY Symmetry
SPECIFICATION Spec
CHECK_DEADLOCK FALSE
INVARIANTS
  ConsentHasAView ActsOfThePage StaleOnlyByRace
PROPERTIES
  EndedForGood
