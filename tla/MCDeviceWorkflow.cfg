CONSTANTS
  Requests = {1}
  Sessions = {s1, s2}
  Signatures = {g1, g2}
  Devices = {t1}
  s1 = s1
  s2 = s2
  u1 = u1
  d1 = d1
  Users = {u1}
  Documents = {d1}
  Owner <- MCOwner
  Withdrawable = {}
  Workers = {w1, w2}
  RequestTtl = 1
  ChallengeTtl = 1
  SigningTtl = 0
  MaxTime = 1
  None = None
  Done = Done
  Calls = {c1, c2}
  MaxFaults = 1
  MaxReboots = 1
SPECIFICATION FairDeviceSpec
INVARIANTS
  DeviceInv SignedWithFactors SuccessIsSigned DesertedByMishap
PROPERTIES
  ForgottenIsFinished TerminalComesBack
CONSTRAINT SessionsInOrder
CHECK_DEADLOCK FALSE
