CONSTANTS
  Requests = {1, 2}
  Sessions = {s1}
  Signatures = {g1}
  Devices = {t1}
  u1 = u1
  u2 = u2
  d1 = d1
  d2 = d2
  Users = {u1}
  Documents = {d1, d2}
  Owner <- MCSharedOwner
  Withdrawable = {d1}
  Workers = {w1, w2}
  RequestTtl = 1
  ChallengeTtl = 1
  SigningTtl = 0
  MaxTime = 1
  None = None
SPECIFICATION FairSpec
PROPERTY WaitingEnds
