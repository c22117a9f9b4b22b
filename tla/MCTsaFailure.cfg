CONSTANTS
  k1 = k1  k2 = k2
  certA = certA  certB = certB  renewedA = renewedA
  tsa1 = tsa1  tsa2 = tsa2
  ca = ca  tsaCa = tsaCa
  Documents = {d1}
  Signatures = {1, 2}
  c1 = c1  c2 = c2  c3 = c3
  Contents = {c1, c2, c3}
  Keys = {k1, k2}
  Certificates = {certA, renewedA, certB}
  Tsas = {tsa1, tsa2}
  Anchors = {ca, tsaCa}
  KeyOf <- MCKeyOf
  IssuerOf <- MCIssuerOf
  PageOf <- MCPageOf
  Boxes <- MCBoxes
  Absent = Absent
  Malformed = Malformed
  Historical = {1}
  Lost = Lost
  MaxChanges = 2
  None = None
SPECIFICATION Spec
CHECK_DEADLOCK FALSE
INVARIANTS
  TsaFailureIsNamed
