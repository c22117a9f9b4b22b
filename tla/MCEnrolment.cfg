\* Two calls at once on two accounts and two devices, three secrets.
SPECIFICATION Spec
CONSTANTS
  anna = anna
  Anna = Anna
  ben = ben
  Users = {u1, u2}
  Spellings = {anna, Anna, ben}
  Fold <- MCFold
  Devices = {d1, d2}
  Uids = {x1}
  Secrets = {s1, s2, s3}
  Workers = {w1, w2}
  None = None
SYMMETRY Symmetry
INVARIANTS
  EnrolmentInv
  SecretInHand
  GivenIsStored
PROPERTIES
  RevokedStays
