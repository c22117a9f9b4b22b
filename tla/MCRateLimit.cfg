CONSTANTS
  Keys = {k1}
  Addressless = {}
  Workers = {w1, w2}
  Window = 4
  MaxFailures = 2
  Every = 2
  MaxTime = 10
  MaxEvents = 5
SYMMETRY Symmetry
SPECIFICATION Spec
CHECK_DEADLOCK FALSE
INVARIANTS
  AttemptsAreBounded
PROPERTIES
  ShutWhileOn
