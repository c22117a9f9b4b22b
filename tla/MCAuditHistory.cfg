CONSTANTS
  Events = {1, 2, 3}
  Historical = {2}
  Workers = {w1, w2}
  Readings = {1}
  HistoryTimes = {0, 2}
  Genesis = Genesis
  None = None
SPECIFICATION Spec
INVARIANTS
  HistoryRecognised
