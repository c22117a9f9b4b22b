CONSTANTS
  Events = {1, 2, 3, 4}
  Historical = {2}
  Workers = {w1, w2}
  Readings = {1, 2, 3}
  HistoryTimes = {0}
  Genesis = Genesis
  None = None
SPECIFICATION FairSpec
INVARIANTS
  AuditInv
  ChainVerifies
PROPERTIES
  AppendOnly
  RefusalAnswered
