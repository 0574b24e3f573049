SPECIFICATION Spec
CONSTANTS
  Txs = {t1}
  Partitions = {p1}
  Cutoffs = {1}
  DayLength = 1
  PageSize = 1
  Retention = 1
  MaxTime = 2
  MaxEvents = 3
  MaxGens = 2
INVARIANTS FleetTypeOK CoverageIsSound SnapshotIsTheFence
PROPERTIES FleetIsSealedLog
CHECK_DEADLOCK FALSE
