SPECIFICATION FairSpec
CONSTANTS
  Txs = {t1}
  Cutoffs = {1, 2}
  Floors = {0, 1}
  Retention = 1
  Lease = 1
  PageSize = 1
  Limit = 1
  Sealers = {s1, s2}
  Crashes = TRUE
  MaxTime = 2
  MaxGens = 1
  MaxConflicts = 1
PROPERTY DrainingEnds
