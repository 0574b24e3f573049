\* One sealer, every crash: seals, retention and an enumeration interleaved.
SPECIFICATION Spec
CONSTANTS
  Txs = {t1, t2}
  Cutoffs = {1, 2}
  Floors = {0, 1}
  Retention = 1
  Lease = 1
  PageSize = 1
  Limit = 1
  Sealers = {s1}
  Crashes = TRUE
  MaxTime = 2
  MaxGens = 2
  MaxConflicts = 1
INVARIANTS BucketTypeOK EnumerationIsComplete
PROPERTIES RetentionIsSafe ImplementsSealedLog
SYMMETRY TxSymmetry
