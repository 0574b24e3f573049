SPECIFICATION Spec
CONSTANTS
    t1 = t1
    Shards = {1, 2}
    Txs = {t1}
    Written = {1}
    MaxRestores = 1
    MaxFaults = 1
INVARIANTS RestoreTypeOK   AtomicAcrossRestores RewoundStaysRewound
CHECK_DEADLOCK FALSE
