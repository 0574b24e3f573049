\* The documented condition of a rollback, against lost answers.
SPECIFICATION Spec
CONSTANTS
    t1 = t1
    Shards = {1, 2}
    Txs = {t1}
    Written = {1}
    MaxRestores = 1
    MaxFaults = 1
INVARIANT RollbackPrecedesDiscard
CHECK_DEADLOCK FALSE
