SPECIFICATION Spec
CONSTANTS
    k1 = k1
    k2 = k2
    c0 = c0
    c1 = c1
    NRows = 1
    Keys = {k1, k2}
    Gone = Gone
    NShards = 3
    Active0 = {1, 2}
    Leaving = 1
    Hash <- MCHash
    Catalogs = {c0, c1}
    Zero = c0
    Owner = c1
    Home = c1
    PageSize = 1
    Clients = {w1}
    Ops = {"insert", "update", "upsert", "delete", "tx-upsert", "tx-delete"}
    MaxOps = 3
    MaxFaults = 1
INVARIANTS IndexTypeOK   RingsAgree
CHECK_DEADLOCK FALSE
