CONSTANTS
    Shards = {a, b}
    Home = a
    NRows = 1
    Writes = {1, 2}
    Statement <- Updates
    Contents = {seeded, new}
    Absent = absent
    Seeded = seeded
    New = new
    NoShard = none
    MaxMigrations = 1
    MaxFailures = 0
SPECIFICATION Spec
INVARIANT
    NoMirrorLandsAfterFlip
CHECK_DEADLOCK FALSE
