CONSTANTS
    Shards = {a, b}
    Home = a
    NRows = 1
    Writes = {1, 2}
    Statement <- Mixed
    Contents = {seeded, new}
    Absent = absent
    Seeded = seeded
    New = new
    NoShard = none
    MaxMigrations = 2
    MaxFailures = 1
SPECIFICATION FairSpec
INVARIANTS
    MigrationTypeOK
    RoutedCopyIsCurrent
    FencesAreOwned
PROPERTIES
    RoutedCopyIsNeverWiped
    MigrationEnds
CHECK_DEADLOCK FALSE
