SPECIFICATION PolicySpec
CONSTANTS
    Desks = {"d1"}
    Names = {"a", "b"}
    Criteria = {"x", "y"}
    Seeded = 1
    MaxIds = 3
    MaxCalls = 1
    MaxTries = 2
INVARIANT
    SnapshotIsTheSave
CHECK_DEADLOCK FALSE
