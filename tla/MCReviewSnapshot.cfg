CONSTANTS
    Requests = {r1, r2}
    MaxEdits = 2
    MaxCommits = 1
    MaxFailures = 2
    MaxRestarts = 1
SPECIFICATION FairSnapshotSpec
CHECK_DEADLOCK FALSE
INVARIANTS
    ServedCurrent
PROPERTY
    BuildsEnd
