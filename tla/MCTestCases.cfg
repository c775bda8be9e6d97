SPECIFICATION Spec
CONSTANTS
    Clones = {a, b}
    Features = {f, g}
    Steps = {s}
    Versions = {"v1", "v2"}
    Requests = {q}
    None = None
    MaxRecords = 9
    Budgets <- Scenarios
SYMMETRY Alike
INVARIANTS
    FailsOnlyByMerge
    CurrentIsLatest
PROPERTIES
    Reconciled
    WritesLoad
    AppliedOnce
CHECK_DEADLOCK FALSE
