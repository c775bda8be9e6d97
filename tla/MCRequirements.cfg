SPECIFICATION Spec
CONSTANTS
    Clones = {a, b}
    s = s
    t = t
    w = w
    Stories = {s, t}
    Criteria = {k}
    Words = {w, x}
    Item = Item
    MaxRecords = 6
    Budgets <- Scenarios
SYMMETRY Alike
INVARIANTS
    FailsOnlyByMerge
    
PROPERTIES
    Reconciled
    WritesLoad
CHECK_DEADLOCK FALSE
