SPECIFICATION Spec
CONSTANTS
    Procs = {p, q, r}
    None = None
    Budgets <- Troubles
SYMMETRY Alike
INVARIANTS
    AcknowledgedKept
    OneAfterTheOther
    
PROPERTIES
    AboutTheLatest
CHECK_DEADLOCK FALSE
