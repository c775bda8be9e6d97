CONSTANTS
    None = None
    a = a
    b = b
    Callers = {a, b}
    Paths = {"f", "g", "o", "s"}
    SagaPaths = {"s"}
    Texts = {"x", "y", "}", "n"}
    Trivial = {"}"}
    OldHeaders = {"y"}
    NewHeaders = {}
    Repositories <- MCRepositories
    Budgets <- MCBudgets
SPECIFICATION Spec
CHECK_DEADLOCK FALSE
INVARIANTS
    CurrentIsVerbatim
