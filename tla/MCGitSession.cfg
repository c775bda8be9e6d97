CONSTANTS
    None = None
    Callers = {a, b}
    Sessions = {s, t}
    Branches = {main, dev}
    Commits = {x, y}
    MaxProcesses = 1
    MaxFailures = 2
    Budgets <- MCBudgets
SPECIFICATION Spec
SYMMETRY Symmetry
CHECK_DEADLOCK FALSE
INVARIANTS
    PoolAccounts
    OwnAnswer
    FiledWhereTrue
    AnswersSinceBegin
    NotCancelledByOthers
    NobodyWaitsInVain
