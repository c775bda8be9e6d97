CONSTANTS
    None = None
    a = a
    records = records
    b = b
    c = c
    Callers = {a, b, c}
    Shell = {records}
    Evidence = {code}
    Kinds = {FALSE, TRUE}
    MaxRequests = 3
    MaxAsks = 1
    MaxWrites = 2
    MaxRemovals = 1
    Budgets <- MCBudgets
SPECIFICATION FairFilesSpec
CHECK_DEADLOCK FALSE
INVARIANTS
    AnswersFresh
    PagesFresh
PROPERTY
    AsksAnswered
