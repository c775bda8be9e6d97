CONSTANTS
    None = None
    r1 = r1
    r2 = r2
    b1 = b1
    b2 = b2
    n1 = n1
    n2 = n2
    Reviews = {r1, r2}
    Branches = {b1, b2}
    Follows <- MCFollows
    Number <- MCNumber
    Processes = {p}
    Budgets <- MCBudgets
SPECIFICATION LandingsSpec
SYMMETRY Symmetry
CHECK_DEADLOCK FALSE
INVARIANTS
    NotBegunNotMerged
    NamedLandingSeen
    MergesStay
