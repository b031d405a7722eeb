SPECIFICATION Spec
CONSTANTS
    c1 = c1
    c2 = c2
    Callers = {c1, c2}
    Free = Free
    Orphan = Orphan
    MaxFetches = 2
    MaxCalls = 1
    MaxIds = 3
SYMMETRY Symmetry
INVARIANTS
    PostTypeOK
    FetchedIsStaged
    BudgetBound
    TriageIsBacked
    SucceededRan
