SPECIFICATION FairSpec
CONSTANTS
    h1 = h1
    h2 = h2
    Nobody = Nobody
    Handles = {h1, h2}
    Proxied = {h1}
    MaxGen = 2
    MaxEpoch = 0
    Serial = TRUE
    Faults = {"open_error", "overdue", "invalidate", "reopen", "close"}
INVARIANTS
    EndedLeavesNothing
    LiveBackendHoldsGuard
    NoPriorIncarnationResources
PROPERTIES
    TeardownDrains
