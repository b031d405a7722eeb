SPECIFICATION Spec
CONSTANTS
    h1 = h1
    h2 = h2
    Nobody = Nobody
    Handles = {h1, h2}
    Proxied = {h1, h2}
    MaxGen = 2
    MaxEpoch = 0
    Serial = FALSE
    Faults = {"invalidate", "late_emit", "reopen"}
SYMMETRY SessionSymmetry
INVARIANTS
    TornDownWasFenced
