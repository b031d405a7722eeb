SPECIFICATION AdmissionSpec
CONSTANTS
    h1 = h1
    h2 = h2
    Handles = {h1, h2}
    MaxGen = 2
    MaxEpoch = 2
SYMMETRY HandleSymmetry
INVARIANTS
    AdmissionTypeOK
    ClosedCoversBindings
    NoRetiredWorkWhenOpen
PROPERTIES
    PromotedLeavesClosedReaped
    ImplementsFence
