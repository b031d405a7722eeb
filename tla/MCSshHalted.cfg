SPECIFICATION Spec
CONSTANTS
    h1 = h1
    c1 = c1
    c2 = c2
    Handles = {h1}
    Halters = {c1}
    Resumers = {c1}
    Kinds = {"introspect"}
    Published = {"ready"}
    Serial = TRUE
    StoreFails = {}
    MaxGen = 1
    MaxEpoch = 2
INVARIANTS
    HaltedAdmitsNoSsh
