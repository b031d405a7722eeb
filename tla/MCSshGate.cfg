SPECIFICATION FairSpec
CONSTANTS
    h1 = h1
    c1 = c1
    c2 = c2
    Handles = {h1}
    Halters = {c1}
    Resumers = {c2}
    Kinds = {"run_tests", "introspect"}
    Published = {"ready", "debugging"}
    Serial = FALSE
    StoreFails = {"introspect"}
    MaxGen = 2
    MaxEpoch = 2
INVARIANTS
    NoSuccessAcrossTransition
    CancelOnlyUnderHalt
PROPERTIES
    StopsOnlyFencedWork
    OpsDrain
