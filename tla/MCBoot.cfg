SPECIFICATION Spec
CONSTANTS
    c1 = c1
    c2 = c2
    r1 = r1
    r2 = r2
    Callers = {c1, c2}
    Runs = {r1, r2}
    Debug = {r1}
    Stops = {r1}
    Free = Free
    Orphan = Orphan
    Domain = Domain
    Alien = Alien
    Calls <- SharedCalls
    Built = {r2}
    MaxBoots = 2
    MaxTests = 1
    Crashes = TRUE
INVARIANTS
    SuccessIsItsOwn
    FailedIsStopped
    ExitedWasNotReady
    SuccessIsLatest
    BundleNamesResults
PROPERTIES
    AlienUntouched
