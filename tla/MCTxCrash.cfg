SPECIFICATION Spec
CONSTANTS
    h1 = h1
    h2 = h2
    Nobody = Nobody
    Handles = {h1, h2, h3}
    h3 = h3
    Proxied = {h1}
    MaxGen = 2
    MaxEpoch = 0
    Serial = TRUE
    Faults = {"open_error", "clear_error", "halt", "reap_error", "close", "close_error", "write_error", "crash"}
INVARIANTS
    RestartReapsOrphans
    ParkedIsRemembered
    ParkedStaysGated
    EndedLeavesNothing
    ClosedSessionDeregistered
