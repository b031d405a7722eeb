SPECIFICATION Spec
CONSTANTS
    b1 = b1
    a1 = a1
    MaxStarts = 2
    MaxGen = 2
    Locations = {b1}
    Addresses = {a1}
    Faults = {"attach", "escape", "probe", "write", "record_write", "engine", "link", "exit", "crash"}
INVARIANTS
    StoppedIsGated
    StoppedIsReachable
    LiveIsStopped
    HeldIsReachable
    LedgerIsCurrent
