SPECIFICATION Spec
CONSTANTS
    c1 = c1
    c2 = c2
    r1 = r1
    Callers = {c1, c2}
    Runs = {r1}
    Calls <- OneRun
    Built = {}
    Free = Free
    Orphan = Orphan
    MaxExecs = 3
    Crashes = TRUE
SYMMETRY CallSymmetry
INVARIANTS
    RunTypeOK
    ExecutingIsRecorded
    AnswerIsRecorded
    SucceededIsLastAttempt
    PublishedIsRecorded
PROPERTIES
    SuccessKept
