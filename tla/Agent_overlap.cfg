\* The event is handed to a second worker while the first one is busy.
CONSTANTS
    w1 = w1  w2 = w2  r1 = r1  r2 = r2
    incident = incident  runbookA = runbookA  runbookB = runbookB  other = other
    Workers = {w1, w2}
    Reviewers = {}
    IncidentCalls = {incident}
    RetrievalCalls = {runbookA, runbookB}
    OtherCalls = {}
    MaxSteps = 3
    MaxToolCalls = 2
    MaxRepeated = 2
    ModelRetries = 1
    RepairAttempts = 1
    StrictProvider = FALSE
    MaxEvictions = 1
    MaxCrashes = 0
CHECK_DEADLOCK FALSE
SPECIFICATION Spec
INVARIANTS CountersExact WithinBudgets NoRepeatedCall FinalIsGrounded
