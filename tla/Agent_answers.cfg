\* An evicted worker keeps running: a second answer replaces the first.
CONSTANTS
    w1 = w1  w2 = w2  r1 = r1  r2 = r2
    incident = incident  runbookA = runbookA  runbookB = runbookB  other = other
    Workers = {w1, w2}
    Reviewers = {r1}
    IncidentCalls = {incident}
    RetrievalCalls = {runbookA}
    OtherCalls = {}
    MaxSteps = 4
    MaxToolCalls = 2
    MaxRepeated = 1
    ModelRetries = 2
    RepairAttempts = 1
    StrictProvider = TRUE
    MaxEvictions = 1
    MaxCrashes = 0
CHECK_DEADLOCK FALSE
SPECIFICATION Spec
INVARIANTS OneAnswer
