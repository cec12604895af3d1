\* One worker at a time, a provider that may fail every call, a crash
\* and a review.
CONSTANTS
    w1 = w1  w2 = w2  r1 = r1  r2 = r2
    incident = incident  runbookA = runbookA  runbookB = runbookB  other = other
    Workers = {w1}
    Reviewers = {r1}
    IncidentCalls = {incident}
    RetrievalCalls = {runbookA}
    OtherCalls = {}
    MaxSteps = 4
    MaxToolCalls = 2
    MaxRepeated = 1
    ModelRetries = 2
    RepairAttempts = 1
    StrictProvider = FALSE
    MaxEvictions = 0
    MaxCrashes = 1
CHECK_DEADLOCK FALSE
SPECIFICATION LiveSpec
INVARIANTS TypeOK StatusesAgree OneAnswer
PROPERTIES ImplementsSettlement ReviewWaits DecisionStands EventuallySettled
