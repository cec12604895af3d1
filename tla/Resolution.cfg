\* Two events of one incident, whose runs may take longer than stale_seconds,
\* with an outage, a crash or a database error, and with one hand-over of an
\* event from a worker that is still busy with it.
CONSTANTS
    w1 = w1  w2 = w2  e1 = e1  e2 = e2
    Workers = {w1, w2}
    Events = {e1, e2}
    Contexts <- MCContexts
    Answers <- MCAnswers
    MaxAttempts = 2
    MaxFaults = 1
    MaxHandOns = 1
CHECK_DEADLOCK FALSE
SPECIFICATION LiveSpec
INVARIANTS OneRun FailedByAnswers CitationsMatchContext
PROPERTIES ImplementsSettlement SettledStays EventuallyMarked
