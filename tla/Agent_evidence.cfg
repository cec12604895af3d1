\* One worker at a time, with crashes, outages, replies of every kind and a
\* second release of the knowledge.
CONSTANTS
    w1 = w1
    Workers = {w1}
    Reviewers = {}
    IncidentCalls <- MCIncidentCalls
    RetrievalCalls <- MCRetrievalCalls
    OtherCalls <- MCOtherCalls
    MaxSteps = 4
    MaxToolCalls = 3
    MaxRepeated = 1
    ModelRetries = 2
    RepairAttempts = 1
    StrictProvider = TRUE
    MaxEvictions = 0
    MaxCrashes = 1
    Names <- MCNames
    Arguments <- MCArguments
    Fitting <- MCFitting
    TopK = 2
    Category = "http"
    MaxChunks = 2
    MaxReferences = 2
    History <- MCHistory
    Request <- MCRequest
    CallOf <- MCCallOf
    Payloads <- MCPayloads
    Candidates <- MCCandidates
    Knowledge <- MCKnowledge
    MaxReleases = 1
CHECK_DEADLOCK FALSE
SPECIFICATION EvidenceSpec
INVARIANTS EvidenceTypeOK MemoryMatchesTrail ResultsReadable CitationsAreEvidence UncitedIsEscalated ToolsUsedSucceeded FailedOnlyAfterReply ModelCallsBounded
PROPERTIES ImplementsAgentExecution
