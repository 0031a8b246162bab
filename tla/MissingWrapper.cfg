CONSTANTS
    MaxResponseBytes = 2
    DefaultConnectTimeoutMs = 1
    DefaultTotalTimeoutMs = 3
    Timeouts = {0, 2}
    HttpStatuses = {200, 401, 500}
    MaxChunk = 2
    MaxWait = 4
    Stages <- MCStages
    Categories <- MCCategories
    ImplementationStage = "implementation_consistency"
    MismatchCategory = "implementation_mismatch"
    TraceIds <- MCTraceIds
    Documents <- MCDocuments
    GoldDiagnoses <- MCGoldDiagnoses
    HasCandidate <- MCHasCandidate
SPECIFICATION PathSpec
CHECK_DEADLOCK FALSE
INVARIANT MissesAreCounted
