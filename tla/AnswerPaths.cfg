\* An answer on its way into a report, or onto a page of the demo.
SPECIFICATION AnswerSpec
CONSTANTS
    MaxResponseBytes = 2
    DefaultConnectTimeoutMs = 1
    DefaultTotalTimeoutMs = 3
    Timeouts = {0, 2}
    HttpStatuses = {200, 401, 500}
    MaxChunk = 2
    MaxWait = 4
    Stages <- MCStages
    Categories <- MCCategories
    ImplementationStage = "implementation_consistency"
    MismatchCategory = "implementation_mismatch"
    TraceIds <- MCTraceIds
    Documents <- MCDocuments
    GoldDiagnoses <- MCGoldDiagnoses
    HasCandidate <- MCHasCandidate
    Exchanges = {x1, x2}
    s1 = s1
    Servers = {s1}
    Ids = {i1, i2}
    Pages = {p1, p2}
    Origin <- MCOrigin
    good = good
    bad = bad
    Responses = {good, bad}
    ParseStatusOf <- MCParseStatusOf
    MaxFaults = 1
    Absent = Absent
    Torn = Torn
    None = None
CHECK_DEADLOCK FALSE
INVARIANT ResponseWithinLimit
INVARIANT EndsByDeadline
INVARIANT ReportedUsageIsKept
INVARIANT CountsMatchDefinitions
INVARIANT PredictionsKeepContract
INVARIANT PageIsTruthful
PROPERTY ServerBecomesFree
