CONSTANTS
    Exchanges = {x1}
    Servers = {s1}
    Ids = {i1}
    good = good
    bad = bad
    Responses = {good, bad}
    ParseStatusOf <- MCParseStatusOf
    MaxFaults = 1
    Absent = Absent
    Torn = Torn
    SafeSymbols <- MCSafeSymbols
    Limit <- MCLimit
    Posts <- MCPosts
    Templates <- MCTemplates
    Answers <- MCAnswers
SPECIFICATION DocumentsSpec
CHECK_DEADLOCK FALSE
INVARIANT RecordedResponseIsSaved
