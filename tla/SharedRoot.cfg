CONSTANTS
    Exchanges = {x1, x2, x3}
    Servers = {s1, s2}
    Ids = {i1, i2}
    good = good
    bad = bad
    Responses = {good, bad}
    ParseStatusOf <- MCParseStatusOf
    MaxFaults = 2
    Absent = Absent
    Torn = Torn
    SafeSymbols <- MCSafeSymbols
    Limit <- MCLimit
    Posts <- MCPosts
    Templates <- MCTemplates
    Answers <- MCAnswers
    EvaluationSets <- MCEvaluationSets
    Raw <- MCRaw
    EvidenceFor <- MCEvidenceFor
    ReviewsFor <- MCReviewsFor
    MaxRecords = 2
    FormalPerDifficulty = 0
    FormalCategories <- MCFormalCategories
SPECIFICATION EvaluationsSpec
CHECK_DEADLOCK FALSE
SYMMETRY Symmetry
INVARIANT TypeOK
INVARIANT CallIsOnRecord
INVARIANT SingleFlight
INVARIANT ReplyIsBacked
INVARIANT DiagnosisIsSaved
INVARIANT DiagnosisIsGrounded
INVARIANT CreditIsEarned
INVARIANT HitsAreGrounded
PROPERTY ImplementsOneShotCall
