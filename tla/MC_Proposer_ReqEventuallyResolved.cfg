CONSTANTS
    InitialSpans <- MC_OneSpan
    SubmissionInterval = 2
    MaxConcurrentProofRequests = 1
    UintWidth = 8
    MaxRecords = 5
    MaxTasks = 2
    AnswerIds <- MC_AnyAnswer
    Faults = FALSE
SPECIFICATION FairSpec
PROPERTY ReqEventuallyResolved
