CONSTANTS
    InitialSpans <- MC_InitialSpans
    SubmissionInterval = 4
    MaxConcurrentProofRequests = 1
    UintWidth = 8
    MaxRecords = 6
    MaxTasks = 2
    AnswerIds <- MC_AnyAnswer
    Faults = FALSE
SPECIFICATION Spec
INVARIANT RangesWellFormed
