CONSTANTS
    Bounds <- Small
SPECIFICATION FairSpec
INVARIANTS TypeOK AppliedOnce AnswerIsForRequest
PROPERTIES AppliedEventually Answered
CHECK_DEADLOCK FALSE
